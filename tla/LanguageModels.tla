---------------------------- MODULE LanguageModels ----------------------------
(***************************************************************************)
(* The clients of the language models, OllamaClient and OpenAIClient.  An  *)
(* exchange is one call of a client's method: it makes up to Retries       *)
(* requests one after the other, each with a timer that runs until the     *)
(* answer's headers are there, and waits between them.  A stream makes one *)
(* request and reads its pieces against a timer of its own; a conversation *)
(* makes a request per round and runs the tools the reply calls.           *)
(***************************************************************************)
EXTENDS Naturals, Sequences

CONSTANTS
    Askers,          \* bound: exchanges at once
    Retries,         \* 3 in the code
    MaxIterations,   \* 5 in the code
    MaxToolCalls,    \* bound: tools called by one reply
    MaxPieces        \* bound: pieces of a stream counted

VARIABLE exchanges

lmvars == exchanges

Requests == {"chat", "generate", "embed", "list", "pull", "delete"}
Questions == {"has model", "model available"}                \* an error is a no
OpenAIRequests == {"openai chat", "openai list"}
OpenAIQuestions == {"openai healthy"}

AttemptsOf(kind) == IF kind \in {"healthy", "stream"} THEN 1 ELSE Retries

Idle == [kind |-> "none", at |-> "settled", attempt |-> 0, answer |-> "none",
         heard |-> 0, said |-> << >>, round |-> 0, calls |-> 0]

LanguageModelsInit == exchanges = [a \in Askers |-> Idle]

Settled(a) == exchanges[a].at = "settled"
At(a, place) == exchanges[a].at = place

Becomes(a, place) == exchanges' = [exchanges EXCEPT ![a].at = place]
Settles(a, answer) == exchanges' = [exchanges EXCEPT ![a].at = "settled", ![a].answer = answer]

Begins(a, kind) ==
    /\ Settled(a)
    /\ exchanges' = [exchanges EXCEPT ![a] = [Idle EXCEPT !.kind = kind, !.at = "fetching"]]

\* generate, chat, embeddings, listModels, pullModel, deleteModel, and those
\* that ask through them.
AsksOllama(a) == \E kind \in Requests \union Questions : Begins(a, kind)
AsksOpenAI(a) == \E kind \in OpenAIRequests \union OpenAIQuestions : Begins(a, kind)
ProbesOllama(a) == Begins(a, "healthy")
Streams(a) == Begins(a, "stream")
Converses(a) == Begins(a, "conversation")

\* The built-in coordinator's prompts go to the provider it is configured with,
\* and fail at once if that is OpenAI and there is no key for it.
CoordinatorPrompts(a) ==
    \/ Begins(a, "chat")
    \/ Begins(a, "openai chat")
    \/ Settled(a) /\ exchanges' = [exchanges EXCEPT ![a] = [Idle EXCEPT !.answer = "error"]]

\* The last error is thrown; before it, 1 s, 2 s, ... pass and the request is
\* made again, whatever was wrong with it.
AttemptFails(a) ==
    IF exchanges[a].attempt + 1 < AttemptsOf(exchanges[a].kind)
    THEN Becomes(a, "waiting")
    ELSE Settles(a, IF exchanges[a].kind \in Questions \union OpenAIQuestions \union {"healthy"}
                    THEN "no" ELSE "error")

TriesAgain(a) ==
    /\ At(a, "waiting")
    /\ exchanges' = [exchanges EXCEPT ![a].at = "fetching", ![a].attempt = @ + 1]

------------------------------------------------------------------------------
(***************************************************************************)
(* A request                                                               *)
(***************************************************************************)

NoSignal(a) == FALSE       \* mutant

\* Every request is made with the signal of a timer.
TimerArmed(a) == At(a, "fetching")

TimesOut(a) == TimerArmed(a) /\ AttemptFails(a)
Unreachable(a) == At(a, "fetching") /\ AttemptFails(a)

\* isHealthy looks at the status only.
HeadersArrive(a, ok) ==
    /\ At(a, "fetching")
    /\ CASE exchanges[a].kind = "healthy" -> Settles(a, IF ok THEN "yes" ELSE "no")
         [] ok /\ exchanges[a].kind = "stream" -> Becomes(a, "streaming")
         [] ok /\ exchanges[a].kind # "stream" -> Becomes(a, "reading")
         [] OTHER -> Becomes(a, "reading error")

\* The text of an error is read too, for its message.
ErrorRead(a) == At(a, "reading error") /\ AttemptFails(a)

\* What the reply of a conversation's round is followed by.
Replies(a, calls) ==
    LET said == Append(exchanges[a].said, "reply")
    IN  exchanges' = [exchanges EXCEPT ![a].said = said, ![a].calls = calls,
                          ![a].at = IF calls = 0 THEN "settled" ELSE "calling",
                          ![a].answer = IF calls = 0 THEN "history" ELSE @]

OllamaRead(a) ==
    /\ At(a, "reading")
    /\ \/ exchanges[a].kind \in Requests /\ Settles(a, "answer")
       \/ /\ exchanges[a].kind \in Questions
          /\ \E answer \in {"yes", "no"} : Settles(a, answer)
       \/ /\ exchanges[a].kind = "conversation"
          /\ \E calls \in 0..MaxToolCalls : Replies(a, calls)

OpenAIRead(a) ==
    /\ At(a, "reading")
    /\ \/ exchanges[a].kind \in OpenAIRequests /\ Settles(a, "answer")
       \/ exchanges[a].kind \in OpenAIQuestions /\ Settles(a, "yes")

BodyRead(a) == OllamaRead(a) \/ OpenAIRead(a)

\* No JSON, or the connection broke.  The timer no longer runs.
BodyBreaks(a) == At(a, "reading") /\ AttemptFails(a)

------------------------------------------------------------------------------
(***************************************************************************)
(* A stream                                                                *)
(***************************************************************************)

Heard(n) == IF n = MaxPieces THEN n ELSE n + 1

\* A piece of whole lines is passed on; the halves of a line that was split
\* between two pieces are skipped.
PieceArrives(a) ==
    /\ At(a, "streaming")
    /\ \E whole \in BOOLEAN :
          exchanges' = [exchanges EXCEPT ![a].heard = IF whole THEN Heard(@) ELSE @]

StreamDone(a) == At(a, "streaming") /\ Settles(a, "streamed")
StreamBreaks(a) == At(a, "streaming") /\ Settles(a, "error")
StreamTimesOut(a) == At(a, "streaming") /\ Settles(a, "error")

------------------------------------------------------------------------------
(***************************************************************************)
(* A conversation                                                          *)
(***************************************************************************)

\* A tool's result or its error is said; after the last the next round begins,
\* unless there were MaxIterations.
ToolSettles(a) ==
    LET x == exchanges[a]
        over == x.calls = 1 /\ x.round + 1 = MaxIterations
    IN  /\ At(a, "calling")
        /\ \E said \in {"result", "tool error"} :
              exchanges' = [exchanges EXCEPT ![a].said = Append(@, said), ![a].calls = @ - 1,
                  ![a].round = IF x.calls = 1 THEN @ + 1 ELSE @,
                  ![a].attempt = IF x.calls = 1 THEN 0 ELSE @,
                  ![a].at = IF over THEN "settled" ELSE IF x.calls = 1 THEN "fetching" ELSE @,
                  ![a].answer = IF over THEN "history" ELSE @]

------------------------------------------------------------------------------
LanguageModelsNext ==
    \E a \in Askers :
        \/ AsksOllama(a) \/ AsksOpenAI(a) \/ ProbesOllama(a) \/ Streams(a) \/ Converses(a)
        \/ CoordinatorPrompts(a)
        \/ \E ok \in BOOLEAN : HeadersArrive(a, ok)
        \/ TimesOut(a) \/ Unreachable(a) \/ TriesAgain(a)
        \/ ErrorRead(a) \/ OllamaRead(a) \/ OpenAIRead(a) \/ BodyBreaks(a)
        \/ PieceArrives(a) \/ StreamDone(a) \/ StreamBreaks(a) \/ StreamTimesOut(a)
        \/ ToolSettles(a)

\* Timers go off; a body whose headers were there ends or breaks, as the runtime
\* waits for its next piece for 300 s; a tool settles.  A model need not answer.
LanguageModelsFairness ==
    \A a \in Askers :
        /\ WF_lmvars(TimesOut(a))
        /\ WF_lmvars(StreamTimesOut(a))
        /\ WF_lmvars(TriesAgain(a))
        /\ WF_lmvars(ErrorRead(a))
        /\ WF_lmvars(BodyRead(a) \/ BodyBreaks(a))
        /\ WF_lmvars(ToolSettles(a))

LanguageModelsSpec == LanguageModelsInit /\ [][LanguageModelsNext]_lmvars /\ LanguageModelsFairness

------------------------------------------------------------------------------

\* Whatever the models do or fail to do, a call of a client settles: it does not
\* retry, stream or go on calling tools for ever, and a model that never answers
\* is given up.  What awaits it (a step, a plan, a synthesis) holds a session.
EveryExchangeSettles == \A a \in Askers : ~ Settled(a) ~> Settled(a)
==============================================================================
