------------------------------ MODULE LlmClient ------------------------------
(***************************************************************************)
(* The conversation of the agentic loop with a model: the requests of      *)
(* src/llm/mod.rs with their keys and retries, the form the messages take  *)
(* on the wire (src/llm/google.rs, src/llm/openai.rs), and what            *)
(* run_agentic_loop of src/query/reranker.rs puts into the conversation.   *)
(*                                                                         *)
(* Every query makes a client of its own, and a query asks one thing at a  *)
(* time.  Of a tool call only its id, its signature and whether the loop   *)
(* knows the tool are told apart; Retrieval has what the calls do.         *)
(***************************************************************************)
EXTENDS Naturals, Sequences, FiniteSets, SequencesExt

CONSTANTS
  NKeys,     (* Number of API keys.                                        *)
  MaxTurns,  (* Bound on the turns of the loop.                            *)
  NoId,      (* A call without an id.                                      *)
  NoSign     (* A call without a signature.                                *)

LlmAssumption == NKeys \in Nat \ {0}

Keys == 0 .. NKeys - 1

VARIABLES
  provider,  (* Whose API it is.                                           *)
  place,     (* Where the loop is.                                         *)
  turns,     (* Turns taken.                                               *)
  last,      (* Is this the final turn, granted for the last results?      *)
  talk,      (* messages                                                   *)
  todo,      (* The calls of the last response still to be worked off.     *)
  results,   (* tool_results                                               *)
  rotor,     (* key_cursor modulo the number of keys.                      *)
  first,     (* start_cursor                                               *)
  passed,    (* The offset in the pass over the keys.                      *)
  limited,   (* rate_limited                                               *)
  refused,   (* History: the keys whose quota was found spent.             *)
  uses,      (* History: uses[k], how often key k was used.                *)
  said       (* History: the responses of the model, as they came.         *)

conversation == <<talk, todo, results, said>>
request == <<first, passed, limited, refused, uses>>
vars == <<provider, place, turns, last, conversation, rotor, request>>

(* A response of the model.  The calls of OpenAI have ids; those of Gemini *)
(* may have none, and have a signature when the model was thinking.        *)
Replies ==
  LET Call(n) ==
        IF provider = "openai"
        THEN {[id |-> <<turns, n>>, sign |-> NoSign, known |-> b] : b \in BOOLEAN}
        ELSE {[id |-> NoId, sign |-> <<turns, n>>, known |-> TRUE],
              [id |-> NoId, sign |-> NoSign, known |-> FALSE]}
  IN  {<<c>> : c \in Call(1)} \cup {<<c, d>> : c \in Call(1), d \in Call(2)}

User == [kind |-> "user", calls |-> <<>>]
ModelToolCalls(calls) == [kind |-> "calls", calls |-> calls]
ToolResults(calls) == [kind |-> "results", calls |-> calls]

TypeOK ==
  /\ provider \in {"google", "openai"}
  /\ place \in {"loop", "try", "backoff", "retry", "calls", "done", "failed"}
  /\ turns \in 0 .. MaxTurns
  /\ last \in BOOLEAN
  /\ \A i \in DOMAIN talk : talk[i].kind \in {"user", "calls", "results"}
  /\ place # "calls" => todo = <<>>
  /\ rotor \in Keys /\ first \in Keys /\ passed \in Keys
  /\ limited \subseteq Keys /\ refused \subseteq Keys
  /\ uses \in [Keys -> 0 .. 2]

Init ==
  /\ provider \in {"google", "openai"}
  /\ place = "loop" /\ turns = 0 /\ last = FALSE
  /\ talk = <<User>> /\ todo = <<>> /\ results = <<>> /\ said = <<>>
  /\ rotor = 0 /\ first = 0 /\ passed = 0
  /\ limited = {} /\ refused = {}
  /\ uses = [k \in Keys |-> 0]

-----------------------------------------------------------------------------
(* LlmClient::complete_with_tools.                                         *)

BeginRequest ==
  /\ first' = rotor /\ rotor' = (rotor + 1) % NKeys
  /\ passed' = 0 /\ limited' = {} /\ refused' = {}
  /\ uses' = [k \in Keys |-> 0]
  /\ place' = "try"

Key == (first + passed) % NKeys

UseKey == uses' = [uses EXCEPT ![Key] = @ + 1]

(* The next key, or what comes after the last one.                         *)
NextKey(after) ==
  IF passed + 1 < NKeys THEN passed' = passed + 1 /\ UNCHANGED place
  ELSE passed' = 0 /\ place' = after

KeyFails_MarksOffset ==
  /\ place = "try"
  /\ UseKey
  /\ \/ limited' = limited \cup {passed} /\ refused' = refused \cup {Key}
     \/ UNCHANGED <<limited, refused>>
  /\ NextKey("backoff")
  /\ UNCHANGED <<provider, turns, last, conversation, rotor, first>>

(* First pass: a key whose quota is spent is remembered, any other failure *)
(* is not.                                                                 *)
KeyFails ==
  /\ place = "try"
  /\ UseKey
  /\ \/ limited' = limited \cup {Key} /\ refused' = refused \cup {Key}
     \/ UNCHANGED <<limited, refused>>
  /\ NextKey("backoff")
  /\ UNCHANGED <<provider, turns, last, conversation, rotor, first>>

Backoff ==
  /\ place = "backoff"
  /\ place' = "retry"
  /\ UNCHANGED <<provider, turns, last, conversation, rotor, request>>

(* Second pass, without the remembered keys.  If it fails too, the loop    *)
(* ends with LlmError.                                                     *)
RetryFails ==
  /\ place = "retry"
  /\ IF Key \in limited THEN UNCHANGED uses ELSE UseKey
  /\ NextKey("failed")
  /\ UNCHANGED <<provider, turns, last, conversation, rotor, first, limited, refused>>

MayAnswer == place = "try" \/ (place = "retry" /\ Key \notin limited)

(* Prose ends the loop (and the final turn).                               *)
ReplyText ==
  /\ MayAnswer /\ UseKey
  /\ place' = "done"
  /\ UNCHANGED <<provider, turns, last, conversation, rotor, first, passed, limited, refused>>

(* Tool calls go into the conversation before they are worked off; those   *)
(* of the final turn are only worked off.                                  *)
ReplyCalls ==
  /\ MayAnswer /\ UseKey
  /\ IF last THEN place' = "done" /\ UNCHANGED conversation
     ELSE \E calls \in Replies :
            /\ talk' = Append(talk, ModelToolCalls(calls))
            /\ said' = Append(said, calls)
            /\ todo' = calls /\ results' = <<>>
            /\ place' = "calls"
  /\ UNCHANGED <<provider, turns, last, rotor, first, passed, limited, refused>>

-----------------------------------------------------------------------------
(* run_agentic_loop.                                                       *)

NextTurn ==
  /\ place = "loop" /\ turns < MaxTurns
  /\ turns' = turns + 1
  /\ BeginRequest
  /\ UNCHANGED <<provider, last, conversation>>

(* A cap ends the loop before a turn: either for good, or with one more    *)
(* turn for the results nobody has selected from.                          *)
CapReached ==
  /\ place = "loop" /\ turns > 0
  /\ \/ place' = "done" /\ UNCHANGED <<last, talk, rotor, request>>
     \/ /\ last' = TRUE
        /\ talk' = Append(talk, User)
        /\ BeginRequest
  /\ UNCHANGED <<provider, turns, todo, results, said>>

AnswerCall_SkipsUnknown ==
  /\ place = "calls" /\ todo # <<>>
  /\ results' = IF Head(todo).known THEN Append(results, Head(todo)) ELSE results
  /\ todo' = Tail(todo)
  /\ UNCHANGED <<provider, place, turns, last, talk, said, rotor, request>>

(* Whatever becomes of a call, its result carries the id of the call.      *)
AnswerCall ==
  /\ place = "calls" /\ todo # <<>>
  /\ results' = Append(results, Head(todo))
  /\ todo' = Tail(todo)
  /\ UNCHANGED <<provider, place, turns, last, talk, said, rotor, request>>

(* A budget is spent after a call: the other calls are left as they are,   *)
(* and so is the loop.                                                     *)
StopMidTurn ==
  /\ place = "calls" /\ results # <<>> /\ Last(results).known
  /\ talk' = Append(talk, ToolResults(results))
  /\ todo' = <<>>
  /\ place' = "done"
  /\ UNCHANGED <<provider, turns, last, results, said, rotor, request>>

(* All calls are answered: a reminder and the next turn, or the end.       *)
EndTurn ==
  /\ place = "calls" /\ todo = <<>>
  /\ \/ talk' = talk \o <<ToolResults(results), User>> /\ place' = "loop"
     \/ talk' = Append(talk, ToolResults(results)) /\ place' = "done"
  /\ UNCHANGED <<provider, turns, last, todo, results, said, rotor, request>>

Next ==
  \/ NextTurn \/ CapReached
  \/ KeyFails \/ Backoff \/ RetryFails \/ ReplyText \/ ReplyCalls
  \/ AnswerCall \/ StopMidTurn \/ EndTurn

Spec == Init /\ [][Next]_vars

-----------------------------------------------------------------------------
(* What goes over the wire, without the text.  Gemini takes one content    *)
(* per message; OpenAI one message per result, and no signature.           *)

GeminiContent(m) ==
  CASE m.kind = "user" -> [role |-> "user", parts |-> <<>>]
    [] m.kind = "calls" ->
         [role |-> "model",
          parts |-> [i \in DOMAIN m.calls |-> <<m.calls[i].id, m.calls[i].sign>>]]
    [] m.kind = "results" ->
         [role |-> "user", parts |-> [i \in DOMAIN m.calls |-> m.calls[i].id]]

OpenAIMessages(m) ==
  CASE m.kind = "user" -> <<[role |-> "user", ids |-> <<>>]>>
    [] m.kind = "calls" ->
         <<[role |-> "assistant", ids |-> [i \in DOMAIN m.calls |-> m.calls[i].id]]>>
    [] m.kind = "results" ->
         [i \in DOMAIN m.calls |-> [role |-> "tool", ids |-> <<m.calls[i].id>>]]

Contents == [i \in DOMAIN talk |-> GeminiContent(talk[i])]
Messages == FlattenSeq([i \in DOMAIN talk |-> OpenAIMessages(talk[i])])

Requesting == place \in {"try", "retry"}

(* OpenAI: the calls of a turn are followed at once by one result each, in *)
(* their order, and nothing else is a result.                              *)
ResultsAdjoin ==
  \A i \in DOMAIN Messages :
    /\ Messages[i].role = "assistant" =>
         \A n \in DOMAIN Messages[i].ids :
           /\ i + n <= Len(Messages)
           /\ Messages[i + n] = [role |-> "tool", ids |-> <<Messages[i].ids[n]>>]
    /\ Messages[i].role = "tool" =>
         \E j \in 1 .. i - 1 : /\ Messages[j].role = "assistant"
                               /\ i - j \in DOMAIN Messages[j].ids

(* Gemini: the calls are followed by as many results, and every turn of    *)
(* the model is replayed with the signatures it came with (llm/mod.rs: "or *)
(* the next request 400s").                                                *)
TurnsReplayed ==
  LET model == {i \in DOMAIN Contents : Contents[i].role = "model"}
      turn(i) == Cardinality({j \in model : j <= i})
  IN  /\ \A i \in model :
           /\ Contents[i + 1].role = "user"
           /\ Len(Contents[i + 1].parts) = Len(Contents[i].parts)
      /\ Cardinality(model) = Len(said)
      /\ \A i \in model : \A n \in DOMAIN said[turn(i)] :
           Contents[i].parts[n] = <<said[turn(i)][n].id, said[turn(i)][n].sign>>

(* A request is one the provider accepts.                                  *)
CallsAnswered ==
  Requesting => /\ provider = "openai" => ResultsAdjoin
                /\ provider = "google" => TurnsReplayed

(* A key whose quota was found spent is not used again for this request,   *)
(* whichever key the request began with; and a request fails only when     *)
(* every other key was tried, before and after the pause (llm/mod.rs:      *)
(* "keys that hit a rate limit (429) are excluded from the retry pass").   *)
LimitedKeysRest ==
  /\ \A k \in refused : uses[k] <= 1
  /\ place = "failed" => \A k \in Keys \ refused : uses[k] = 2
=============================================================================
