---- MODULE Conversation ----
(***************************************************************************)
(* One conversation of the infer or simulate stage: the client sends it    *)
(* turn by turn (run_conversation and _simulate_one of inference.py), a    *)
(* stateless agent serves each turn (LocalAgent.invoke of agent_client.py, *)
(* in the process or behind serve.py), and its tools are mocked: by rules, *)
(* and on a miss by policy (mocking.py), the mock engine being one of them *)
(* (mock_engine.py).                                                       *)
(*                                                                         *)
(* An agent may call several tools at once, as LangGraph's tool node does, *)
(* in threads that share the engine and the ledger of the request.         *)
(*                                                                         *)
(* A call is its number in the order the calls begin, and so are its       *)
(* answer and its line in a history.                                       *)
(***************************************************************************)
EXTENDS Naturals, Sequences, FiniteSets, Functions

CONSTANTS
  HistoryLimit, \* HISTORY_LIMIT: previous calls a prompt shows
  MaxRepairs,   \* max_repairs: how often an invalid answer is asked again
  MaxTurns,     \* bound: turns of the conversation
  MaxCalls      \* bound: calls the agent makes in it

Call == 1..MaxCalls

ASSUME BoundsAssumption ==
  HistoryLimit \in Nat \ {0} /\ MaxRepairs \in Nat /\ MaxTurns \in Nat \ {0} /\ MaxCalls \in Nat

VARIABLES
  setup,     \* the mocks block, and whether the agent is behind HTTP
  phase,     \* the client: about to send a turn, "waiting" for its result, or "over"
  turn,      \* turns whose result it has
  ledger,    \* mock_calls of the conversation
  error,     \* error_class
  serving,   \* the agent is at work on a turn
  history,   \* engine.history of the request
  last,      \* the last entry of engine.ledger, NoEntry when it is empty
  mockCalls, \* the ledger of the request, which the wrapped tools share
  begun,     \* calls begun so far
  at,        \* each call: where it is,
  of,        \* the turn it is of,
  shown,     \* and in respond, the history in its last prompt
  repairs,   \* and how often it was asked again
  crossed    \* history: calls that return while another one logs, or fail before they log

client == <<phase, turn, ledger, error>>
engine == <<history, last>>
prompt == <<shown, repairs>>
calls == <<at, of, prompt>>
vars == <<setup, client, serving, engine, mockCalls, begun, calls, crossed>>

OnMiss == {"real", "fallback", "strict", "llm"}
OnInvalid == {"fallback", "strict"}

\* LEDGER_LAYERS; of an entry: is there a "response" in it, and is there an "error".
Layer == {"rule", "llm", "real", "fallback", "error"}
Entry == [call : Call, layer : Layer, response : BOOLEAN, error : BOOLEAN]
NoEntry == [none |-> TRUE]
Answered(c, layer) == [call |-> c, layer |-> layer, response |-> TRUE, error |-> FALSE]
Failed(c) == [call |-> c, layer |-> "error", response |-> FALSE, error |-> TRUE]
Refused(c) == [call |-> c, layer |-> "llm", response |-> TRUE, error |-> TRUE]

\* "asking" the mock model; "logged" or "refused" by the engine, or "broken" before it
\* logged, and not yet back in the wrapper; the agent was "given" an answer, or the call
\* "raised", with MockEngineError when it is "invalid".
Returning == {"logged", "refused", "broken"}
Done == {"given", "raised", "invalid"}
At == {"free", "asking"} \cup Returning \cup Done

\* mocks_for_case: the policies of the block a request carries.
Setups == [onMiss : OnMiss, onInvalid : OnInvalid, remote : BOOLEAN]

IsAt(where) == {c \in Call : at[c] \in where}
InFlight == IsAt({"asking"} \cup Returning)

----
(* The client *)

\* _history_of: the calls of the entries it keeps, in the order of the ledger.
RankIn(places, i) == Cardinality({j \in places : j <= i})
NthOf(places, n) == CHOOSE i \in places : RankIn(places, i) = n
CallsAt(entries, places) == [n \in 1..Cardinality(places) |-> entries[NthOf(places, n)].call]

HistoryOfEngine(entries) ==
  CallsAt(entries, {i \in DOMAIN entries : entries[i].layer = "llm" /\ entries[i].response})
HistoryOf(entries) ==
  CallsAt(entries, {i \in DOMAIN entries : entries[i].layer # "error" /\ entries[i].response})

\* A turn is sent; the agent builds its graph, tools and engine for it.
Send ==
  /\ phase = "sending"
  /\ phase' = "waiting"
  /\ serving' = TRUE
  /\ history' = IF setup.onMiss = "llm" THEN HistoryOf(ledger) ELSE <<>>
  /\ last' = NoEntry
  /\ mockCalls' = <<>>
  /\ UNCHANGED <<setup, turn, ledger, error, begun, calls, crossed>>

\* The module, a model or the graph cannot be built.
BuildFails ==
  /\ phase = "sending"
  /\ phase' = "over"
  /\ error' = "infrastructure"
  /\ UNCHANGED <<setup, turn, ledger, serving, engine, mockCalls, begun, calls, crossed>>

\* RemoteAgent.invoke: no answer in time, or the connection is lost.  The agent goes on.
GivesUpWhenIdle ==
  /\ phase = "waiting" /\ setup.remote /\ InFlight = {}
  /\ phase' = "over"
  /\ error' = "infrastructure"
  /\ UNCHANGED <<setup, turn, ledger, serving, engine, mockCalls, begun, calls, crossed>>
GivesUp ==
  /\ phase = "waiting" /\ setup.remote
  /\ phase' = "over"
  /\ error' = "infrastructure"
  /\ UNCHANGED <<setup, turn, ledger, serving, engine, mockCalls, begun, calls, crossed>>

----
(* The wrapped tools *)

Begins(c) ==
  /\ serving /\ begun < MaxCalls
  /\ c = begun + 1
  /\ begun' = c

\* The locals of respond are gone with it.
Becomes(c, where) ==
  /\ at' = [at EXCEPT ![c] = where]
  /\ of' = [of EXCEPT ![c] = turn]
  /\ shown' = [shown EXCEPT ![c] = <<>>]
  /\ repairs' = [repairs EXCEPT ![c] = 0]
Records(e) == mockCalls' = Append(mockCalls, e)

\* A rule matches, or the policy answers or raises without the engine.
AnswerDirectly(c) ==
  /\ Begins(c)
  /\ \/ Becomes(c, "given") /\ Records(Answered(c, "rule"))
     \/ setup.onMiss \in {"real", "fallback"} /\ Becomes(c, "given") /\ Records(Answered(c, setup.onMiss))
     \/ setup.onMiss = "real" /\ Becomes(c, "raised") /\ UNCHANGED mockCalls
     \/ setup.onMiss = "strict" /\ Becomes(c, "raised") /\ Records(Failed(c))
  /\ UNCHANGED <<setup, client, serving, engine, crossed>>

\* build_prompt: every attempt reads the history anew.
Shown == IF Len(history) <= HistoryLimit
         THEN history
         ELSE SubSeq(history, Len(history) - HistoryLimit + 1, Len(history))

Ask(c) ==
  /\ setup.onMiss = "llm"
  /\ Begins(c)
  /\ at' = [at EXCEPT ![c] = "asking"]
  /\ of' = [of EXCEPT ![c] = turn]
  /\ shown' = [shown EXCEPT ![c] = Shown]
  /\ UNCHANGED <<setup, client, serving, engine, mockCalls, repairs, crossed>>

\* The answer is invalid, or the model failed; it is asked again with the problems.
Repair(c) ==
  /\ at[c] = "asking" /\ repairs[c] < MaxRepairs
  /\ shown' = [shown EXCEPT ![c] = Shown]
  /\ repairs' = [repairs EXCEPT ![c] = @ + 1]
  /\ UNCHANGED <<setup, client, serving, engine, mockCalls, begun, at, of, crossed>>

\* engine.ledger.append
Logs(e) ==
  /\ last' = e
  /\ crossed' = crossed \cup IsAt(Returning)
  /\ UNCHANGED <<setup, client, serving, mockCalls, begun>>

\* A valid answer, or the fallback for an answer that is invalid still.
RespondUnlogged(c) ==
  /\ at[c] = "asking"
  /\ Becomes(c, "logged")
  /\ history' = Append(history, c)
  /\ UNCHANGED <<setup, client, serving, mockCalls, begun, last, crossed>>
Respond(c) ==
  /\ at[c] = "asking"
  /\ Becomes(c, "logged")
  /\ history' = Append(history, c)
  /\ Logs(Answered(c, "llm"))

\* An answer that is invalid still, under on_invalid: strict.
Refuse(c) ==
  /\ at[c] = "asking" /\ repairs[c] = MaxRepairs /\ setup.onInvalid = "strict"
  /\ Becomes(c, "refused")
  /\ Logs(Refused(c))
  /\ UNCHANGED history

\* respond raises for any other reason before it logged: a schema the model cannot be
\* bound to, arguments in the history that json.dumps cannot write.
Break(c) ==
  /\ at[c] = "asking"
  /\ Becomes(c, "broken")
  /\ crossed' = crossed \cup {c}
  /\ UNCHANGED <<setup, client, serving, engine, mockCalls, begun>>

\* Back in the wrapper, which copies the last entry of engine.ledger, whosever it is.
Back(c) == IF last = NoEntry THEN Failed(c) ELSE last

Return(c) ==
  /\ at[c] = "logged"
  /\ Becomes(c, "given")
  /\ Records(Back(c))
  /\ UNCHANGED <<setup, client, serving, engine, begun, crossed>>

RaiseUnrecorded(c) ==
  /\ at[c] \in {"refused", "broken"}
  /\ Becomes(c, IF at[c] = "refused" THEN "invalid" ELSE "raised")
  /\ UNCHANGED <<setup, client, serving, engine, mockCalls, begun, crossed>>
Raise(c) ==
  /\ at[c] \in {"refused", "broken"}
  /\ Becomes(c, IF at[c] = "refused" THEN "invalid" ELSE "raised")
  /\ Records(Back(c))
  /\ UNCHANGED <<setup, client, serving, engine, begun, crossed>>

----
(* The end of a turn: the graph returns or raises when no call of it is in flight.  Nobody
   waits for it after the client gave up. *)

TurnEnds == serving /\ InFlight = {} /\ serving' = FALSE
Ignored == phase # "waiting" /\ UNCHANGED client
Leave ==
  /\ history' = <<>> /\ last' = NoEntry /\ mockCalls' = <<>>
  /\ UNCHANGED <<setup, begun, calls, crossed>>

\* The client has the result: mock_calls go to the ledger of the conversation.
Receives ==
  /\ phase = "waiting"
  /\ ledger' = ledger \o mockCalls
  /\ turn' = turn + 1

\* The agent answers, perhaps after it handled what its tools raised.  The conversation
\* may end with any turn: the case has no more, or the simulated user is satisfied.
AgentAnswers ==
  /\ TurnEnds
  /\ \/ Ignored
     \/ /\ Receives
        /\ phase' \in (IF turn + 1 < MaxTurns THEN {"sending", "over"} ELSE {"over"})
        /\ UNCHANGED error
  /\ Leave

\* is_mock_engine_error
ErrorClass(cause) == IF cause = "invalid" THEN "infrastructure" ELSE "agent"

\* What a tool of this turn raised, or an error of the agent itself, ends the conversation.
AgentRaises ==
  /\ TurnEnds
  /\ \/ Ignored
     \/ /\ Receives
        /\ \E cause \in {"own"} \cup {at[c] : c \in {d \in IsAt(Done) : of[d] = turn}} :
             cause # "given" /\ error' = ErrorClass(cause)
        /\ phase' = "over"
  /\ Leave

----

Init ==
  /\ setup \in Setups
  /\ phase = "sending" /\ turn = 0 /\ ledger = <<>> /\ error = "none"
  /\ serving = FALSE /\ history = <<>> /\ last = NoEntry /\ mockCalls = <<>>
  /\ begun = 0 /\ crossed = {}
  /\ at = [c \in Call |-> "free"] /\ of = [c \in Call |-> 0]
  /\ shown = [c \in Call |-> <<>>] /\ repairs = [c \in Call |-> 0]

Serve ==
  \/ \E c \in Call : \/ AnswerDirectly(c) \/ Ask(c) \/ Repair(c) \/ Respond(c) \/ Refuse(c)
                     \/ Break(c) \/ Return(c) \/ Raise(c)
  \/ AgentAnswers \/ AgentRaises

Next == Send \/ BuildFails \/ GivesUp \/ Serve

\* Model and tool calls return, and the agent stops calling; a remote agent may hang.
ServeLocally == ~setup.remote /\ Serve

Spec ==
  /\ Init /\ [][Next]_vars
  /\ WF_vars(Send \/ BuildFails \/ GivesUp) /\ WF_vars(ServeLocally)

----
(* Properties *)

\* Calls the ledger of the conversation accounts for: those that came back in a turn whose
\* result the client received.  A real tool that raises leaves no entry.
Accounted ==
  {c \in IsAt(Done) : of[c] < turn /\ ~(setup.onMiss = "real" /\ at[c] = "raised")}

\* The ledger has one entry for each of them, whatever overlapped, raised or was handled by
\* the agent: the totals of a run (ledger_totals) count every mocked call.
EveryCallIsCounted == Len(ledger) = Cardinality(Accounted)

\* A call that was not on its way back while another one was logged, and that the engine
\* did log, has its own entry, which says whether the agent was given an answer: no
\* failure is reported as an answer, and none is invented.
OwnEntry ==
  \A c \in Accounted \ crossed :
    \E i \in DOMAIN ledger : ledger[i].call = c /\ ledger[i].error = (at[c] # "given")

\* The engine of a later turn knows what the agent was told before, by whatever layer: a
\* prompt leaves an answer of an earlier turn out only for others that are not older.
Leaves(c, d) == d \notin Range(shown[c])
EarlierAnswersShown ==
  \A c \in IsAt({"asking"}), d \in IsAt({"given"}) \ crossed :
    of[d] < of[c] /\ Leaves(c, d) =>
      /\ Len(shown[c]) = HistoryLimit
      /\ \A e \in Range(shown[c]) : of[e] >= of[d]

\* The client gets to an end: with an agent that hangs because its requests time out, and
\* with one in its own process because every invalid answer is asked again a bounded
\* number of times.
ConversationEnds == <>(phase = "over")
====
