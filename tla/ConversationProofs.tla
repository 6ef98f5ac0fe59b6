---- MODULE ConversationProofs ----
(***************************************************************************)
(* Proofs about a conversation, for every bound: its ledger has as many    *)
(* entries as calls it accounts for, each call that was not crossed has    *)
(* its own, and a later turn is shown what earlier ones were told.  The    *)
(* first two are shown of the request that is being served, whose          *)
(* mock_calls the client then takes over, and the last one follows from    *)
(* the order of what it took over.                                         *)
(***************************************************************************)
EXTENDS Conversation, FiniteSetTheorems, TLAPS

\* The history and the prompts have their own invariant, MemoryInv: the ledger does not
\* depend on them.
Types ==
  /\ phase \in {"sending", "waiting", "over"} /\ turn \in Nat
  /\ ledger \in Seq(Entry) /\ mockCalls \in Seq(Entry)
  /\ serving \in BOOLEAN
  /\ last \in Entry \cup {NoEntry}
  /\ begun \in 0..MaxCalls
  /\ at \in [Call -> At] /\ of \in [Call -> Nat]
  /\ crossed \subseteq Call

\* Calls begin in order, in turns the client has sent, and only an agent at work has calls
\* in flight, all of the same turn and with the engine.
Served ==
  /\ phase = "waiting" => serving
  /\ phase = "sending" => ~serving
  /\ InFlight # {} => serving
  /\ \A c \in Call : c > begun <=> at[c] = "free"
  /\ \A c \in Call : at[c] # "free" => of[c] <= turn
  /\ \A c \in Call : at[c] # "free" /\ phase = "sending" => of[c] < turn
  /\ \A c \in InFlight : of[c] = turn /\ setup.onMiss = "llm"

Recorded(c) == at[c] \in Done /\ ~(setup.onMiss = "real" /\ at[c] = "raised")
\* What Accounted is to the conversation, Current is to the request.
Current == {c \in Call : Recorded(c) /\ of[c] = turn}

Own(c, entries) ==
  \E i \in DOMAIN entries : entries[i].call = c /\ entries[i].error = (at[c] # "given")

\* A call on its way back finds its own entry last, unless it is crossed.
LastIsOwn ==
  \A c \in IsAt(Returning) \ crossed :
    /\ at[c] # "broken"
    /\ last \in Entry /\ last.call = c /\ last.error = (at[c] = "refused")
CurrentOwn == phase = "waiting" => \A c \in Current \ crossed : Own(c, mockCalls)
CurrentCounted == phase = "waiting" => Len(mockCalls) = Cardinality(Current)

OwnInv == LastIsOwn /\ CurrentOwn /\ OwnEntry
CountInv == CurrentCounted /\ EveryCallIsCounted
ConversationInv == Types /\ Served /\ OwnInv /\ CountInv

----
(* What a step does to the calls and to the ledger of the request *)

\* A step that moves one call, of the current turn, disturbs no call of an earlier one.
LEMMA MovesOneCall ==
  ASSUME Types, NEW c \in Call, NEW where, at[c] \notin Done, UNCHANGED <<setup, turn>>,
         at' = [at EXCEPT ![c] = where], of' = [of EXCEPT ![c] = turn]
  PROVE  /\ Accounted' = Accounted
         /\ c \notin Current
         /\ Current' = IF Recorded(c)' THEN Current \cup {c} ELSE Current
         /\ \A d \in Call \ {c} : at'[d] = at[d] /\ of'[d] = of[d]
         /\ at'[c] = where /\ of'[c] = turn
  <1>1. \A d \in Call \ {c} : at'[d] = at[d] /\ of'[d] = of[d]
    BY DEF Types
  <1>2. at'[c] = where /\ of'[c] = turn
    BY DEF Types
  <1>3. Accounted' = Accounted
    BY <1>1, <1>2 DEF Accounted, IsAt, Types
  <1>4. c \notin Current
    BY DEF Current, Recorded
  <1>5. Current' = IF Recorded(c)' THEN Current \cup {c} ELSE Current
    BY <1>1, <1>2, <1>4 DEF Current, Recorded
  <1> QED BY <1>1, <1>2, <1>3, <1>4, <1>5

\* Recording appends one entry.
LEMMA RecordsOne ==
  ASSUME Types, NEW e \in Entry, Records(e)
  PROVE  /\ mockCalls' \in Seq(Entry)
         /\ Len(mockCalls') = Len(mockCalls) + 1
         /\ DOMAIN mockCalls \subseteq DOMAIN mockCalls'
         /\ \A i \in DOMAIN mockCalls : mockCalls'[i] = mockCalls[i]
         /\ Len(mockCalls) + 1 \in DOMAIN mockCalls'
         /\ mockCalls'[Len(mockCalls) + 1] = e
  BY DEF Records, Types

\* The entries the code makes are entries.
LEMMA EntryTypes ==
  ASSUME NEW c \in Call
  PROVE  /\ \A layer \in Layer : Answered(c, layer) \in Entry
         /\ Failed(c) \in Entry /\ Refused(c) \in Entry
  BY DEF Answered, Failed, Refused, Entry, Layer

LEMMA BackType ==
  ASSUME Types, NEW c \in Call
  PROVE  Back(c) \in Entry
  BY EntryTypes DEF Back, Types

LEMMA NoEntryIsNone == NoEntry \notin Entry
  <1> SUFFICES ASSUME NoEntry \in Entry PROVE FALSE
    OBVIOUS
  <1>1. DOMAIN NoEntry = {"none"}
    BY DEF NoEntry
  <1>2. DOMAIN NoEntry = {"call", "layer", "response", "error"}
    BY DEF Entry
  <1> QED BY <1>1, <1>2

LEMMA FiniteCalls ==
  ASSUME NEW S \in SUBSET Call
  PROVE  IsFiniteSet(S) /\ Cardinality(S) \in Nat
  <1>1. MaxCalls \in Nat
    BY BoundsAssumption
  <1>2. IsFiniteSet(Call)
    BY <1>1, FS_Interval DEF Call
  <1> QED BY <1>2, FS_Subset, FS_CardinalityType

----
(* Types, and who may be in flight *)

LEMMA NoEntries == <<>> \in Seq(Entry)
  OBVIOUS

LEMMA TypesInit == Init => Types
  <1> SUFFICES ASSUME Init PROVE Types
    OBVIOUS
  <1>1. at \in [Call -> At] /\ of \in [Call -> Nat] /\ crossed \subseteq Call
    BY DEF Init, At
  <1>2. begun \in 0..MaxCalls /\ turn \in Nat
    BY BoundsAssumption DEF Init
  <1> QED BY <1>1, <1>2, NoEntries DEF Init, Types

LEMMA TypesStep ==
  ASSUME Types, [Next]_vars
  PROVE  Types'
  <1> USE DEF Types
  <1>1. ASSUME NEW c \in Call, AnswerDirectly(c)
        PROVE  Types'
    <2>1. /\ "rule" \in Layer /\ "real" \in Layer /\ "fallback" \in Layer
          /\ "given" \in At /\ "raised" \in At
      BY DEF Layer, At, Done
    <2>2. mockCalls' \in Seq(Entry)
      BY <1>1, <2>1, EntryTypes, RecordsOne DEF AnswerDirectly
    <2>3. at' \in [Call -> At] /\ of' \in [Call -> Nat]
      BY <1>1, <2>1 DEF AnswerDirectly, Becomes, client
    <2>4. begun' \in 0..MaxCalls
      BY <1>1 DEF AnswerDirectly, Begins, Call
    <2> QED BY <1>1, <2>2, <2>3, <2>4 DEF AnswerDirectly, client, engine
  <1>2. ASSUME NEW c \in Call, Ask(c)
        PROVE  Types'
    <2>1. begun' \in 0..MaxCalls
      BY <1>2 DEF Ask, Begins, Call
    <2> QED BY <1>2, <2>1 DEF Ask, client, engine, At
  <1>3. ASSUME NEW c \in Call, Repair(c)
        PROVE  Types'
    BY <1>3 DEF Repair, client, engine
  <1>4. ASSUME NEW c \in Call, Respond(c)
        PROVE  Types'
    <2>1. "llm" \in Layer
      BY DEF Layer
    <2> QED BY <1>4, <2>1, EntryTypes DEF Respond, Logs, Becomes, client, IsAt, At, Returning
  <1>5. ASSUME NEW c \in Call, Refuse(c)
        PROVE  Types'
    BY <1>5, EntryTypes DEF Refuse, Logs, Becomes, client, IsAt, At, Returning
  <1>6. ASSUME NEW c \in Call, Break(c)
        PROVE  Types'
    BY <1>6 DEF Break, Becomes, client, engine, At, Returning
  <1>7. ASSUME NEW c \in Call, Return(c) \/ Raise(c)
        PROVE  Types'
    <2>1. mockCalls' \in Seq(Entry)
      BY <1>7, BackType, RecordsOne DEF Return, Raise
    <2> QED BY <1>7, <2>1 DEF Return, Raise, Becomes, client, engine, At, Done
  <1>8. CASE AgentAnswers \/ AgentRaises
    <2>1. ledger \o mockCalls \in Seq(Entry)
      OBVIOUS
    <2>2. ledger' \in Seq(Entry) /\ turn' \in Nat
      <3>1. Ignored \/ Receives
        BY <1>8 DEF AgentAnswers, AgentRaises
      <3>2. CASE Ignored
        BY <3>2 DEF Ignored, client
      <3>3. CASE Receives
        BY <2>1, <3>3 DEF Receives
      <3> QED BY <3>1, <3>2, <3>3
    <2>3. phase' \in {"sending", "waiting", "over"}
      BY <1>8 DEF AgentAnswers, AgentRaises, Ignored, client
    <2>4. serving' = FALSE /\ Leave
      BY <1>8 DEF AgentAnswers, AgentRaises, TurnEnds
    <2> QED BY <2>2, <2>3, <2>4, NoEntries DEF Leave, calls
  <1>9. CASE Send \/ BuildFails \/ GivesUp
    BY <1>9, NoEntries DEF Send, BuildFails, GivesUp, engine, calls
  <1>10. CASE UNCHANGED vars
    BY <1>10 DEF vars, client, engine, calls
  <1> QED BY <1>1, <1>2, <1>3, <1>4, <1>5, <1>6, <1>7, <1>8, <1>9, <1>10 DEF Next, Serve

LEMMA ServedInit == Init => Served
  BY DEF Init, Served, InFlight, IsAt, Returning, Call

LEMMA ServedStep ==
  ASSUME Types, Served, [Next]_vars
  PROVE  Served'
  <1> USE DEF Types
  <1>1. ASSUME NEW c \in Call, NEW where \in At \ {"free"}, Begins(c),
               where \in Done \/ setup.onMiss = "llm",
               at' = [at EXCEPT ![c] = where], of' = [of EXCEPT ![c] = turn],
               UNCHANGED <<setup, phase, turn, serving>>
        PROVE  Served'
    <2>1. \A d \in Call : d > begun' <=> at'[d] = "free"
      BY <1>1 DEF Served, Begins, Call
    <2>2. \A d \in InFlight' : (d = c /\ setup.onMiss = "llm") \/ (d # c /\ d \in InFlight)
      BY <1>1 DEF InFlight, IsAt, Returning, Done
    <2>3. \A d \in Call : at'[d] # "free" => of'[d] <= turn'
      BY <1>1 DEF Served
    <2>4. serving /\ serving' /\ phase # "sending"
      BY <1>1 DEF Begins, Served
    <2> QED BY <1>1, <2>1, <2>2, <2>3, <2>4 DEF Served
  <1>2. ASSUME NEW c \in InFlight, NEW where \in At \ {"free"}, UNCHANGED <<setup, phase, turn, serving, begun>>,
               at' = [at EXCEPT ![c] = where], of' = [of EXCEPT ![c] = turn]
        PROVE  Served'
    <2>1. c \in Call /\ at[c] # "free"
      BY <1>2 DEF InFlight, IsAt, Returning
    <2>2. \A d \in InFlight' : d = c \/ d \in InFlight
      BY <1>2 DEF InFlight, IsAt
    <2>3. serving /\ serving' /\ phase # "sending"
      BY <1>2 DEF Served
    <2> QED BY <1>2, <2>1, <2>2, <2>3 DEF Served
  <1>3. ASSUME NEW c \in Call, AnswerDirectly(c) \/ Ask(c)
        PROVE  Served'
    BY <1>1, <1>3 DEF AnswerDirectly, Ask, Becomes, client, At, Done
  <1>4. ASSUME NEW c \in Call, Respond(c) \/ Refuse(c) \/ Break(c) \/ Return(c) \/ Raise(c)
        PROVE  Served'
    <2>1. c \in InFlight
      BY <1>4 DEF Respond, Refuse, Break, Return, Raise, InFlight, IsAt, Returning
    <2>2. \E where \in At \ {"free"} : Becomes(c, where)
      BY <1>4 DEF Respond, Refuse, Break, Return, Raise, At, Done, Returning
    <2>3. UNCHANGED <<setup, phase, turn, serving, begun>>
      BY <1>4 DEF Respond, Refuse, Break, Return, Raise, Logs, client
    <2> QED BY <1>2, <2>1, <2>2, <2>3 DEF Becomes
  <1>5. ASSUME NEW c \in Call, Repair(c)
        PROVE  Served'
    BY <1>5 DEF Repair, client, Served, InFlight, IsAt
  <1>6. CASE AgentAnswers \/ AgentRaises
    <2>1. /\ InFlight = {} /\ serving' = FALSE /\ UNCHANGED <<begun, at, of>>
          /\ phase' # "waiting"
          /\ turn' \in Nat /\ turn' >= turn
          /\ phase' = "sending" => turn' = turn + 1 \/ phase = "sending"
      <3>1. /\ InFlight = {} /\ serving' = FALSE /\ UNCHANGED <<begun, at, of>>
        BY <1>6 DEF AgentAnswers, AgentRaises, TurnEnds, Leave, calls
      <3>2. \/ Ignored
            \/ Receives /\ phase' \in {"sending", "over"}
        BY <1>6 DEF AgentAnswers, AgentRaises
      <3> QED BY <3>1, <3>2 DEF Ignored, Receives, client
    <2>2. InFlight' = {}
      BY <2>1 DEF InFlight, IsAt
    <2> QED BY <2>1, <2>2 DEF Served
  <1>7. CASE Send
    BY <1>7 DEF Send, Served, InFlight, IsAt, calls
  <1>8. CASE BuildFails \/ GivesUp
    BY <1>8 DEF BuildFails, GivesUp, Served, InFlight, IsAt, calls
  <1>9. CASE UNCHANGED vars
    BY <1>9 DEF vars, client, calls, Served, InFlight, IsAt
  <1> QED BY <1>3, <1>4, <1>5, <1>6, <1>7, <1>8, <1>9 DEF Next, Serve

----
(* Every call that is not crossed has its own entry *)

LEMMA OwnInit == Init => OwnInv
  <1> SUFFICES ASSUME Init PROVE OwnInv
    OBVIOUS
  <1>1. \A c \in Call : at[c] = "free"
    BY DEF Init
  <1>2. phase = "sending"
    BY DEF Init
  <1> QED BY <1>1, <1>2 DEF OwnInv, LastIsOwn, CurrentOwn, OwnEntry, Accounted, IsAt, Returning, Done

\* A call moves without coming back, and nothing is logged or recorded.
LEMMA OwnMove ==
  ASSUME Types, OwnInv, NEW c \in Call, NEW where, at[c] \notin Done, where \notin Done,
         at' = [at EXCEPT ![c] = where], of' = [of EXCEPT ![c] = turn],
         UNCHANGED <<setup, client, mockCalls>>, LastIsOwn', crossed \subseteq crossed'
  PROVE  OwnInv'
  <1>1. UNCHANGED <<turn, ledger, phase>>
    BY DEF client
  <1>2. /\ Accounted' = Accounted /\ Current' = Current
        /\ \A d \in Call \ {c} : at'[d] = at[d]
        /\ c \notin Current /\ c \notin Accounted
    BY <1>1, MovesOneCall DEF Recorded, Accounted, IsAt
  <1>3. CurrentOwn'
    BY <1>1, <1>2 DEF OwnInv, CurrentOwn, Own, Current
  <1>4. OwnEntry'
    BY <1>1, <1>2 DEF OwnInv, OwnEntry, Accounted, IsAt
  <1> QED BY <1>3, <1>4 DEF OwnInv

\* A call comes back and is recorded, by its own entry unless it is crossed.
LEMMA OwnRecord ==
  ASSUME Types, OwnInv, NEW c \in Call, NEW where, at[c] \notin Done,
         NEW e \in Entry, Records(e),
         c \in crossed \/ (e.call = c /\ e.error = (where # "given")),
         at' = [at EXCEPT ![c] = where], of' = [of EXCEPT ![c] = turn],
         where \in Done, UNCHANGED <<setup, client, engine, crossed>>
  PROVE  OwnInv'
  <1>1. UNCHANGED <<turn, ledger, phase, last>>
    BY DEF client, engine
  <1>2. /\ Accounted' = Accounted /\ Current' \subseteq Current \cup {c}
        /\ \A d \in Call \ {c} : at'[d] = at[d]
        /\ c \notin Current /\ c \notin Accounted /\ at'[c] = where
    BY <1>1, MovesOneCall DEF Accounted, IsAt
  <1>3. LastIsOwn'
    <2>1. \A d \in IsAt(Returning)' : d # c /\ d \in IsAt(Returning)
      BY <1>2 DEF IsAt, Returning, Done
    <2>2. \A d \in IsAt(Returning)' : at'[d] = at[d]
      BY <1>2, <2>1 DEF IsAt
    <2> QED BY <1>1, <2>1, <2>2 DEF OwnInv, LastIsOwn
  <1>4. CurrentOwn'
    <2> SUFFICES ASSUME phase = "waiting", NEW d \in Current' \ crossed
                 PROVE  Own(d, mockCalls)'
      BY <1>1 DEF CurrentOwn
    <2>1. CASE d = c
      BY <1>2, <2>1, RecordsOne DEF Own
    <2>2. CASE d # c
      <3>1. d \in Current \ crossed /\ at'[d] = at[d]
        BY <1>2, <2>2 DEF Current
      <3>2. Own(d, mockCalls)
        BY <3>1 DEF OwnInv, CurrentOwn
      <3> QED BY <3>1, <3>2, RecordsOne DEF Own
    <2> QED BY <2>1, <2>2
  <1>5. OwnEntry'
    BY <1>1, <1>2 DEF OwnInv, OwnEntry, Accounted, IsAt
  <1> QED BY <1>3, <1>4, <1>5 DEF OwnInv

\* The engine logs: whoever is on the way back is crossed from now on.
LEMMA OwnLog ==
  ASSUME Types, NEW c \in Call, NEW where \in {"logged", "refused"}, NEW e \in Entry,
         at[c] = "asking", e.call = c, e.error = (where = "refused"),
         Becomes(c, where), Logs(e)
  PROVE  LastIsOwn'
  <1>1. \A d \in Call \ {c} : at'[d] = at[d]
    BY DEF Becomes, Types
  <1>2. at'[c] = where
    BY DEF Becomes, Types
  <1>3. \A d \in IsAt(Returning)' \ crossed' : d = c
    BY <1>1 DEF Logs, IsAt
  <1> QED BY <1>2, <1>3 DEF LastIsOwn, Logs

LEMMA OwnStep ==
  ASSUME Types, Served, OwnInv, [Next]_vars
  PROVE  OwnInv'
  <1>1. ASSUME NEW c \in Call, AnswerDirectly(c)
        PROVE  OwnInv'
    <2>1. at[c] = "free"
      BY <1>1 DEF AnswerDirectly, Begins, Served, Call, Types
    <2>2. CASE Becomes(c, "raised") /\ setup.onMiss = "real" /\ UNCHANGED mockCalls
      <3>1. UNCHANGED <<setup, turn, ledger, phase, last, crossed>>
        BY <1>1 DEF AnswerDirectly, client, engine
      <3>2. /\ Accounted' = Accounted /\ Current' = Current
            /\ \A d \in Call \ {c} : at'[d] = at[d]
            /\ c \notin Current /\ c \notin Accounted /\ at'[c] = "raised"
        BY <2>1, <2>2, <3>1, MovesOneCall DEF Becomes, Recorded, Done, Accounted, IsAt
      <3>3. LastIsOwn'
        BY <3>1, <3>2 DEF OwnInv, LastIsOwn, IsAt, Returning
      <3>4. CurrentOwn'
        BY <2>2, <3>1, <3>2 DEF OwnInv, CurrentOwn, Own, Current
      <3>5. OwnEntry'
        BY <3>1, <3>2 DEF OwnInv, OwnEntry, Accounted, IsAt
      <3> QED BY <3>3, <3>4, <3>5 DEF OwnInv
    <2>3. ASSUME NEW layer \in Layer, Becomes(c, "given"), Records(Answered(c, layer))
          PROVE  OwnInv'
      <3>1. Answered(c, layer).call = c /\ Answered(c, layer).error = FALSE
        BY DEF Answered
      <3> QED BY <1>1, <2>1, <2>3, <3>1, EntryTypes, OwnRecord DEF AnswerDirectly, Becomes, Done
    <2>4. CASE Becomes(c, "raised") /\ Records(Failed(c))
      <3>1. Failed(c).call = c /\ Failed(c).error = TRUE
        BY DEF Failed
      <3> QED BY <1>1, <2>1, <2>4, <3>1, EntryTypes, OwnRecord DEF AnswerDirectly, Becomes, Done
    <2> QED BY <1>1, <2>2, <2>3, <2>4 DEF AnswerDirectly, Layer
  <1>2. ASSUME NEW c \in Call, Ask(c)
        PROVE  OwnInv'
    <2>1. at[c] = "free"
      BY <1>2 DEF Ask, Begins, Served, Call, Types
    <2>2. LastIsOwn'
      BY <1>2, <2>1 DEF Ask, OwnInv, LastIsOwn, IsAt, Returning, engine, Types
    <2> QED BY <1>2, <2>1, <2>2, OwnMove DEF Ask, Done
  <1>3. ASSUME NEW c \in Call, Repair(c)
        PROVE  OwnInv'
    BY <1>3 DEF Repair, OwnInv, LastIsOwn, CurrentOwn, Current, Recorded, Own, OwnEntry, Accounted,
                IsAt, client, engine
  <1>4. ASSUME NEW c \in Call, Respond(c)
        PROVE  OwnInv'
    <2>1. /\ Answered(c, "llm") \in Entry
          /\ Answered(c, "llm").call = c /\ Answered(c, "llm").error = FALSE
      BY EntryTypes DEF Answered, Layer
    <2>2. LastIsOwn'
      BY <1>4, <2>1, OwnLog DEF Respond
    <2> QED BY <1>4, <2>2, OwnMove DEF Respond, Logs, Becomes, Done
  <1>5. ASSUME NEW c \in Call, Refuse(c)
        PROVE  OwnInv'
    <2>1. Refused(c) \in Entry /\ Refused(c).call = c /\ Refused(c).error = TRUE
      BY EntryTypes DEF Refused
    <2>2. LastIsOwn'
      BY <1>5, <2>1, OwnLog DEF Refuse
    <2> QED BY <1>5, <2>2, OwnMove DEF Refuse, Logs, Becomes, Done
  <1>6. ASSUME NEW c \in Call, Break(c)
        PROVE  OwnInv'
    <2>1. LastIsOwn'
      BY <1>6 DEF Break, Becomes, OwnInv, LastIsOwn, IsAt, Returning, engine, Types
    <2> QED BY <1>6, <2>1, OwnMove DEF Break, Becomes, Done
  <1>7. ASSUME NEW c \in Call, Return(c)
        PROVE  OwnInv'
    <2>1. c \in crossed \/ (Back(c).call = c /\ Back(c).error = FALSE)
      BY <1>7, NoEntryIsNone DEF Return, OwnInv, LastIsOwn, IsAt, Returning, Back
    <2> QED BY <1>7, <2>1, BackType, OwnRecord DEF Return, Becomes, Done
  <1>8. ASSUME NEW c \in Call, Raise(c)
        PROVE  OwnInv'
    <2>1. c \in crossed \/ (Back(c).call = c /\ Back(c).error = TRUE)
      BY <1>8, NoEntryIsNone DEF Raise, OwnInv, LastIsOwn, IsAt, Returning, Back
    <2>2. PICK where \in {"invalid", "raised"} : Becomes(c, where)
      BY <1>8 DEF Raise
    <2> QED BY <1>8, <2>1, <2>2, BackType, OwnRecord DEF Raise, Becomes, Done
  <1>9. CASE AgentAnswers \/ AgentRaises
    <2>1. InFlight = {} /\ UNCHANGED <<setup, at, of, crossed>> /\ phase' # "waiting"
      BY <1>9 DEF AgentAnswers, AgentRaises, TurnEnds, Ignored, Leave, client, calls
    <2>2. LastIsOwn'
      BY <2>1 DEF LastIsOwn, InFlight, IsAt
    <2>3. CurrentOwn'
      BY <2>1 DEF CurrentOwn
    <2>4. OwnEntry'
      <3>1. CASE Ignored
        BY <2>1, <3>1 DEF Ignored, client, OwnInv, OwnEntry, Accounted, IsAt
      <3>2. CASE Receives
        <4>1. \A c \in Accounted' : c \in Accounted \/ (c \in Current /\ phase = "waiting")
          BY <2>1, <3>2 DEF Receives, Accounted, Current, Recorded, IsAt, Types
        <4>2. \A c \in Call : Own(c, ledger) \/ Own(c, mockCalls) => Own(c, ledger')
          <5> SUFFICES ASSUME NEW c \in Call, Own(c, ledger) \/ Own(c, mockCalls)
                       PROVE  Own(c, ledger')
            OBVIOUS
          <5>1. ledger' = ledger \o mockCalls
            BY <3>2 DEF Receives
          <5>2. CASE Own(c, ledger)
            <6>1. PICK i \in DOMAIN ledger : ledger[i].call = c /\ ledger[i].error = (at[c] # "given")
              BY <5>2 DEF Own
            <6>2. i \in DOMAIN ledger' /\ ledger'[i] = ledger[i]
              BY <5>1 DEF Types
            <6> QED BY <6>1, <6>2 DEF Own
          <5>3. CASE Own(c, mockCalls)
            <6>1. PICK i \in DOMAIN mockCalls : mockCalls[i].call = c /\ mockCalls[i].error = (at[c] # "given")
              BY <5>3 DEF Own
            <6>2. Len(ledger) + i \in DOMAIN ledger' /\ ledger'[Len(ledger) + i] = mockCalls[i]
              BY <5>1 DEF Types
            <6> QED BY <6>1, <6>2 DEF Own
          <5> QED BY <5>2, <5>3
        <4>3. \A c \in Accounted' \ crossed : Own(c, ledger')
          BY <4>1, <4>2 DEF OwnInv, CurrentOwn, OwnEntry, Own, Accounted, Current, IsAt
        <4> QED BY <2>1, <4>3 DEF OwnEntry, Own
      <3> QED BY <1>9, <3>1, <3>2 DEF AgentAnswers, AgentRaises
    <2> QED BY <2>2, <2>3, <2>4 DEF OwnInv
  <1>10. CASE Send
    <2>1. /\ \A c \in Call : at[c] \in Done => of[c] < turn
          /\ InFlight = {} /\ UNCHANGED <<setup, at, of, turn, ledger, crossed>>
      BY <1>10 DEF Send, Served, Done, calls
    <2>2. LastIsOwn'
      BY <2>1 DEF LastIsOwn, InFlight, IsAt
    <2>3. CurrentOwn'
      BY <2>1 DEF CurrentOwn, Current, Recorded, Types
    <2>4. OwnEntry'
      BY <2>1 DEF OwnInv, OwnEntry, Accounted, IsAt
    <2> QED BY <2>2, <2>3, <2>4 DEF OwnInv
  <1>11. CASE BuildFails \/ GivesUp
    BY <1>11 DEF BuildFails, GivesUp, OwnInv, LastIsOwn, CurrentOwn, OwnEntry, Accounted, IsAt,
                 engine, calls
  <1>12. CASE UNCHANGED vars
    BY <1>12 DEF vars, client, engine, calls, OwnInv, LastIsOwn, CurrentOwn, Current, Recorded,
                 Own, OwnEntry, Accounted, IsAt
  <1> QED BY <1>1, <1>2, <1>3, <1>4, <1>5, <1>6, <1>7, <1>8, <1>9, <1>10, <1>11, <1>12 DEF Next, Serve

----
(* The ledger has as many entries as calls it accounts for *)

LEMMA CountInit == Init => CountInv
  <1> SUFFICES ASSUME Init PROVE CountInv
    OBVIOUS
  <1>1. phase = "sending" /\ ledger = <<>>
    BY DEF Init
  <1>2. Accounted = {}
    BY DEF Init, Accounted, IsAt, Done
  <1> QED BY <1>1, <1>2, FS_EmptySet DEF CountInv, CurrentCounted, EveryCallIsCounted

\* A call moves, and leaves no entry where it needs none.
LEMMA CountMove ==
  ASSUME Types, CountInv, NEW c \in Call, NEW where, at[c] \notin Done,
         where \notin Done \/ (where = "raised" /\ setup.onMiss = "real"),
         at' = [at EXCEPT ![c] = where], of' = [of EXCEPT ![c] = turn],
         UNCHANGED <<setup, client, mockCalls>>
  PROVE  CountInv'
  <1>1. UNCHANGED <<turn, ledger, phase>>
    BY DEF client
  <1>2. Accounted' = Accounted /\ Current' = Current
    BY <1>1, MovesOneCall DEF Recorded
  <1> QED BY <1>1, <1>2 DEF CountInv, CurrentCounted, EveryCallIsCounted

\* A call comes back with the entry it needs.
LEMMA CountRecord ==
  ASSUME Types, CountInv, NEW c \in Call, NEW where \in Done, at[c] \notin Done,
         where # "raised" \/ setup.onMiss # "real",
         NEW e \in Entry, Records(e),
         at' = [at EXCEPT ![c] = where], of' = [of EXCEPT ![c] = turn],
         UNCHANGED <<setup, client>>
  PROVE  CountInv'
  <1>1. UNCHANGED <<turn, ledger, phase>>
    BY DEF client
  <1>2. Accounted' = Accounted /\ Current' = Current \cup {c} /\ c \notin Current
    BY <1>1, MovesOneCall DEF Recorded
  <1>3. Cardinality(Current \cup {c}) = Cardinality(Current) + 1
    <2>1. Current \in SUBSET Call
      BY DEF Current
    <2> QED BY <1>2, <2>1, FiniteCalls, FS_AddElement
  <1>4. Len(mockCalls') = Len(mockCalls) + 1
    BY RecordsOne
  <1> QED BY <1>1, <1>2, <1>3, <1>4 DEF CountInv, CurrentCounted, EveryCallIsCounted

\* The client takes over the entries of the request, and accounts for its calls.
LEMMA CountReceive ==
  ASSUME Types, CountInv, Receives, UNCHANGED <<setup, at, of>>
  PROVE  EveryCallIsCounted'
  <1>1. Accounted' = Accounted \cup Current /\ Accounted \cap Current = {}
    BY DEF Receives, Accounted, Current, Recorded, IsAt, Types
  <1>2. /\ IsFiniteSet(Accounted) /\ Cardinality(Accounted) \in Nat
        /\ IsFiniteSet(Current) /\ Cardinality(Current) \in Nat
    <2>1. Accounted \in SUBSET Call /\ Current \in SUBSET Call
      BY DEF Accounted, Current, IsAt
    <2> QED BY <2>1, FiniteCalls
  <1>3. Cardinality(Accounted') = Cardinality(Accounted) + Cardinality(Current)
    BY <1>1, <1>2, FS_Union, FS_EmptySet
  <1>4. Len(ledger') = Len(ledger) + Len(mockCalls)
    BY DEF Receives, Types
  <1> QED BY <1>3, <1>4 DEF CountInv, CurrentCounted, EveryCallIsCounted, Receives

LEMMA CountStep ==
  ASSUME Types, Served, CountInv, [Next]_vars
  PROVE  CountInv'
  <1>1. ASSUME NEW c \in Call, AnswerDirectly(c)
        PROVE  CountInv'
    <2>1. at[c] \notin Done
      BY <1>1 DEF AnswerDirectly, Begins, Served, Call, Types, Done
    <2>2. UNCHANGED <<setup, client>>
      BY <1>1 DEF AnswerDirectly
    <2>3. CASE setup.onMiss = "real" /\ Becomes(c, "raised") /\ UNCHANGED mockCalls
      BY <2>1, <2>2, <2>3, CountMove DEF Becomes
    <2>4. ASSUME NEW layer \in Layer, Becomes(c, "given"), Records(Answered(c, layer))
          PROVE  CountInv'
      BY <2>1, <2>2, <2>4, EntryTypes, CountRecord DEF Becomes, Done
    <2>5. CASE setup.onMiss = "strict" /\ Becomes(c, "raised") /\ Records(Failed(c))
      BY <2>1, <2>2, <2>5, EntryTypes, CountRecord DEF Becomes, Done
    <2> QED BY <1>1, <2>3, <2>4, <2>5 DEF AnswerDirectly, Layer
  <1>2. ASSUME NEW c \in Call, Ask(c)
        PROVE  CountInv'
    <2>1. at[c] \notin Done
      BY <1>2 DEF Ask, Begins, Served, Call, Types, Done
    <2> QED BY <1>2, <2>1, CountMove DEF Ask, Done
  <1>3. ASSUME NEW c \in Call, Repair(c)
        PROVE  CountInv'
    BY <1>3 DEF Repair, client, CountInv, CurrentCounted, EveryCallIsCounted, Current, Recorded,
                Accounted, IsAt
  <1>4. ASSUME NEW c \in Call, Respond(c) \/ Refuse(c) \/ Break(c)
        PROVE  CountInv'
    <2>1. PICK where \in Returning : Becomes(c, where)
      BY <1>4 DEF Respond, Refuse, Break, Returning
    <2>2. at[c] \notin Done /\ where \notin Done
      BY <1>4, <2>1 DEF Respond, Refuse, Break, Returning, Done
    <2>3. UNCHANGED <<setup, client, mockCalls>>
      BY <1>4 DEF Respond, Refuse, Break, Logs
    <2> QED BY <2>1, <2>2, <2>3, CountMove DEF Becomes
  <1>5. ASSUME NEW c \in Call, Return(c) \/ Raise(c)
        PROVE  CountInv'
    <2>1. PICK where \in Done : Becomes(c, where)
      BY <1>5 DEF Return, Raise, Done
    <2>2. at[c] \notin Done /\ at[c] \in Returning /\ Records(Back(c)) /\ UNCHANGED <<setup, client>>
      BY <1>5 DEF Return, Raise, Done, Returning
    <2>3. setup.onMiss = "llm"
      BY <2>2 DEF Served, InFlight, IsAt
    <2> QED BY <2>1, <2>2, <2>3, BackType, CountRecord DEF Becomes
  <1>6. CASE AgentAnswers \/ AgentRaises
    <2>1. phase' # "waiting" /\ UNCHANGED <<setup, at, of>>
      BY <1>6 DEF AgentAnswers, AgentRaises, Ignored, Leave, client, calls
    <2>2. CASE Ignored
      BY <2>1, <2>2 DEF Ignored, client, CountInv, CurrentCounted, EveryCallIsCounted, Accounted, IsAt
    <2>3. CASE Receives
      BY <2>1, <2>3, CountReceive DEF CountInv, CurrentCounted
    <2> QED BY <1>6, <2>2, <2>3 DEF AgentAnswers, AgentRaises
  <1>7. CASE Send
    <2>1. \A c \in Call : at[c] \in Done => of[c] < turn
      BY <1>7 DEF Send, Served, Done
    <2>2. Current' = {} /\ mockCalls' = <<>>
      BY <1>7, <2>1 DEF Send, Current, Recorded, calls, Types
    <2>3. Accounted' = Accounted /\ ledger' = ledger
      BY <1>7 DEF Send, Accounted, IsAt, calls
    <2> QED BY <2>2, <2>3, FS_EmptySet DEF CountInv, CurrentCounted, EveryCallIsCounted
  <1>8. CASE BuildFails \/ GivesUp
    BY <1>8 DEF BuildFails, GivesUp, CountInv, CurrentCounted, EveryCallIsCounted, Accounted, IsAt,
                engine, calls
  <1>9. CASE UNCHANGED vars
    BY <1>9 DEF vars, client, engine, calls, CountInv, CurrentCounted, Current, Recorded,
                EveryCallIsCounted, Accounted, IsAt
  <1> QED BY <1>1, <1>2, <1>3, <1>4, <1>5, <1>6, <1>7, <1>8, <1>9 DEF Next, Serve

----
(* What the places of a set of numbers are: NthOf counts them off in their order. *)

LEMMA RankIsANumber ==
  ASSUME NEW S, IsFiniteSet(S), NEW i
  PROVE  /\ IsFiniteSet({j \in S : j <= i})
         /\ RankIn(S, i) \in 0..Cardinality(S)
  <1>1. {j \in S : j <= i} \in SUBSET S
    OBVIOUS
  <1>2. IsFiniteSet({j \in S : j <= i}) /\ Cardinality({j \in S : j <= i}) <= Cardinality(S)
    BY <1>1, FS_Subset
  <1>3. Cardinality(S) \in Nat /\ Cardinality({j \in S : j <= i}) \in Nat
    BY <1>2, FS_CardinalityType
  <1> QED BY <1>2, <1>3 DEF RankIn

LEMMA RankGrows ==
  ASSUME NEW S \in SUBSET Nat, IsFiniteSet(S), NEW i \in S, NEW k \in S, i < k
  PROVE  RankIn(S, i) < RankIn(S, k)
  <1> DEFINE A == {j \in S : j <= i}
             B == {j \in S : j <= k}
  <1>1. A \in SUBSET B /\ k \in B /\ k \notin A
    <2>1. \A j \in S : j \in Nat
      OBVIOUS
    <2>2. \A j \in S : j <= i => j <= k
      BY <2>1
    <2>3. k <= k /\ ~(k <= i)
      BY <2>1
    <2> QED BY <2>2, <2>3
  <1>2. IsFiniteSet(B) /\ Cardinality(A) \in Nat /\ Cardinality(B) \in Nat
    BY RankIsANumber, FS_CardinalityType
  <1>3. Cardinality(A) <= Cardinality(B) /\ Cardinality(A) # Cardinality(B)
    <2> HIDE DEF A, B
    <2> QED BY <1>1, <1>2, FS_Subset
  <1> QED BY <1>2, <1>3 DEF RankIn

LEMMA RankOfAPlace ==
  ASSUME NEW S \in SUBSET Nat, IsFiniteSet(S), NEW i \in S
  PROVE  RankIn(S, i) \in 1..Cardinality(S)
  <1> DEFINE A == {j \in S : j <= i}
  <1>1. IsFiniteSet(A) /\ Cardinality(A) \in 0..Cardinality(S)
    BY RankIsANumber DEF RankIn
  <1>2. A # {}
    OBVIOUS
  <1>3. Cardinality(A) # 0
    <2> HIDE DEF A
    <2> QED BY <1>1, <1>2, FS_EmptySet
  <1>4. Cardinality(S) \in Nat
    BY FS_CardinalityType
  <1> QED BY <1>1, <1>3, <1>4 DEF RankIn

\* Every number up to the size of the set is the rank of one of its places.
LEMMA RanksAreAll ==
  ASSUME NEW S \in SUBSET Nat, IsFiniteSet(S), NEW n \in 1..Cardinality(S)
  PROVE  \E i \in S : RankIn(S, i) = n
  <1> DEFINE rank == [i \in S |-> RankIn(S, i)]
             T == 1..Cardinality(S)
  <1>1. Cardinality(S) \in Nat
    BY FS_CardinalityType
  <1>2. rank \in [S -> T]
    BY RankOfAPlace
  <1>3. \A i, k \in S : rank[i] = rank[k] => i = k
    <2> SUFFICES ASSUME NEW i \in S, NEW k \in S, i # k
                 PROVE  rank[i] # rank[k]
      OBVIOUS
    <2>1. rank[i] \in Nat /\ rank[k] \in Nat
      BY <1>1, <1>2
    <2>2. CASE i < k
      BY <2>1, <2>2, RankGrows
    <2>3. CASE k < i
      BY <2>1, <2>3, RankGrows
    <2> QED BY <2>2, <2>3
  <1>4. IsFiniteSet(T) /\ Cardinality(T) = Cardinality(S)
    BY <1>1, FS_Interval
  <1> HIDE DEF rank, T
  <1>5. rank \in Injection(S, T)
    BY <1>2, <1>3 DEF Injection, IsInjective
  <1>6. rank \in Surjection(S, T)
    BY <1>4, <1>5, FS_Injection
  <1>7. \E i \in S : rank[i] = n
    BY <1>6 DEF T, Surjection
  <1> QED BY <1>7 DEF rank

LEMMA NthOfIsAPlace ==
  ASSUME NEW S \in SUBSET Nat, IsFiniteSet(S), NEW n \in 1..Cardinality(S)
  PROVE  NthOf(S, n) \in S /\ RankIn(S, NthOf(S, n)) = n
  BY RanksAreAll DEF NthOf

LEMMA NthOfGrows ==
  ASSUME NEW S \in SUBSET Nat, IsFiniteSet(S),
         NEW n \in 1..Cardinality(S), NEW m \in 1..Cardinality(S), n < m
  PROVE  NthOf(S, n) < NthOf(S, m)
  <1>1. /\ NthOf(S, n) \in S /\ RankIn(S, NthOf(S, n)) = n
        /\ NthOf(S, m) \in S /\ RankIn(S, NthOf(S, m)) = m
    BY NthOfIsAPlace
  <1>2. n \in Nat /\ m \in Nat
    BY FS_CardinalityType
  <1> DEFINE p == NthOf(S, n)
             q == NthOf(S, m)
  <1>3. CASE q < p
    <2>1. RankIn(S, q) < RankIn(S, p)
      <3> HIDE DEF p, q
      <3>1. p \in S /\ q \in S
        BY <1>1 DEF p, q
      <3> QED BY <1>3, <3>1, RankGrows
    <2> QED BY <1>1, <1>2, <2>1
  <1>4. CASE NthOf(S, m) = NthOf(S, n)
    BY <1>1, <1>2, <1>4
  <1>5. NthOf(S, n) \in Nat /\ NthOf(S, m) \in Nat
    BY <1>1
  <1> QED BY <1>3, <1>4, <1>5

LEMMA NthOfIsOnto ==
  ASSUME NEW S \in SUBSET Nat, IsFiniteSet(S), NEW i \in S
  PROVE  \E n \in 1..Cardinality(S) : NthOf(S, n) = i
  <1>1. PICK n \in 1..Cardinality(S) : n = RankIn(S, i)
    BY RankOfAPlace
  <1>2. NthOf(S, n) \in S /\ RankIn(S, NthOf(S, n)) = n
    BY NthOfIsAPlace
  <1>3. n \in Nat
    BY FS_CardinalityType
  <1> DEFINE p == NthOf(S, n)
  <1>4. CASE p < i
    <2>1. RankIn(S, p) < RankIn(S, i)
      <3> HIDE DEF p
      <3>1. p \in S
        BY <1>2 DEF p
      <3> QED BY <1>4, <3>1, RankGrows
    <2> QED BY <1>1, <1>2, <1>3, <2>1
  <1>5. CASE i < p
    <2>1. RankIn(S, i) < RankIn(S, p)
      <3> HIDE DEF p
      <3>1. p \in S
        BY <1>2 DEF p
      <3> QED BY <1>5, <3>1, RankGrows
    <2> QED BY <1>1, <1>2, <1>3, <2>1
  <1>6. NthOf(S, n) \in Nat /\ i \in Nat
    BY <1>2
  <1> QED BY <1>4, <1>5, <1>6

\* The history made of a ledger: its calls are those of the entries _history_of keeps, all of
\* them, in the order of the ledger.
Kept(entries) == {i \in DOMAIN entries : entries[i].layer # "error" /\ entries[i].response}

LEMMA HistoryOfTheLedger ==
  ASSUME NEW entries \in Seq(Entry)
  PROVE  /\ HistoryOf(entries) \in Seq(Call)
         /\ \A i \in Kept(entries) : entries[i].call \in Range(HistoryOf(entries))
         /\ \A n \in DOMAIN HistoryOf(entries) :
              \E i \in Kept(entries) : HistoryOf(entries)[n] = entries[i].call
         /\ \A n, m \in DOMAIN HistoryOf(entries) : n < m =>
              \E i, k \in Kept(entries) :
                /\ i < k
                /\ HistoryOf(entries)[n] = entries[i].call /\ HistoryOf(entries)[m] = entries[k].call
  <1> DEFINE S == Kept(entries)
             h == HistoryOf(entries)
  <1>1. S \in SUBSET (1..Len(entries)) /\ Len(entries) \in Nat
    BY DEF Kept
  <1>2. S \in SUBSET Nat /\ IsFiniteSet(S)
    <2>1. IsFiniteSet(1..Len(entries))
      BY <1>1, FS_Interval
    <2> QED BY <1>1, <2>1, FS_Subset
  <1>3. Cardinality(S) \in Nat
    BY <1>2, FS_CardinalityType
  <1>4. h = [n \in 1..Cardinality(S) |-> entries[NthOf(S, n)].call]
    BY DEF HistoryOf, CallsAt, Kept
  <1>5. \A i \in S : entries[i].call \in Call
    <2>1. \A e \in Entry : e.call \in Call
      BY DEF Entry
    <2>2. \A i \in 1..Len(entries) : entries[i] \in Entry
      OBVIOUS
    <2> QED BY <1>1, <2>1, <2>2
  <1>6. \A n \in 1..Cardinality(S) : NthOf(S, n) \in S
    BY <1>2, NthOfIsAPlace
  <1> HIDE DEF S, h
  <1>7. h \in Seq(Call) /\ DOMAIN h = 1..Cardinality(S)
    BY <1>3, <1>4, <1>5, <1>6
  <1>8. \A i \in S : entries[i].call \in Range(h)
    <2> SUFFICES ASSUME NEW i \in S PROVE entries[i].call \in Range(h)
      OBVIOUS
    <2>1. PICK n \in 1..Cardinality(S) : NthOf(S, n) = i
      BY <1>2, NthOfIsOnto
    <2>2. h[n] = entries[i].call
      BY <1>4, <2>1
    <2> QED BY <1>7, <2>2 DEF Range
  <1>9. \A n \in DOMAIN h : \E i \in S : h[n] = entries[i].call
    BY <1>4, <1>6, <1>7
  <1>10. \A n, m \in DOMAIN h : n < m =>
           \E i, k \in S : i < k /\ h[n] = entries[i].call /\ h[m] = entries[k].call
    <2> SUFFICES ASSUME NEW n \in DOMAIN h, NEW m \in DOMAIN h, n < m
                 PROVE  \E i, k \in S : i < k /\ h[n] = entries[i].call /\ h[m] = entries[k].call
      OBVIOUS
    <2>1. NthOf(S, n) < NthOf(S, m)
      BY <1>2, <1>7, NthOfGrows
    <2> QED BY <1>4, <1>6, <1>7, <2>1
  <1> QED BY <1>7, <1>8, <1>9, <1>10 DEF S, h

----
(* What the engine of a later turn remembers *)

\* An entry without an error holds an answer, which _history_of keeps.
Honest(e) == ~e.error => e.layer # "error" /\ e.response
OfThisTurn(c) == at[c] # "free" /\ of[c] = turn
OfAnEarlierTurn(c) == at[c] # "free" /\ of[c] < turn

\* The ledger of the conversation is in the order of its turns, and the ledgers of the request
\* are of the current one.
LedgerOrder ==
  /\ \A i \in DOMAIN ledger : Honest(ledger[i]) /\ OfAnEarlierTurn(ledger[i].call)
  /\ \A i, j \in DOMAIN ledger : i < j => of[ledger[i].call] <= of[ledger[j].call]
  /\ \A i \in DOMAIN mockCalls : Honest(mockCalls[i]) /\ OfThisTurn(mockCalls[i].call)
  /\ last \in Entry => Honest(last) /\ OfThisTurn(last.call)

\* So is the history, which lacks no answer of an earlier turn.
HistoryOrder ==
  /\ history \in Seq(Call)
  /\ \A i \in DOMAIN history : at[history[i]] # "free" /\ of[history[i]] <= turn
  /\ \A i, j \in DOMAIN history : i < j => of[history[i]] <= of[history[j]]
HistoryIsWhole ==
  serving /\ setup.onMiss = "llm" =>
    \A d \in IsAt({"given"}) \ crossed : of[d] < turn => d \in Range(history)

Prompts ==
  /\ shown \in [Call -> Seq(Call)]
  /\ \A c \in Call : \A e \in Range(shown[c]) : at[e] # "free"
  /\ EarlierAnswersShown

MemoryInv == LedgerOrder /\ HistoryOrder /\ HistoryIsWhole /\ Prompts

LEMMA MemoryInit == Init => MemoryInv
  <1> SUFFICES ASSUME Init PROVE MemoryInv
    OBVIOUS
  <1>1. /\ ledger = <<>> /\ mockCalls = <<>> /\ history = <<>> /\ last = NoEntry
        /\ serving = FALSE /\ shown = [c \in Call |-> <<>>]
        /\ \A c \in Call : at[c] = "free"
    BY DEF Init
  <1>2. LedgerOrder
    BY <1>1, NoEntryIsNone DEF LedgerOrder
  <1>3. HistoryOrder /\ HistoryIsWhole
    BY <1>1 DEF HistoryOrder, HistoryIsWhole
  <1>4. \A c \in Call : Range(shown[c]) = {}
    BY <1>1 DEF Range
  <1>5. <<>> \in Seq(Call)
    OBVIOUS
  <1>6. Prompts
    BY <1>1, <1>4, <1>5 DEF Prompts, EarlierAnswersShown, IsAt
  <1> QED BY <1>2, <1>3, <1>6 DEF MemoryInv

\* A call that has begun stays in its turn, and none begins, comes back or is crossed in a
\* turn that is past.
LEMMA CallsStayInTheirTurn ==
  ASSUME Types, Served, [Next]_vars
  PROVE  /\ turn' \in Nat /\ turn <= turn' /\ crossed \subseteq crossed'
         /\ \A c \in Call : at[c] # "free" => at'[c] # "free" /\ of'[c] = of[c]
         /\ \A c \in Call : at'[c] = "given" /\ of'[c] < turn => at[c] = "given" /\ of'[c] = of[c]
  <1> USE DEF Types
  <1>1. ASSUME NEW c \in Call, NEW where \in At \ {"free"}, at[c] = "free" \/ of[c] = turn,
               at' = [at EXCEPT ![c] = where], of' = [of EXCEPT ![c] = turn],
               turn' = turn, crossed \subseteq crossed'
        PROVE  /\ turn' \in Nat /\ turn <= turn' /\ crossed \subseteq crossed'
               /\ \A d \in Call : at[d] # "free" => at'[d] # "free" /\ of'[d] = of[d]
               /\ \A d \in Call : at'[d] = "given" /\ of'[d] < turn => at[d] = "given" /\ of'[d] = of[d]
    <2>1. \A d \in Call \ {c} : at'[d] = at[d] /\ of'[d] = of[d]
      BY <1>1
    <2>2. at'[c] = where /\ of'[c] = turn /\ where # "free"
      BY <1>1
    <2> QED BY <1>1, <2>1, <2>2
  <1>2. ASSUME UNCHANGED <<at, of>>, turn' \in Nat, turn <= turn', UNCHANGED crossed
        PROVE  /\ turn' \in Nat /\ turn <= turn' /\ crossed \subseteq crossed'
               /\ \A c \in Call : at[c] # "free" => at'[c] # "free" /\ of'[c] = of[c]
               /\ \A c \in Call : at'[c] = "given" /\ of'[c] < turn => at[c] = "given" /\ of'[c] = of[c]
    BY <1>2
  <1>3. ASSUME NEW c \in Call, AnswerDirectly(c) \/ Ask(c)
        PROVE  at[c] = "free" /\ UNCHANGED <<turn, crossed>>
    BY <1>3 DEF AnswerDirectly, Ask, Begins, Served, Call, client
  <1>4. ASSUME NEW c \in Call, AnswerDirectly(c) \/ Ask(c)
        PROVE  \E where \in At \ {"free"} :
                 at' = [at EXCEPT ![c] = where] /\ of' = [of EXCEPT ![c] = turn]
    BY <1>4 DEF AnswerDirectly, Ask, Becomes, At, Done
  <1>5. ASSUME NEW c \in Call, Respond(c) \/ Refuse(c) \/ Break(c) \/ Return(c) \/ Raise(c)
        PROVE  of[c] = turn /\ turn' = turn /\ crossed \subseteq crossed'
    <2>1. c \in InFlight
      BY <1>5 DEF Respond, Refuse, Break, Return, Raise, InFlight, IsAt, Returning
    <2> QED BY <1>5, <2>1 DEF Respond, Refuse, Break, Return, Raise, Logs, Served, client
  <1>6. ASSUME NEW c \in Call, Respond(c) \/ Refuse(c) \/ Break(c) \/ Return(c) \/ Raise(c)
        PROVE  \E where \in At \ {"free"} :
                 at' = [at EXCEPT ![c] = where] /\ of' = [of EXCEPT ![c] = turn]
    BY <1>6 DEF Respond, Refuse, Break, Return, Raise, Becomes, At, Done, Returning
  <1>7. ASSUME NEW c \in Call, Repair(c)
        PROVE  UNCHANGED <<at, of, turn, crossed>>
    BY <1>7 DEF Repair, client
  <1>8. CASE AgentAnswers \/ AgentRaises
    <2>1. UNCHANGED <<at, of, crossed>>
      BY <1>8 DEF AgentAnswers, AgentRaises, Leave, calls
    <2>2. turn' = turn \/ turn' = turn + 1
      BY <1>8 DEF AgentAnswers, AgentRaises, Ignored, Receives, client
    <2> QED BY <1>2, <2>1, <2>2
  <1>9. CASE Send \/ BuildFails \/ GivesUp
    BY <1>2, <1>9 DEF Send, BuildFails, GivesUp, calls
  <1>10. CASE UNCHANGED vars
    BY <1>2, <1>10 DEF vars, client, calls
  <1> QED BY <1>1, <1>2, <1>3, <1>4, <1>5, <1>6, <1>7, <1>8, <1>9, <1>10 DEF Next, Serve

LEMMA LedgerStep ==
  ASSUME Types, Served, LedgerOrder, [Next]_vars
  PROVE  LedgerOrder'
  <1> USE DEF Types
  <1>1. /\ turn' \in Nat /\ turn <= turn'
        /\ \A c \in Call : at[c] # "free" => at'[c] # "free" /\ of'[c] = of[c]
    BY CallsStayInTheirTurn
  <1>2. Types'
    BY TypesStep
  <1>3. \A e \in Entry : e.call \in Call
    BY DEF Entry
  <1>4. /\ \A i \in DOMAIN ledger : ledger[i] \in Entry
        /\ \A i \in DOMAIN mockCalls : mockCalls[i] \in Entry
    OBVIOUS
  <1>5. \A e \in Entry : /\ OfThisTurn(e.call) /\ turn' = turn => OfThisTurn(e.call)'
                         /\ OfThisTurn(e.call) /\ turn' = turn + 1 => OfAnEarlierTurn(e.call)'
                         /\ OfAnEarlierTurn(e.call) => OfAnEarlierTurn(e.call)'
    BY <1>1, <1>3 DEF OfThisTurn, OfAnEarlierTurn
  <1> DEFINE Long == /\ \A i \in DOMAIN ledger : Honest(ledger[i]) /\ OfAnEarlierTurn(ledger[i].call)
                     /\ \A i, j \in DOMAIN ledger : i < j => of[ledger[i].call] <= of[ledger[j].call]
             Short == \A i \in DOMAIN mockCalls : Honest(mockCalls[i]) /\ OfThisTurn(mockCalls[i].call)
             Latest == last \in Entry => Honest(last) /\ OfThisTurn(last.call)
  <1> HIDE DEF Long, Short, Latest
  <1>6. ASSUME UNCHANGED ledger PROVE Long'
    BY <1>1, <1>3, <1>4, <1>5, <1>6 DEF LedgerOrder, Honest, OfAnEarlierTurn, Long
  <1>7. ASSUME UNCHANGED <<mockCalls, turn>> PROVE Short'
    BY <1>1, <1>3, <1>4, <1>7 DEF LedgerOrder, Honest, OfThisTurn, Short
  <1>8. ASSUME UNCHANGED <<last, turn>> PROVE Latest'
    BY <1>1, <1>3, <1>8 DEF LedgerOrder, Honest, OfThisTurn, Latest
  <1>9. ASSUME NEW e \in Entry, Records(e), Honest(e), OfThisTurn(e.call)', turn' = turn
        PROVE  Short'
    <2> SUFFICES ASSUME NEW i \in DOMAIN mockCalls'
                 PROVE  /\ Honest(mockCalls'[i])
                        /\ at'[mockCalls'[i].call] # "free" /\ of'[mockCalls'[i].call] = turn'
      BY DEF Honest, OfThisTurn, Short
    <2>1. CASE i \in DOMAIN mockCalls
      <3>1. mockCalls'[i] = mockCalls[i] /\ mockCalls[i] \in Entry
        BY <1>4, <1>9, <2>1, RecordsOne
      <3>2. Honest(mockCalls[i]) /\ OfThisTurn(mockCalls[i].call)
        BY <2>1 DEF LedgerOrder
      <3> QED BY <1>1, <1>3, <1>9, <3>1, <3>2 DEF OfThisTurn
    <2>2. CASE i \notin DOMAIN mockCalls
      <3>1. i = Len(mockCalls) + 1 /\ mockCalls'[i] = e
        BY <1>9, <2>2 DEF Records
      <3> QED BY <1>9, <3>1 DEF OfThisTurn
    <2> QED BY <2>1, <2>2
  <1>10. ASSUME Long', Short', Latest' PROVE LedgerOrder'
    BY <1>10 DEF LedgerOrder, Long, Short, Latest, Honest
  <1>11. ASSUME NEW c \in Call, AnswerDirectly(c)
         PROVE  LedgerOrder'
    <2>1. at'[c] # "free" /\ of'[c] = turn
      BY <1>11 DEF AnswerDirectly, Becomes
    <2>2. UNCHANGED <<ledger, last, turn>>
      BY <1>11 DEF AnswerDirectly, client, engine
    <2>3. OfThisTurn(c)'
      BY <2>1, <2>2 DEF OfThisTurn
    <2>4. CASE UNCHANGED mockCalls
      BY <1>6, <1>7, <1>8, <1>10, <2>2, <2>4
    <2>5. ASSUME NEW layer \in Layer \ {"error"}, Records(Answered(c, layer))
          PROVE  LedgerOrder'
      <3>1. /\ Answered(c, layer) \in Entry /\ Answered(c, layer).call = c
            /\ Honest(Answered(c, layer))
        BY EntryTypes DEF Answered, Honest
      <3> QED BY <1>6, <1>8, <1>9, <1>10, <2>2, <2>3, <2>5, <3>1
    <2>6. CASE Records(Failed(c))
      <3>1. Failed(c) \in Entry /\ Failed(c).call = c /\ Honest(Failed(c))
        BY EntryTypes DEF Failed, Honest
      <3> QED BY <1>6, <1>8, <1>9, <1>10, <2>2, <2>3, <2>6, <3>1
    <2> QED BY <1>11, <2>4, <2>5, <2>6 DEF AnswerDirectly, Layer
  <1>12. ASSUME NEW c \in Call, Ask(c) \/ Repair(c) \/ Break(c)
         PROVE  LedgerOrder'
    <2>1. UNCHANGED <<ledger, last, mockCalls, turn>>
      BY <1>12 DEF Ask, Repair, Break, client, engine
    <2> QED BY <1>6, <1>7, <1>8, <1>10, <2>1
  <1>13. ASSUME NEW c \in Call, NEW e \in Entry, Logs(e), e.call = c, Honest(e),
                at[c] = "asking"
         PROVE  LedgerOrder'
    <2>1. UNCHANGED <<ledger, mockCalls, turn>> /\ last' = e
      BY <1>13 DEF Logs, client
    <2>2. OfThisTurn(c)
      BY <1>13 DEF OfThisTurn, Served, InFlight, IsAt
    <2>3. Latest'
      BY <1>5, <1>13, <2>1, <2>2 DEF Latest, Honest, OfThisTurn
    <2> QED BY <1>6, <1>7, <1>10, <2>1, <2>3
  <1>14. ASSUME NEW c \in Call, Respond(c) \/ Refuse(c)
         PROVE  LedgerOrder'
    <2>1. /\ Answered(c, "llm") \in Entry /\ Answered(c, "llm").call = c /\ Honest(Answered(c, "llm"))
          /\ Refused(c) \in Entry /\ Refused(c).call = c /\ Honest(Refused(c))
      BY EntryTypes DEF Answered, Refused, Honest, Layer
    <2> QED BY <1>13, <1>14, <2>1 DEF Respond, Refuse
  <1>15. ASSUME NEW c \in Call, Return(c) \/ Raise(c)
         PROVE  LedgerOrder'
    <2>1. UNCHANGED <<ledger, last, turn>> /\ Records(Back(c))
      BY <1>15 DEF Return, Raise, client, engine
    <2>2. OfThisTurn(c)
      <3>1. c \in InFlight
        BY <1>15 DEF Return, Raise, InFlight, IsAt, Returning
      <3>2. of[c] = turn /\ at[c] # "free"
        BY <3>1 DEF Served, InFlight, IsAt, Returning
      <3> QED BY <3>2 DEF OfThisTurn
    <2>3. Back(c) \in Entry /\ Honest(Back(c)) /\ OfThisTurn(Back(c).call)
      <3>1. Failed(c) \in Entry /\ Failed(c).call = c /\ Honest(Failed(c))
        BY EntryTypes DEF Failed, Honest
      <3> QED BY <2>2, <3>1, BackType DEF Back, LedgerOrder
    <2>4. PICK e \in Entry : e = Back(c)
      BY <2>3
    <2>5. OfThisTurn(e.call)' /\ Honest(e) /\ Records(e)
      BY <1>5, <2>1, <2>3, <2>4
    <2> QED BY <1>6, <1>8, <1>9, <1>10, <2>1, <2>5
  <1>16. CASE AgentAnswers \/ AgentRaises
    <2>1. last' = NoEntry /\ mockCalls' = <<>>
      BY <1>16 DEF AgentAnswers, AgentRaises, Leave
    <2>2. Short' /\ Latest'
      BY <2>1, NoEntryIsNone DEF Short, Latest
    <2>3. CASE Ignored
      BY <1>6, <1>10, <2>2, <2>3 DEF Ignored, client
    <2>4. CASE Receives
      <3>1. ledger' = ledger \o mockCalls /\ turn' = turn + 1
        BY <2>4 DEF Receives
      <3>2. \A i \in DOMAIN ledger' :
              \/ i \in DOMAIN ledger /\ ledger'[i] = ledger[i]
              \/ /\ i - Len(ledger) \in DOMAIN mockCalls /\ i > Len(ledger)
                 /\ ledger'[i] = mockCalls[i - Len(ledger)]
        BY <3>1
      <3>3. \A e \in Entry : /\ OfAnEarlierTurn(e.call) \/ OfThisTurn(e.call) => OfAnEarlierTurn(e.call)'
                             /\ OfAnEarlierTurn(e.call) \/ OfThisTurn(e.call) => of'[e.call] = of[e.call]
        BY <1>1, <1>3, <1>5, <3>1 DEF OfThisTurn, OfAnEarlierTurn
      <3>4. \A i \in DOMAIN ledger' : OfAnEarlierTurn(ledger'[i].call) \/ OfThisTurn(ledger'[i].call)
        BY <3>2 DEF LedgerOrder
      <3>5. \A i \in DOMAIN ledger' : ledger'[i] \in Entry
        BY <1>2
      <3>6. \A i \in DOMAIN ledger' : /\ Honest(ledger'[i])
                                      /\ at'[ledger'[i].call] # "free" /\ of'[ledger'[i].call] < turn'
        BY <3>2, <3>3, <3>4, <3>5 DEF LedgerOrder, OfAnEarlierTurn
      <3>7. \A i, j \in DOMAIN ledger' : i < j => of[ledger'[i].call] <= of[ledger'[j].call]
        <4> SUFFICES ASSUME NEW i \in DOMAIN ledger', NEW j \in DOMAIN ledger', i < j
                     PROVE  of[ledger'[i].call] <= of[ledger'[j].call]
          OBVIOUS
        <4>1. ledger'[i].call \in Call /\ ledger'[j].call \in Call
          BY <1>3, <3>5
        <4>2. CASE i \in DOMAIN ledger /\ j \in DOMAIN ledger
          BY <3>1, <4>2 DEF LedgerOrder
        <4>3. CASE i \notin DOMAIN ledger /\ j \notin DOMAIN ledger
          BY <3>2, <4>1, <4>3 DEF LedgerOrder, OfThisTurn
        <4>4. CASE i \in DOMAIN ledger /\ j \notin DOMAIN ledger
          BY <3>2, <4>1, <4>4 DEF LedgerOrder, OfThisTurn, OfAnEarlierTurn
        <4>5. CASE i \notin DOMAIN ledger /\ j \in DOMAIN ledger
          BY <3>1, <4>5
        <4> QED BY <4>2, <4>3, <4>4, <4>5
      <3>8. Long'
        <4>1. \A i \in DOMAIN ledger' : of'[ledger'[i].call] = of[ledger'[i].call]
          BY <3>3, <3>4, <3>5
        <4> QED BY <3>6, <3>7, <4>1 DEF Long, Honest, OfAnEarlierTurn
      <3> QED BY <1>10, <2>2, <3>8
    <2> QED BY <1>16, <2>3, <2>4 DEF AgentAnswers, AgentRaises
  <1>17. CASE Send
    <2>1. UNCHANGED <<ledger, turn>> /\ last' = NoEntry /\ mockCalls' = <<>>
      BY <1>17 DEF Send
    <2>2. Short' /\ Latest'
      BY <2>1, NoEntryIsNone DEF Short, Latest
    <2> QED BY <1>6, <1>10, <2>1, <2>2
  <1>18. CASE BuildFails \/ GivesUp
    BY <1>6, <1>7, <1>8, <1>10, <1>18 DEF BuildFails, GivesUp, engine
  <1>19. CASE UNCHANGED vars
    BY <1>6, <1>7, <1>8, <1>10, <1>19 DEF vars, client, engine
  <1> QED BY <1>11, <1>12, <1>14, <1>15, <1>16, <1>17, <1>18, <1>19 DEF Next, Serve

\* The history a turn begins with is in the order of the turns, and lacks no answer.
LEMMA SentHistory ==
  ASSUME Types, OwnInv, LedgerOrder
  PROVE  /\ HistoryOf(ledger) \in Seq(Call)
         /\ \A n \in DOMAIN HistoryOf(ledger) :
              at[HistoryOf(ledger)[n]] # "free" /\ of[HistoryOf(ledger)[n]] <= turn
         /\ \A n, m \in DOMAIN HistoryOf(ledger) :
              n < m => of[HistoryOf(ledger)[n]] <= of[HistoryOf(ledger)[m]]
         /\ \A d \in IsAt({"given"}) \ crossed : of[d] < turn => d \in Range(HistoryOf(ledger))
  <1> DEFINE h == HistoryOf(ledger)
  <1>1. /\ h \in Seq(Call)
        /\ \A i \in Kept(ledger) : ledger[i].call \in Range(h)
        /\ \A n \in DOMAIN h : \E i \in Kept(ledger) : h[n] = ledger[i].call
        /\ \A n, m \in DOMAIN h : n < m =>
             \E i, k \in Kept(ledger) : i < k /\ h[n] = ledger[i].call /\ h[m] = ledger[k].call
    BY HistoryOfTheLedger DEF Types
  <1>2. \A i \in Kept(ledger) : i \in DOMAIN ledger
    BY DEF Kept
  <1> HIDE DEF h
  <1>3. \A i \in Kept(ledger) : /\ ledger[i].call \in Call /\ at[ledger[i].call] # "free"
                                /\ of[ledger[i].call] <= turn
    <2>1. \A e \in Entry : e.call \in Call
      BY DEF Entry
    <2>2. \A i \in DOMAIN ledger : ledger[i] \in Entry
      BY DEF Types
    <2> QED BY <1>2, <2>1, <2>2 DEF LedgerOrder, OfAnEarlierTurn, Types
  <1>4. \A n \in DOMAIN h : at[h[n]] # "free" /\ of[h[n]] <= turn
    BY <1>1, <1>3
  <1>5. \A n, m \in DOMAIN h : n < m => of[h[n]] <= of[h[m]]
    BY <1>1, <1>2 DEF LedgerOrder
  <1>6. ASSUME NEW d \in IsAt({"given"}) \ crossed, of[d] < turn
        PROVE  d \in Range(h)
    <2>1. d \in Accounted \ crossed
      BY <1>6 DEF Accounted, IsAt, Done
    <2>2. PICK i \in DOMAIN ledger : ledger[i].call = d /\ ledger[i].error = (at[d] # "given")
      BY <2>1 DEF OwnInv, OwnEntry
    <2>3. at[d] = "given"
      BY <1>6 DEF IsAt
    <2>4. ~ledger[i].error
      BY <2>2, <2>3
    <2>5. i \in Kept(ledger)
      BY <2>2, <2>4 DEF LedgerOrder, Honest, Kept
    <2> QED BY <1>1, <2>2, <2>5
  <1> QED BY <1>1, <1>4, <1>5, <1>6 DEF h

LEMMA HistoryStep ==
  ASSUME Types, Served, OwnInv, LedgerOrder, HistoryOrder, HistoryIsWhole, [Next]_vars
  PROVE  HistoryOrder' /\ HistoryIsWhole'
  <1>1. /\ turn \in Nat /\ turn' \in Nat /\ turn <= turn' /\ crossed \subseteq crossed'
        /\ \A c \in Call : at[c] # "free" => at'[c] # "free" /\ of'[c] = of[c]
        /\ \A c \in Call : at'[c] = "given" /\ of'[c] < turn => at[c] = "given" /\ of'[c] = of[c]
    BY CallsStayInTheirTurn DEF Types
  <1>2. \A i \in DOMAIN history : history[i] \in Call
    BY DEF HistoryOrder
  <1>3. \A c \in Call : of[c] \in Nat
    BY DEF Types
  <1>4. ASSUME UNCHANGED history PROVE HistoryOrder'
    BY <1>1, <1>2, <1>3, <1>4 DEF HistoryOrder
  <1>5. ASSUME history' = <<>> PROVE HistoryOrder'
    BY <1>5 DEF HistoryOrder
  <1>6. ASSUME UNCHANGED <<setup, turn, serving>>, Range(history) \subseteq Range(history')
        PROVE  HistoryIsWhole'
    BY <1>1, <1>6 DEF HistoryIsWhole, IsAt
  <1>7. ASSUME serving' = FALSE PROVE HistoryIsWhole'
    BY <1>7 DEF HistoryIsWhole
  <1>8. ASSUME NEW c \in Call, AnswerDirectly(c) \/ Ask(c) \/ Repair(c) \/ Refuse(c) \/ Break(c)
                                 \/ Return(c) \/ Raise(c)
        PROVE  HistoryOrder' /\ HistoryIsWhole'
    <2>1. UNCHANGED <<setup, turn, serving, history>>
      BY <1>8 DEF AnswerDirectly, Ask, Repair, Refuse, Break, Return, Raise, Logs, client, engine
    <2> QED BY <1>4, <1>6, <2>1
  <1>9. ASSUME NEW c \in Call, Respond(c)
        PROVE  HistoryOrder' /\ HistoryIsWhole'
    <2>1. UNCHANGED <<setup, turn, serving>> /\ history' = Append(history, c)
      BY <1>9 DEF Respond, Logs, client
    <2>2. at[c] # "free" /\ of[c] = turn
      BY <1>9 DEF Respond, Served, InFlight, IsAt
    <2>3. /\ history' \in Seq(Call)
          /\ \A i \in DOMAIN history' : \/ i \in DOMAIN history /\ history'[i] = history[i]
                                        \/ i = Len(history) + 1 /\ history'[i] = c
          /\ \A i \in DOMAIN history : i \in DOMAIN history' /\ history'[i] = history[i]
      BY <2>1 DEF HistoryOrder
    <2>4. \A i \in DOMAIN history' : at'[history'[i]] # "free" /\ of'[history'[i]] <= turn'
      BY <1>1, <1>2, <2>1, <2>2, <2>3 DEF HistoryOrder
    <2>5. \A i, j \in DOMAIN history' : i < j => of'[history'[i]] <= of'[history'[j]]
      <3> SUFFICES ASSUME NEW i \in DOMAIN history', NEW j \in DOMAIN history', i < j
                   PROVE  of'[history'[i]] <= of'[history'[j]]
        OBVIOUS
      <3>1. i \in DOMAIN history /\ history'[i] = history[i]
        BY <2>1, <2>3 DEF HistoryOrder
      <3>2. of'[history'[i]] = of[history[i]] /\ of[history[i]] <= turn
        BY <1>1, <1>2, <3>1 DEF HistoryOrder
      <3>3. CASE j \in DOMAIN history
        BY <1>1, <1>2, <2>3, <3>1, <3>2, <3>3 DEF HistoryOrder
      <3>4. CASE j \notin DOMAIN history
        BY <1>1, <2>2, <2>3, <3>2, <3>4
      <3> QED BY <3>3, <3>4
    <2>6. Range(history) \subseteq Range(history')
      BY <2>3 DEF Range
    <2> QED BY <1>6, <2>1, <2>3, <2>4, <2>5, <2>6 DEF HistoryOrder
  <1>10. CASE AgentAnswers \/ AgentRaises
    <2>1. history' = <<>> /\ serving' = FALSE
      BY <1>10 DEF AgentAnswers, AgentRaises, TurnEnds, Leave
    <2> QED BY <1>5, <1>7, <2>1
  <1>11. CASE Send
    <2>1. UNCHANGED <<setup, turn, at, of, crossed>>
      BY <1>11 DEF Send, calls
    <2>2. CASE setup.onMiss = "llm"
      <3>1. history' = HistoryOf(ledger)
        BY <1>11, <2>2 DEF Send
      <3> QED BY <2>1, <3>1, SentHistory DEF HistoryOrder, HistoryIsWhole, IsAt
    <2>3. CASE setup.onMiss # "llm"
      <3>1. history' = <<>>
        BY <1>11, <2>3 DEF Send
      <3> QED BY <1>5, <2>1, <2>3, <3>1 DEF HistoryIsWhole
    <2> QED BY <2>2, <2>3
  <1>12. CASE BuildFails \/ GivesUp \/ UNCHANGED vars
    <2>1. UNCHANGED <<setup, turn, serving, history>>
      BY <1>12 DEF BuildFails, GivesUp, vars, client, engine
    <2> QED BY <1>4, <1>6, <2>1
  <1> QED BY <1>8, <1>9, <1>10, <1>11, <1>12 DEF Next, Serve

\* A prompt shows the end of the history: what it leaves out is not newer than what it shows.
LEMMA ShownIsTheEnd ==
  ASSUME Types, HistoryOrder
  PROVE  /\ Shown \in Seq(Call)
         /\ Range(Shown) \subseteq Range(history)
         /\ \A d \in Range(history) \ Range(Shown) :
              Len(Shown) = HistoryLimit /\ \A e \in Range(Shown) : of[e] >= of[d]
  <1>1. HistoryLimit \in Nat \ {0} /\ Len(history) \in Nat /\ history \in Seq(Call)
    BY BoundsAssumption DEF HistoryOrder
  <1>2. CASE Len(history) <= HistoryLimit
    BY <1>1, <1>2 DEF Shown
  <1>3. CASE Len(history) > HistoryLimit
    <2> DEFINE k == Len(history) - HistoryLimit
    <2>1. k \in Nat /\ k + 1 \in 1..Len(history) + 1
      BY <1>1, <1>3
    <2>2. Shown = SubSeq(history, k + 1, Len(history))
      BY <1>1, <1>3 DEF Shown
    <2>3. /\ Shown \in Seq(Call) /\ Len(Shown) = HistoryLimit
          /\ \A i \in 1..HistoryLimit : Shown[i] = history[i + k] /\ i + k \in DOMAIN history
      BY <1>1, <1>3, <2>1, <2>2
    <2>4. \A e \in Range(Shown) : \E i \in DOMAIN history : i > k /\ e = history[i]
      BY <1>1, <2>1, <2>3 DEF Range
    <2>5. \A i \in DOMAIN history : i > k => history[i] \in Range(Shown)
      <3> SUFFICES ASSUME NEW i \in DOMAIN history, i > k
                   PROVE  history[i] \in Range(Shown)
        OBVIOUS
      <3>1. i - k \in 1..HistoryLimit
        BY <1>1
      <3>2. Shown[i - k] = history[i] /\ i - k \in DOMAIN Shown
        BY <1>1, <2>3, <3>1
      <3> QED BY <3>2 DEF Range
    <2> HIDE DEF k
    <2>6. ASSUME NEW d \in Range(history) \ Range(Shown), NEW e \in Range(Shown)
          PROVE  of[e] >= of[d]
      <3>1. PICK i \in DOMAIN history : d = history[i]
        BY <2>6 DEF Range
      <3>2. PICK j \in DOMAIN history : j > k /\ e = history[j]
        BY <2>4, <2>6
      <3>3. ~(i > k)
        BY <2>5, <2>6, <3>1
      <3>4. i < j
        BY <1>1, <2>1, <3>1, <3>2, <3>3
      <3>5. of[d] \in Nat /\ of[e] \in Nat
        BY <1>1, <3>1, <3>2 DEF Types
      <3> QED BY <3>1, <3>2, <3>4, <3>5 DEF HistoryOrder
    <2>7. Range(Shown) \subseteq Range(history)
      BY <2>4 DEF Range
    <2> QED BY <2>3, <2>6, <2>7
  <1> QED BY <1>1, <1>2, <1>3

LEMMA PromptsStep ==
  ASSUME Types, Served, HistoryOrder, HistoryIsWhole, Prompts, [Next]_vars
  PROVE  Prompts'
  <1>1. /\ turn \in Nat /\ crossed \subseteq crossed' /\ shown \in [Call -> Seq(Call)]
        /\ at \in [Call -> At] /\ of \in [Call -> Nat]
        /\ \A c \in Call : at[c] # "free" => at'[c] # "free" /\ of'[c] = of[c]
        /\ \A c \in Call : at'[c] = "given" /\ of'[c] < turn => at[c] = "given" /\ of'[c] = of[c]
    BY CallsStayInTheirTurn DEF Types, Prompts
  <1>2. <<>> \in Seq(Call) /\ Range(<<>>) = {}
    BY DEF Range
  <1>3. \A c \in Call : Range(shown[c]) \subseteq Call
    BY <1>1 DEF Range
  \* A step leaves every prompt as it is, drops it, or makes the prompt of one call.
  <1>4. ASSUME shown' \in [Call -> Seq(Call)],
               \A c \in Call : \/ shown'[c] = shown[c] /\ (at'[c] = "asking" => at[c] = "asking")
                               \/ shown'[c] = <<>> /\ at'[c] # "asking"
                               \/ /\ shown'[c] = Shown /\ serving /\ setup.onMiss = "llm"
                                  /\ of'[c] = turn
        PROVE  Prompts'
    <2>1. \A e \in Range(Shown) : e \in Call /\ at[e] # "free"
      BY ShownIsTheEnd DEF HistoryOrder, Range
    <2>2. ASSUME NEW c \in Call, NEW e \in Range(shown'[c])
          PROVE  e \in Call /\ at[e] # "free"
      BY <1>2, <1>3, <1>4, <2>1, <2>2 DEF Prompts
    <2>3. ASSUME NEW c \in IsAt({"asking"})', NEW d \in IsAt({"given"})' \ crossed',
                 of'[d] < of'[c], d \notin Range(shown'[c])
          PROVE  Len(shown'[c]) = HistoryLimit /\ \A e \in Range(shown'[c]) : of'[e] >= of'[d]
      <3>1. c \in Call /\ d \in Call /\ at'[c] = "asking" /\ at'[d] = "given"
        BY <2>3 DEF IsAt
      <3>2. CASE shown'[c] = shown[c] /\ at[c] = "asking"
        <4>1. of'[c] = of[c] /\ of[c] = turn
          BY <1>1, <3>1, <3>2 DEF Served, InFlight, IsAt
        <4>2. d \in IsAt({"given"}) \ crossed /\ of'[d] = of[d] /\ c \in IsAt({"asking"})
          BY <1>1, <2>3, <3>1, <3>2, <4>1 DEF IsAt
        <4>3. Len(shown[c]) = HistoryLimit /\ \A e \in Range(shown[c]) : of[e] >= of[d]
          BY <2>3, <3>2, <4>1, <4>2 DEF Prompts, EarlierAnswersShown, Leaves
        <4> QED BY <1>1, <2>2, <3>1, <3>2, <4>2, <4>3
      <3>3. CASE shown'[c] = Shown /\ serving /\ setup.onMiss = "llm" /\ of'[c] = turn
        <4>1. d \in IsAt({"given"}) \ crossed /\ of'[d] = of[d]
          BY <1>1, <2>3, <3>1, <3>3 DEF IsAt
        <4>2. d \in Range(history) \ Range(Shown)
          BY <2>3, <3>3, <4>1 DEF HistoryIsWhole
        <4>3. Len(Shown) = HistoryLimit /\ \A e \in Range(Shown) : of[e] >= of[d]
          BY <4>2, ShownIsTheEnd
        <4> QED BY <1>1, <2>1, <3>3, <4>1, <4>3
      <3> QED BY <1>4, <3>1, <3>2, <3>3
    <2>4. EarlierAnswersShown'
      BY <2>3 DEF EarlierAnswersShown, Leaves
    <2> QED BY <1>1, <1>4, <2>2, <2>4 DEF Prompts
  <1>5. ASSUME NEW c \in Call, AnswerDirectly(c) \/ Respond(c) \/ Refuse(c) \/ Break(c)
                                 \/ Return(c) \/ Raise(c)
        PROVE  Prompts'
    <2>1. PICK where \in At \ {"asking"} : Becomes(c, where)
      BY <1>5 DEF AnswerDirectly, Respond, Refuse, Break, Return, Raise, At, Done, Returning
    <2>2. shown' = [shown EXCEPT ![c] = <<>>] /\ at' = [at EXCEPT ![c] = where]
      BY <2>1 DEF Becomes
    <2> QED BY <1>1, <1>2, <1>4, <2>1, <2>2
  <1>6. ASSUME NEW c \in Call, Ask(c)
        PROVE  Prompts'
    <2>1. /\ shown' = [shown EXCEPT ![c] = Shown] /\ at' = [at EXCEPT ![c] = "asking"]
          /\ of' = [of EXCEPT ![c] = turn] /\ serving /\ setup.onMiss = "llm"
      BY <1>6 DEF Ask, Begins
    <2>2. Shown \in Seq(Call)
      BY ShownIsTheEnd
    <2> QED BY <1>1, <1>4, <2>1, <2>2
  <1>7. ASSUME NEW c \in Call, Repair(c)
        PROVE  Prompts'
    <2>1. shown' = [shown EXCEPT ![c] = Shown] /\ UNCHANGED <<at, of>> /\ at[c] = "asking"
      BY <1>7 DEF Repair
    <2>2. serving /\ setup.onMiss = "llm" /\ of[c] = turn
      BY <2>1 DEF Served, InFlight, IsAt
    <2>3. Shown \in Seq(Call)
      BY ShownIsTheEnd
    <2> QED BY <1>1, <1>4, <2>1, <2>2, <2>3
  <1>8. CASE AgentAnswers \/ AgentRaises \/ Send \/ BuildFails \/ GivesUp \/ UNCHANGED vars
    <2>1. UNCHANGED <<at, shown>>
      BY <1>8 DEF AgentAnswers, AgentRaises, Leave, Send, BuildFails, GivesUp, vars, calls, prompt
    <2> QED BY <1>1, <1>4, <2>1
  <1> QED BY <1>5, <1>6, <1>7, <1>8 DEF Next, Serve

----
(* The invariant, and what it gives *)

LEMMA ConversationInvariant == Spec => []ConversationInv
  <1>1. Init => ConversationInv
    BY TypesInit, ServedInit, OwnInit, CountInit DEF ConversationInv
  <1>2. ConversationInv /\ [Next]_vars => ConversationInv'
    BY TypesStep, ServedStep, OwnStep, CountStep DEF ConversationInv
  <1> QED BY <1>1, <1>2, PTL DEF Spec

LEMMA MemoryInvariant == Spec => []MemoryInv
  <1>1. Init => MemoryInv
    BY MemoryInit
  <1>2. ConversationInv /\ MemoryInv /\ [Next]_vars => MemoryInv'
    BY LedgerStep, HistoryStep, PromptsStep DEF ConversationInv, MemoryInv
  <1> QED BY <1>1, <1>2, ConversationInvariant, PTL DEF Spec

\* Whatever overlaps, raises or is handled by the agent, a call that was not crossed and that
\* the conversation accounts for has an entry of its own in the ledger, which says whether
\* the agent was given an answer (_respond in mocking.py).
THEOREM OwnEntries == Spec => []OwnEntry
  <1>1. ConversationInv => OwnEntry
    BY DEF ConversationInv, OwnInv
  <1> QED BY <1>1, ConversationInvariant, PTL

\* The ledger of a conversation has exactly one entry for each call it accounts for, so that
\* its totals count every mocked call (run_conversation in inference.py).
THEOREM CallsAreCounted == Spec => []EveryCallIsCounted
  <1>1. ConversationInv => EveryCallIsCounted
    BY DEF ConversationInv, CountInv
  <1> QED BY <1>1, ConversationInvariant, PTL

\* What the agent was told in an earlier turn, by a rule, a fallback, a real tool or the mock
\* engine, is in the prompt of the engine of a later turn, or the prompt is full of answers that
\* are not older (_history_of in inference.py, HISTORY_LIMIT in mock_engine.py).
THEOREM EarlierAnswersAreShown == Spec => []EarlierAnswersShown
  <1>1. MemoryInv => EarlierAnswersShown
    BY DEF MemoryInv, Prompts
  <1> QED BY <1>1, MemoryInvariant, PTL
====
