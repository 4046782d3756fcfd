---------------------------- MODULE Stream_proofs ----------------------------
(***************************************************************************)
(* Theorems of Stream: its types, what a client may be told, and that what *)
(* it gets is what was sent, whole and in order.                           *)
(***************************************************************************)
EXTENDS Stream, TLAPS

\* The events that may be on their way: an end with success only from an upstream
\* that has completed its answer.
Deliverable == {ev \in AnEvent : ev.type = "response.completed" => sent.ended = "completed"}

\* What a client is told is what the upstream did, also when it is on its way.
Honest ==
  /\ pending \in Seq(Deliverable)
  /\ pc = "encoding" => event \in Deliverable
  /\ NeverFabricated

IInv == TypeOK /\ Honest /\ EndIsTold

(***************************************************************************)
(* What the readers make of one thing the upstream sends.                  *)
(***************************************************************************)

\* The events w may be turned into.
Yield(w) == {ev \in AnEvent : ev.type = "response.completed" => Completes(w)}

LEMMA ConcatType ==
  ASSUME NEW S, NEW s \in Seq(S), NEW t \in Seq(S)
  PROVE  s \o t \in Seq(S)
  OBVIOUS

LEMMA WhenType ==
  ASSUME NEW S, NEW s \in Seq(S), NEW condition \in BOOLEAN
  PROVE  When(condition, s) \in Seq(S)
  BY DEF When

LEMMA OneType ==
  ASSUME NEW S, NEW e \in S
  PROVE  <<e>> \in Seq(S)
  OBVIOUS

ToolKinds == {"toolBegin", "toolArgs", "toolArgsDone", "toolDone"}

\* Whatever names a tool call, or a part of one, says which.
LEMMA WireType ==
  ASSUME NEW p \in Protocols, NEW w \in Wire(p)
  PROVE  /\ w.tool \in Tools \cup {NoTool}
         /\ BeginsTool(w) \/ Argues(w) \/ w.kind \in ToolKinds => w.tool \in Tools
         /\ p # "chat" => w.parts = {}
  <1>1. CASE p = "chat"
    <2>1. w \in Chunk  BY <1>1 DEF Wire
    <2>2. CASE w.tool \in Tools
      BY <1>1, <2>2
    <2>3. CASE w.tool \notin Tools
      <3>1. w.kind = "chunk" /\ w.tool = NoTool /\ w.parts \in SUBSET {"role", "text", "finish"}
        BY <2>1, <2>3 DEF Chunk
      <3> QED  BY <1>1, <3>1 DEF BeginsTool, Argues, ToolKinds
    <2> QED  BY <2>2, <2>3
  <1>2. CASE p # "chat"
    <2> DEFINE S == {"begin", "inProgress", "text", "textDone", "complete", "error", "other"}
    <2>1. w \in Simple(S) \cup OfTool(ToolKinds)
      <3>1. CASE p = "messages"
        <4>1. w \in Simple({"begin", "text", "complete", "error", "other"})
                    \cup OfTool({"toolBegin", "toolArgs", "toolDone"})
          BY <3>1 DEF Wire
        <4> QED  BY <4>1 DEF Simple, OfTool, ToolKinds
      <3>2. CASE p = "responses"
        BY <3>2 DEF Wire, Simple, OfTool, ToolKinds
      <3> QED  BY <1>2, <3>1, <3>2 DEF Protocols
    <2>2. CASE w \in Simple(S)
      BY <1>2, <2>2 DEF Simple, BeginsTool, Argues, ToolKinds
    <2>3. CASE w \in OfTool(ToolKinds)
      BY <1>2, <2>3 DEF OfTool
    <2> QED  BY <2>1, <2>2, <2>3
  <1> QED  BY <1>1, <1>2

LEMMA EventType ==
  ASSUME NEW type \in PlainTypes
  PROVE  Event(type) \in AnEvent
  BY DEF Event, AnEvent

LEMMA ToolEventType ==
  ASSUME NEW type \in ToolTypes, NEW t \in Tools
  PROVE  ToolEvent(type, t) \in AnEvent
  BY DEF ToolEvent, AnEvent

LEMMA PieceType ==
  ASSUME TypeOK, NEW t \in Tools
  PROVE  Piece(t) \in AnEvent /\ Piece(t).type = "tool_call.arguments.delta"
  BY DEF Piece, AnEvent, TypeOK, ToolTypes

LEMMA CallOrderType ==
  ASSUME TypeOK, NEW w \in Wire(upstream)
  PROVE  CallOrder(w) \in Seq(Tools)
  <1>1. Introduced(w) => w.tool \in Tools
    BY WireType DEF TypeOK, Introduced, BeginsTool
  <1>2. reader.order \in Seq(Tools)
    BY DEF TypeOK
  <1>3. When(Introduced(w), <<w.tool>>) \in Seq(Tools)
    BY <1>1 DEF When
  <1> QED  BY <1>2, <1>3, ConcatType DEF CallOrder

\* A chat chunk ends the answer only when it carries a finish reason.
LEMMA ChunkYields ==
  ASSUME TypeOK, upstream = "chat", NEW w \in Wire(upstream)
  PROVE  ChunkEvents(w) \in Seq(Yield(w))
  <1> DEFINE S == Yield(w)
  <1>1. Started \in S /\ Event("text.delta") \in S
    BY EventType DEF Yield, Started, Event, PlainTypes
  <1>2. "finish" \in w.parts => Completed \in S
    BY EventType DEF Yield, Completed, Event, PlainTypes, Completes
  <1>3. Introduced(w) => ToolEvent("tool_call.started", w.tool) \in S
    BY WireType, ToolEventType DEF TypeOK, Introduced, BeginsTool, Yield, ToolEvent, ToolTypes
  <1>4. "args" \in w.parts => Piece(w.tool) \in S
    BY WireType, PieceType DEF TypeOK, Argues, Yield
  <1>5. ToolCallEvents(w) \in Seq(S)
    <2>1. When(Introduced(w), <<ToolEvent("tool_call.started", w.tool)>>) \in Seq(S)
      BY <1>3, OneType DEF When
    <2>2. When("args" \in w.parts /\ (Introduced(w) \/ w.tool \in reader.known), <<Piece(w.tool)>>)
            \in Seq(S)
      BY <1>4, OneType DEF When
    <2> QED  BY <2>1, <2>2, ConcatType DEF ToolCallEvents
  <1>6. FinishEvents(w) \in Seq(S)
    <2> DEFINE calls == CallOrder(w)
               closed == [i \in DOMAIN calls |-> ToolEvent("tool_call.completed", calls[i])]
    <2>1. calls \in Seq(Tools)
      BY CallOrderType
    <2>2. \A t \in Tools : ToolEvent("tool_call.completed", t) \in S
      BY ToolEventType DEF Yield, ToolEvent, ToolTypes
    <2>3. closed \in Seq(S)
      <3> HIDE DEF S, calls
      <3> QED  BY <2>1, <2>2
    <2>4. "finish" \in w.parts => closed \o <<Completed>> \in Seq(S)
      BY <1>2, <2>3, ConcatType, OneType
    <2> QED  BY <2>4 DEF FinishEvents, When
  <1>7. When(Starts(w), <<Started>>) \in Seq(S) /\ When("text" \in w.parts, <<Event("text.delta")>>) \in Seq(S)
    BY <1>1, OneType DEF When
  <1> HIDE DEF S
  <1> QED  BY <1>5, <1>6, <1>7, ConcatType DEF ChunkEvents, S

LEMMA Yields ==
  ASSUME TypeOK, NEW w \in Wire(upstream)
  PROVE  Events(w) \in Seq(Yield(w))
  <1> DEFINE S == Yield(w)
  <1>1. CASE upstream = "chat"
    BY <1>1, ChunkYields DEF Events
  <1>2. CASE upstream # "chat"
    <2>1. \A type \in PlainTypes \ {"response.completed"} : Event(type) \in S
      BY EventType DEF Yield, Event
    <2>2. w.kind = "complete" => Completed \in S
      BY EventType DEF Yield, Completed, Event, PlainTypes, Completes
    <2>3. \A type \in ToolTypes, t \in Tools : ToolEvent(type, t) \in S
      BY ToolEventType DEF Yield, ToolEvent, ToolTypes
    <2>4. w.kind \in ToolKinds => w.tool \in Tools
      BY WireType DEF TypeOK
    <2>5. w.kind = "toolArgs" => Piece(w.tool) \in S
      BY <2>4, PieceType DEF Yield, ToolKinds
    <2> DEFINE Begun == <<ToolEvent("tool_call.started", w.tool)>>
               Done == <<ToolEvent("tool_call.completed", w.tool)>>
    <2>6. w.kind = "toolBegin" => Begun \in Seq(S)
      BY <2>3, <2>4 DEF ToolTypes, ToolKinds
    <2>7. w.kind \in {"toolArgsDone", "toolDone"} => Done \in Seq(S)
      BY <2>3, <2>4 DEF ToolTypes, ToolKinds
    <2>8. /\ <<Started>> \in Seq(S) /\ <<Broken>> \in Seq(S) /\ <<Failed>> \in Seq(S)
          /\ <<Event("text.delta")>> \in Seq(S) /\ <<Event("text.completed")>> \in Seq(S)
      BY <2>1 DEF Started, Broken, Failed, PlainTypes
    <2>9. w.kind = "complete" => <<Completed>> \in Seq(S)
      BY <2>2
    <2>10. w.kind = "toolArgs" => <<Piece(w.tool)>> \in Seq(S)
      BY <2>5
    <2>11. <<>> \in Seq(S)
      OBVIOUS
    <2> HIDE DEF S, Begun, Done
    <2>12. CommonEvents(w) \in Seq(S)
      BY <2>6, <2>8, <2>9, <2>10, <2>11 DEF CommonEvents, Begun
    <2>13. MessagesEvents(w) \in Seq(S)
      BY <2>7, <2>11, <2>12 DEF MessagesEvents, Done, When
    <2>14. ResponsesEvents(w) \in Seq(S)
      BY <2>7, <2>8, <2>11, <2>12 DEF ResponsesEvents, Done, When
    <2> QED  BY <1>2, <2>13, <2>14 DEF Events, S, TypeOK, Protocols
  <1> QED  BY <1>1, <1>2

(***************************************************************************)
(* The invariant.                                                          *)
(***************************************************************************)

LEMMA InitHolds ==
  ASSUME Init
  PROVE  IInv
  <1>1. EOF \in AnEvent
    BY EventType DEF EOF, PlainTypes
  <1>2. TypeOK
    <2>1. sent \in [count : Nat, begun : BOOLEAN, text : Nat,
                    tool : [Tools -> {"none", "open", "argsDone", "finished", "late"}],
                    args : [Tools -> Nat], ended : {"no", "completed", "failed", "broken"}]
      BY DEF Init, NothingSent
    <2>2. client \in [begun : BOOLEAN, text : Nat, tool : [Tools -> {"none", "open", "closed"}],
                      args : [Tools -> Seq(Nat)], ended : {"no", "success", "error"}]
      <3>1. <<>> \in Seq(Nat)
        OBVIOUS
      <3> QED  BY <3>1 DEF Init
    <2>3. seq \in [started : BOOLEAN, completed : BOOLEAN, errored : BOOLEAN,
                   tool : [Tools -> {"none", "open", "completed"}]]
      BY DEF Init
    <2>4. reader \in [started : BOOLEAN, known : SUBSET Tools, order : Seq(Tools)]
      BY DEF Init
    <2>5. upstream \in Protocols /\ inbound \in Protocols /\ conforming \in BOOLEAN
      BY DEF Init
    <2>6. trace \in [failed : BOOLEAN, result : {"none", "success", "failed", "cancelled"}]
      BY DEF Init
    <2>7. /\ pending \in Seq(AnEvent) /\ gone \in BOOLEAN
          /\ pc = "reading" /\ event = EOF /\ event.type # "broken"
      <3>1. pending = <<>> /\ gone = FALSE /\ pc = "reading" /\ event = EOF
        BY DEF Init
      <3>2. <<>> \in Seq(AnEvent) /\ EOF.type # "broken"
        BY DEF EOF, Event
      <3> QED  BY <3>1, <3>2
    <2> QED  BY <1>1, <2>1, <2>2, <2>3, <2>4, <2>5, <2>6, <2>7 DEF TypeOK
  <1>3. Honest
    BY DEF Init, Honest, NeverFabricated
  <1>4. EndIsTold
    BY DEF Init, EndIsTold
  <1> QED  BY <1>2, <1>3, <1>4 DEF IInv

\* What the readers make of w may be delivered once w has been sent.
LEMMA ReceiveHolds ==
  ASSUME IInv, NEW w \in Wire(upstream), Receive(w)
  PROVE  IInv'
  <1> USE DEF IInv, Receive
  <1>1. sent' = SentAfter(w) /\ pending' = Events(w) /\ reader' = ReaderAfter(w)
    OBVIOUS
  <1>2. pending' \in Seq(Yield(w))
    BY <1>1, Yields
  <1>3. TypeOK'
    <2>1. \A t \in Tools : ToolAfter(w, t) \in {"none", "open", "argsDone", "finished", "late"}
      BY DEF ToolAfter, TypeOK
    <2>2. sent' \in [count : Nat, begun : BOOLEAN, text : Nat,
                     tool : [Tools -> {"none", "open", "argsDone", "finished", "late"}],
                     args : [Tools -> Nat], ended : {"no", "completed", "failed", "broken"}]
      BY <1>1, <2>1 DEF SentAfter, TypeOK, Begins
    <2>3. reader' \in [started : BOOLEAN, known : SUBSET Tools, order : Seq(Tools)]
      <3>1. BeginsTool(w) => w.tool \in Tools
        BY WireType DEF TypeOK
      <3> QED  BY <1>1, <3>1, CallOrderType DEF ReaderAfter, TypeOK, Starts
    <2>4. pending' \in Seq(AnEvent)
      BY <1>2 DEF Yield
    <2> QED  BY <2>2, <2>3, <2>4 DEF TypeOK, protocols
  <1>4. sent.ended = "completed" \/ Completes(w) => sent'.ended = "completed"
    BY <1>1 DEF SentAfter
  <1>5. Honest'
    <2>1. Yield(w) \subseteq Deliverable'
      BY <1>4 DEF Yield, Deliverable
    <2>2. pending' \in Seq(Deliverable')
      BY <1>2, <2>1
    <2>3. pc' = "reading" /\ NeverFabricated'
      BY <1>4 DEF Honest, NeverFabricated, Reading
    <2> QED  BY <2>2, <2>3 DEF Honest
  <1>6. EndIsTold'
    BY DEF EndIsTold, Reading
  <1> QED  BY <1>3, <1>5, <1>6

LEMMA StopReadingHolds ==
  ASSUME IInv, StopReading(EOF) \/ StopReading(Broken)
  PROVE  IInv'
  <1> USE DEF IInv, StopReading
  <1>1. EOF \in AnEvent /\ Broken \in AnEvent
    BY EventType DEF EOF, Broken, PlainTypes
  <1>2. pending' = <<EOF>> \/ pending' = <<Broken>>
    OBVIOUS
  <1>3. sent'.ended = (IF sent.ended = "no" THEN "broken" ELSE sent.ended)
    BY DEF TypeOK
  <1>4. TypeOK'
    <2>1. sent' \in [count : Nat, begun : BOOLEAN, text : Nat,
                     tool : [Tools -> {"none", "open", "argsDone", "finished", "late"}],
                     args : [Tools -> Nat], ended : {"no", "completed", "failed", "broken"}]
      BY DEF TypeOK
    <2>2. pending' \in Seq(AnEvent)
      BY <1>1, <1>2, OneType
    <2> QED  BY <2>1, <2>2 DEF TypeOK, protocols
  <1>5. Honest'
    <2>1. EOF \in Deliverable' /\ Broken \in Deliverable'
      BY <1>1 DEF Deliverable, EOF, Broken, Event
    <2>2. pc' = "reading" /\ NeverFabricated'
      BY <1>3 DEF Honest, NeverFabricated, Reading
    <2>3. PICK D : D = Deliverable'
      OBVIOUS
    <2>4. <<EOF>> \in Seq(D) /\ <<Broken>> \in Seq(D)
      BY <2>1, <2>3, OneType
    <2> QED  BY <1>2, <2>2, <2>3, <2>4 DEF Honest
  <1>6. EndIsTold'
    BY DEF EndIsTold, Reading
  <1> QED  BY <1>4, <1>5, <1>6

LEMMA DeliverHolds ==
  ASSUME IInv, Deliver
  PROVE  IInv'
  <1> USE DEF IInv
  <1> DEFINE ev == Head(pending)
  <1>1. /\ pending \in Seq(Deliverable) /\ pending # <<>>
        /\ pending' = Tail(pending) /\ event' = Returned(ev) /\ pc' = "encoding"
        /\ seq' = IF Accepted(ev) THEN Pushed(ev) ELSE seq
        /\ UNCHANGED <<upstream, conforming, inbound, sent, reader, client, gone, trace>>
    BY DEF Deliver, Honest, protocols
  <1>2. ev \in Deliverable /\ Tail(pending) \in Seq(Deliverable)
    BY <1>1
  <1>3. ev \in AnEvent /\ Failed \in AnEvent /\ Failed \in Deliverable
    BY <1>2, EventType DEF Deliverable, Failed, Event, PlainTypes
  <1>4. event' \in Deliverable /\ event'.type # "broken"
    BY <1>1, <1>2, <1>3 DEF Returned, Accepted, EOF, Failed, Event
  <1>5. Deliverable' = Deliverable
    BY <1>1 DEF Deliverable
  <1>6. TypeOK'
    <2>1. seq' \in [started : BOOLEAN, completed : BOOLEAN, errored : BOOLEAN,
                    tool : [Tools -> {"none", "open", "completed"}]]
      <3>1. CASE ~Accepted(ev)
        BY <1>1, <3>1 DEF TypeOK
      <3>2. CASE Accepted(ev)
        BY <1>1, <1>3, <3>2 DEF Pushed, TypeOK
      <3> QED  BY <3>1, <3>2
    <2>2. pending' \in Seq(AnEvent)
      BY <1>1, <1>2 DEF Deliverable
    <2> QED  BY <1>1, <1>4, <2>1, <2>2 DEF TypeOK, Deliverable
  <1>7. Honest'
    BY <1>1, <1>2, <1>4, <1>5 DEF Honest, NeverFabricated
  <1>8. EndIsTold'
    BY <1>1 DEF EndIsTold
  <1> QED  BY <1>6, <1>7, <1>8

\* The states of an encoder.
Clients ==
  [begun : BOOLEAN, text : Nat, tool : [Tools -> {"none", "open", "closed"}],
   args : [Tools -> Seq(Nat)], ended : {"no", "success", "error"}]

LEMMA ClientBegins ==
  ASSUME NEW c \in Clients
  PROVE  [c EXCEPT !.begun = TRUE] \in Clients
  BY DEF Clients

LEMMA ClientText ==
  ASSUME NEW c \in Clients
  PROVE  [c EXCEPT !.text = c.text + 1] \in Clients
  <1>1. PICK n \in Nat : n = c.text + 1
    BY DEF Clients
  <1>2. [c EXCEPT !.text = n] \in Clients
    BY DEF Clients
  <1> QED  BY <1>1, <1>2

LEMMA ClientTool ==
  ASSUME NEW c \in Clients, NEW t \in Tools, NEW s \in {"none", "open", "closed"}
  PROVE  [c EXCEPT !.tool[t] = s] \in Clients
  BY DEF Clients

LEMMA ClientArgs ==
  ASSUME NEW c \in Clients, NEW t \in Tools, NEW n \in Nat
  PROVE  [c EXCEPT !.args[t] = Append(c.args[t], n)] \in Clients
  <1>1. Append(c.args[t], n) \in Seq(Nat)
    BY DEF Clients
  <1> QED  BY <1>1 DEF Clients

LEMMA ClientEnds ==
  ASSUME NEW c \in Clients, NEW e \in {"no", "success", "error"}
  PROVE  [c EXCEPT !.ended = e] \in Clients
  BY DEF Clients

\* Encoding the last event is what tells a client how its answer ended.
LEMMA EncodeHolds ==
  ASSUME IInv, Encode
  PROVE  IInv'
  <1> USE DEF IInv
  <1>1. /\ client' = ClientAfter /\ pc' = IF Last(event) THEN "ended" ELSE "reading"
        /\ pc = "encoding"
        /\ UNCHANGED <<upstream, conforming, inbound, sent, reader, pending, seq, event, gone, trace>>
    BY DEF Encode, protocols
  <1>2. event \in AnEvent /\ event.type \in PlainTypes \cup ToolTypes
    BY DEF TypeOK, AnEvent
  <1>3. client' \in Clients
    <2>0. client \in Clients
      BY DEF TypeOK, Clients
    <2>1. CASE event.type \in ToolTypes
      <3>1. PICK t \in Tools, n \in Nat : event.tool = t /\ event.piece = n
        BY <1>2, <2>1 DEF AnEvent, PlainTypes, ToolTypes
      <3>2. CASE event.type = "tool_call.arguments.delta"
        <4>1. \/ client' = client
              \/ client' = [client EXCEPT !.args[t] = Append(client.args[t], n)]
          BY <1>1, <3>1, <3>2 DEF ClientAfter, AfterArguments
        <4> QED  BY <2>0, <4>1, ClientArgs
      <3>3. CASE event.type \in {"tool_call.started", "tool_call.completed"}
        <4>1. \/ client' = client
              \/ client' = [client EXCEPT !.tool[t] = "open"]
              \/ client' = [client EXCEPT !.tool[t] = "closed"]
          BY <1>1, <3>1, <3>3 DEF ClientAfter, AfterToolEnd
        <4> QED  BY <2>0, <4>1, ClientTool
      <3> QED  BY <2>1, <3>2, <3>3 DEF ToolTypes
    <2>2. CASE event.type \in PlainTypes
      <3>1. CASE event.type = "text.delta"
        <4>1. client' = [client EXCEPT !.text = client.text + 1]
          BY <1>1, <3>1 DEF ClientAfter
        <4> QED  BY <2>0, <4>1, ClientText
      <3>2. CASE event.type # "text.delta"
        <4>1. \/ client' = client
              \/ client' = [client EXCEPT !.begun = TRUE]
              \/ client' = [client EXCEPT !.ended = "success"]
              \/ client' = [client EXCEPT !.ended = "error"]
          BY <1>1, <2>2, <3>2 DEF ClientAfter, AfterEOF, PlainTypes
        <4> QED  BY <2>0, <4>1, ClientBegins, ClientEnds
      <3> QED  BY <3>1, <3>2
    <2> QED  BY <1>2, <2>1, <2>2
  <1>4. TypeOK'
    BY <1>1, <1>3 DEF TypeOK, Clients
  <1>5. Honest'
    <2>1. Deliverable' = Deliverable
      BY <1>1 DEF Deliverable
    <2>2. client'.ended = "success" => client.ended = "success" \/ event.type = "response.completed"
      BY <1>1, <1>2 DEF ClientAfter, AfterArguments, AfterToolEnd, AfterEOF, TypeOK, PlainTypes, ToolTypes
    <2>3. NeverFabricated'
      BY <1>1, <2>2 DEF Honest, NeverFabricated, Deliverable
    <2> QED  BY <1>1, <2>1, <2>3 DEF Honest
  <1>6. EndIsTold'
    <2>1. CASE Last(event)
      <3>1. client'.ended # "no" \/ (inbound = "messages" /\ ~client'.begun)
        BY <1>1, <2>1 DEF Last, ClientAfter, AfterEOF, TypeOK
      <3> QED  BY <1>1, <3>1 DEF EndIsTold
    <2>2. CASE ~Last(event)
      BY <1>1, <2>2 DEF EndIsTold
    <2> QED  BY <2>1, <2>2
  <1> QED  BY <1>4, <1>5, <1>6

LEMMA OthersHold ==
  ASSUME IInv, ClientGone \/ EncodeFails \/ LogResult \/ UNCHANGED vars
  PROVE  IInv'
  <1> USE DEF IInv
  <1>1. UNCHANGED <<upstream, conforming, inbound, sent, reader, pending, seq, event, client>>
    BY DEF ClientGone, EncodeFails, LogResult, vars, protocols
  <1>2. Deliverable' = Deliverable
    BY <1>1 DEF Deliverable
  <1>3. TypeOK'
    <2>1. pc' \in {"reading", "encoding", "ended", "logged"} /\ gone' \in BOOLEAN
      BY DEF TypeOK, ClientGone, EncodeFails, LogResult, vars
    <2>2. trace' \in [failed : BOOLEAN, result : {"none", "success", "failed", "cancelled"}]
      BY DEF TypeOK, ClientGone, EncodeFails, LogResult, vars
    <2> QED  BY <1>1, <2>1, <2>2 DEF TypeOK
  <1>4. Honest'
    BY <1>1, <1>2 DEF Honest, NeverFabricated, ClientGone, EncodeFails, LogResult, vars
  <1>5. EndIsTold'
    BY <1>1 DEF EndIsTold, ClientGone, EncodeFails, LogResult, vars
  <1> QED  BY <1>3, <1>4, <1>5

\* The types, the honesty of what is on its way and the ending hold together.
THEOREM Inductive == Spec => []IInv
  <1>1. Init => IInv
    BY InitHolds
  <1>2. IInv /\ [Next]_vars => IInv'
    <2> SUFFICES ASSUME IInv, [Next]_vars PROVE IInv'
      OBVIOUS
    <2>1. CASE \E w \in Wire(upstream) : Receive(w)
      BY <2>1, ReceiveHolds
    <2>2. CASE UpstreamEnds \/ UpstreamBreaks \/ TimeOut \/ Cancelled
      BY <2>2, StopReadingHolds DEF UpstreamEnds, UpstreamBreaks, TimeOut, Cancelled
    <2>3. CASE Deliver
      BY <2>3, DeliverHolds
    <2>4. CASE Encode
      BY <2>4, EncodeHolds
    <2>5. CASE ClientGone \/ EncodeFails \/ LogResult \/ UNCHANGED vars
      BY <2>5, OthersHold
    <2> QED  BY <2>1, <2>2, <2>3, <2>4, <2>5 DEF Next
  <1> QED  BY <1>1, <1>2, PTL DEF Spec

\* The handler never hands its encoder an error of the reader or an event of no call.
THEOREM StreamTypeCorrect == Spec => []TypeOK
  BY Inductive, PTL DEF IInv

\* No client is told of a success its upstream did not complete.
THEOREM NeverFabricates == Spec => []NeverFabricated
  BY Inductive, PTL DEF IInv, Honest

\* Every client that stays is told how its answer ended, a Messages client once it began.
THEOREM TellsTheEnd == Spec => []EndIsTold
  BY Inductive, PTL DEF IInv

(***************************************************************************)
(* What is on its way to the client.  The events a reader has made of one  *)
(* thing the upstream sent are delivered before it reads on, so that a     *)
(* text, or a piece of arguments, that was sent is on its way or has       *)
(* arrived, for as long as no error has been returned.                     *)
(***************************************************************************)

\* What the encoder has not seen yet.
OnTheWay == IF pc = "encoding" THEN <<event>> \o pending ELSE pending

\* The encoder will go on after what it has.
Live == pc = "reading" \/ (pc = "encoding" /\ event.type # "error")

Comes(q, type) == \E i \in DOMAIN q : q[i].type = type

ComesFor(q, type, t) == \E i \in DOMAIN q : q[i].type = type /\ q[i].tool = t

Counted(condition) == IF condition THEN 1 ELSE 0

Contents == {"text.delta", "tool_call.arguments.delta"}

\* One thing the upstream sends has at most one text and one piece of arguments.
Once(q) == \A i, j \in DOMAIN q : q[i].type = q[j].type /\ q[i].type \in Contents => i = j

EndsLast(q) == \A i \in DOMAIN q : q[i].type = "response.completed" => i = Len(q)

\* Readers, sequencer, encoder and upstream agree on the calls there are.
CallsAgree ==
  \A t \in Tools :
    /\ t \in reader.known => sent.tool[t] # "none"
    /\ sent.tool[t] \notin {"none", "late"} => t \in reader.known
    /\ sent.tool[t] = "none" => sent.args[t] = 0
    /\ t \in reader.known => client.tool[t] # "none" \/ ComesFor(OnTheWay, "tool_call.started", t)
    /\ ComesFor(OnTheWay, "tool_call.started", t) => t \in reader.known
    /\ seq.tool[t] # "none" => t \in reader.known
    /\ client.tool[t] # "none" => seq.tool[t] # "none"
    /\ client.args[t] # <<>> => client.tool[t] # "none"
    /\ seq.tool[t] # "none" =>
         client.tool[t] # "none" \/ (pc = "encoding" /\ event.type = "tool_call.started" /\ event.tool = t)

\* What the sequencer has let through.
LetThrough ==
  pc = "encoding" /\ event.type \in ToolTypes =>
    /\ seq.tool[event.tool] # "none"
    /\ event.type = "tool_call.started" => client.tool[event.tool] = "none"

\* Every text that was sent has arrived, or is on its way.
TextFlows == client.text + Counted(Comes(OnTheWay, "text.delta")) = sent.text

\* s, and what is coming of it, are the latest of the pieces that were sent.
Aligned(s, coming, pieces, state) ==
  /\ state # "late" => Len(s) + coming = pieces
  /\ \A i \in DOMAIN s : s[i] + (Len(s) - i) + coming = pieces

\* So has every piece of arguments, but for what the readers kept back of a late call.
ArgumentsFlow ==
  /\ \A i \in DOMAIN OnTheWay :
       OnTheWay[i].type = "tool_call.arguments.delta" => OnTheWay[i].piece = sent.args[OnTheWay[i].tool]
  /\ \A t \in Tools :
       LET coming == Counted(ComesFor(OnTheWay, "tool_call.arguments.delta", t))
       IN  Aligned(client.args[t], coming, sent.args[t], sent.tool[t])

Ordered(t) == \E k \in DOMAIN reader.order : reader.order[k] = t

\* The chat reader ends the calls of its order when the answer ends.
ChatCloses ==
  upstream = "chat" =>
    /\ inbound # "chat" => \A t \in Tools : client.tool[t] = "open" =>
         Ordered(t) \/ ComesFor(OnTheWay, "tool_call.completed", t)
    /\ \A i \in DOMAIN OnTheWay : OnTheWay[i].type = "tool_call.started" =>
         \/ Ordered(OnTheWay[i].tool)
         \/ \E j \in DOMAIN OnTheWay :
              j > i /\ OnTheWay[j].type = "tool_call.completed" /\ OnTheWay[j].tool = OnTheWay[i].tool
    /\ Comes(OnTheWay, "response.completed") => reader.order = <<>>

\* The other upstreams end each call themselves.
OthersClose ==
  upstream # "chat" =>
    /\ Len(OnTheWay) <= 1
    /\ inbound # "chat" => \A t \in Tools : sent.tool[t] \in {"argsDone", "finished"} =>
         client.tool[t] = "closed" \/ ComesFor(OnTheWay, "tool_call.completed", t)
    /\ conforming => \A t \in Tools :
         sent.tool[t] # "late" /\ (Comes(OnTheWay, "response.completed") => ~Open(t))

Flowing ==
  /\ client.ended = "no"
  /\ Once(OnTheWay) /\ EndsLast(OnTheWay)
  /\ CallsAgree /\ LetThrough
  /\ TextFlows /\ ArgumentsFlow
  /\ ChatCloses /\ OthersClose

\* The inductive invariant of the properties of whole answers.
Flow ==
  /\ Live => Flowing
  /\ ArgumentsInOrder /\ SuccessIsWhole /\ ToolsAreClosed

(***************************************************************************)
(* Queues of events.                                                       *)
(***************************************************************************)

LEMMA ConcatElements ==
  ASSUME NEW S, NEW s \in Seq(S), NEW t \in Seq(S)
  PROVE  /\ s \o t \in Seq(S) /\ Len(s \o t) = Len(s) + Len(t)
         /\ \A i \in DOMAIN s : i \in DOMAIN (s \o t) /\ (s \o t)[i] = s[i]
         /\ \A i \in DOMAIN t : i + Len(s) \in DOMAIN (s \o t) /\ (s \o t)[i + Len(s)] = t[i]
         /\ \A i \in DOMAIN (s \o t) :
              \/ i \in DOMAIN s /\ (s \o t)[i] = s[i]
              \/ i - Len(s) \in DOMAIN t /\ (s \o t)[i] = t[i - Len(s)]
  OBVIOUS

LEMMA TailElements ==
  ASSUME NEW S, NEW q \in Seq(S), q # <<>>
  PROVE  /\ Head(q) = q[1] /\ Head(q) \in S /\ 1 \in DOMAIN q
         /\ Tail(q) \in Seq(S) /\ Len(Tail(q)) = Len(q) - 1 /\ Len(Tail(q)) \in Nat
         /\ \A i \in DOMAIN Tail(q) : i + 1 \in DOMAIN q /\ Tail(q)[i] = q[i + 1]
         /\ \A i \in DOMAIN q : i = 1 \/ (i - 1 \in DOMAIN Tail(q) /\ Tail(q)[i - 1] = q[i])
  OBVIOUS

LEMMA HeadAndTail ==
  ASSUME NEW S, NEW q \in Seq(S), q # <<>>
  PROVE  <<Head(q)>> \o Tail(q) = q
  OBVIOUS

LEMMA TailOf ==
  ASSUME NEW S, NEW e \in S, NEW q \in Seq(S)
  PROVE  LET s == <<e>> \o q IN s \in Seq(S) /\ s # <<>> /\ Head(s) = e /\ Tail(s) = q
  OBVIOUS

\* What delivering and encoding the first event changes.
LEMMA TailComes ==
  ASSUME NEW q \in Seq(AnEvent), q # <<>>
  PROVE  /\ \A type : Comes(q, type) <=> Head(q).type = type \/ Comes(Tail(q), type)
         /\ \A type, t : ComesFor(q, type, t) <=>
              (Head(q).type = type /\ Head(q).tool = t) \/ ComesFor(Tail(q), type, t)
  <1>1. ASSUME NEW type PROVE Comes(q, type) <=> Head(q).type = type \/ Comes(Tail(q), type)
    <2>1. ASSUME Comes(q, type) PROVE Head(q).type = type \/ Comes(Tail(q), type)
      <3>1. PICK i \in DOMAIN q : q[i].type = type
        BY <2>1 DEF Comes
      <3>2. i = 1 \/ (i - 1 \in DOMAIN Tail(q) /\ Tail(q)[i - 1].type = type)
        BY <3>1, TailElements
      <3> QED  BY <3>1, <3>2, TailElements DEF Comes
    <2>2. Head(q).type = type => Comes(q, type)
      BY TailElements DEF Comes
    <2>3. ASSUME Comes(Tail(q), type) PROVE Comes(q, type)
      <3>1. PICK i \in DOMAIN Tail(q) : Tail(q)[i].type = type
        BY <2>3 DEF Comes
      <3>2. i + 1 \in DOMAIN q /\ q[i + 1].type = type
        BY <3>1, TailElements
      <3> QED  BY <3>2 DEF Comes
    <2> QED  BY <2>1, <2>2, <2>3
  <1>2. ASSUME NEW type, NEW t
        PROVE  ComesFor(q, type, t) <=>
                 (Head(q).type = type /\ Head(q).tool = t) \/ ComesFor(Tail(q), type, t)
    <2>1. ASSUME ComesFor(q, type, t)
          PROVE  (Head(q).type = type /\ Head(q).tool = t) \/ ComesFor(Tail(q), type, t)
      <3>1. PICK i \in DOMAIN q : q[i].type = type /\ q[i].tool = t
        BY <2>1 DEF ComesFor
      <3>2. i = 1 \/ (i - 1 \in DOMAIN Tail(q) /\ Tail(q)[i - 1].type = type /\ Tail(q)[i - 1].tool = t)
        BY <3>1, TailElements
      <3> QED  BY <3>1, <3>2, TailElements DEF ComesFor
    <2>2. Head(q).type = type /\ Head(q).tool = t => ComesFor(q, type, t)
      BY TailElements DEF ComesFor
    <2>3. ASSUME ComesFor(Tail(q), type, t) PROVE ComesFor(q, type, t)
      <3>1. PICK i \in DOMAIN Tail(q) : Tail(q)[i].type = type /\ Tail(q)[i].tool = t
        BY <2>3 DEF ComesFor
      <3>2. i + 1 \in DOMAIN q /\ q[i + 1].type = type /\ q[i + 1].tool = t
        BY <3>1, TailElements
      <3> QED  BY <3>2 DEF ComesFor
    <2> QED  BY <2>1, <2>2, <2>3
  <1> QED  BY <1>1, <1>2

LEMMA TailTidy ==
  ASSUME NEW q \in Seq(AnEvent), q # <<>>, Once(q), EndsLast(q)
  PROVE  /\ Once(Tail(q)) /\ EndsLast(Tail(q))
         /\ Head(q).type \in Contents => ~Comes(Tail(q), Head(q).type)
         /\ Head(q).type = "response.completed" => Tail(q) = <<>>
  <1>1. Once(Tail(q))
    <2> SUFFICES ASSUME NEW i \in DOMAIN Tail(q), NEW j \in DOMAIN Tail(q),
                        Tail(q)[i].type = Tail(q)[j].type, Tail(q)[i].type \in Contents
                 PROVE  i = j
      BY DEF Once
    <2>1. i + 1 \in DOMAIN q /\ j + 1 \in DOMAIN q /\ Tail(q)[i] = q[i + 1] /\ Tail(q)[j] = q[j + 1]
      BY TailElements
    <2>2. i + 1 = j + 1
      BY <2>1 DEF Once
    <2>3. i \in Nat /\ j \in Nat
      BY TailElements
    <2> QED  BY <2>2, <2>3
  <1>2. EndsLast(Tail(q))
    BY TailElements DEF EndsLast
  <1>3. Head(q).type \in Contents => ~Comes(Tail(q), Head(q).type)
    <2> SUFFICES ASSUME Head(q).type \in Contents, NEW i \in DOMAIN Tail(q), Tail(q)[i].type = Head(q).type
                 PROVE  FALSE
      BY DEF Comes
    <2>1. i + 1 \in DOMAIN q /\ Tail(q)[i] = q[i + 1] /\ Head(q) = q[1] /\ 1 \in DOMAIN q /\ i \in Nat /\ i # 0
      BY TailElements
    <2>2. i + 1 = 1
      BY <2>1 DEF Once
    <2> QED  BY <2>1, <2>2
  <1>4. Head(q).type = "response.completed" => Tail(q) = <<>>
    BY TailElements DEF EndsLast
  <1> QED  BY <1>1, <1>2, <1>3, <1>4

\* A step that leaves what was sent and what is on its way alone.
LEMMA FlowingStays ==
  ASSUME Flow, Flowing, OnTheWay' = OnTheWay, CallsAgree', LetThrough',
         UNCHANGED <<upstream, conforming, inbound, sent, reader, client>>
  PROVE  Flow'
  <1>1. Once(OnTheWay)' /\ EndsLast(OnTheWay)'
    BY DEF Flowing, Once, EndsLast
  <1>2. TextFlows' /\ ArgumentsFlow'
    BY DEF Flowing, TextFlows, ArgumentsFlow
  <1>3. ChatCloses' /\ OthersClose'
    BY DEF Flowing, ChatCloses, OthersClose, Ordered, Open
  <1>4. Flowing'
    BY <1>1, <1>2, <1>3 DEF Flowing
  <1> QED  BY <1>4 DEF Flow, ArgumentsInOrder, SuccessIsWhole, ToolsAreClosed

LEMMA OnTheWayType ==
  ASSUME TypeOK
  PROVE  OnTheWay \in Seq(AnEvent)
  <1>1. event \in AnEvent /\ pending \in Seq(AnEvent)
    BY DEF TypeOK
  <1> QED  BY <1>1, OneType, ConcatType DEF OnTheWay

\* The latest pieces, one after another.
LEMMA AlignedInOrder ==
  ASSUME NEW s \in Seq(Nat), NEW c \in {0, 1}, NEW n \in Nat, NEW state, Aligned(s, c, n, state),
         NEW i \in DOMAIN s, NEW j \in DOMAIN s
  PROVE  s[j] - s[i] = j - i
  <1>1. PICK a, b, l, x, y \in Nat : a = s[i] /\ b = s[j] /\ l = Len(s) /\ x = i /\ y = j
    OBVIOUS
  <1>2. a + (l - x) + c = n /\ b + (l - y) + c = n
    BY <1>1 DEF Aligned
  <1>3. b - a = y - x
    BY <1>2
  <1> QED  BY <1>1, <1>3

\* While an answer flows its client has been sent nothing out of order.
LEMMA FlowingOrders ==
  ASSUME TypeOK', Live', Flowing'
  PROVE  Flow'
  <1>1. ArgumentsInOrder'
    <2> SUFFICES ASSUME NEW t \in Tools, NEW i \in DOMAIN client'.args[t], NEW j \in DOMAIN client'.args[t]
                 PROVE  client'.args[t][j] - client'.args[t][i] = j - i
      BY DEF ArgumentsInOrder
    <2>1. client'.args[t] \in Seq(Nat) /\ sent'.args[t] \in Nat
      BY DEF TypeOK
    <2>2. PICK c \in {0, 1} : c = Counted(ComesFor(OnTheWay, "tool_call.arguments.delta", t))'
      BY DEF Counted
    <2>3. Aligned(client'.args[t], c, sent'.args[t], sent'.tool[t])
      BY <2>2 DEF Flowing, ArgumentsFlow, Counted
    <2> QED  BY <2>1, <2>3, AlignedInOrder
  <1> QED  BY <1>1 DEF Flowing, Flow, SuccessIsWhole, ToolsAreClosed

LEMMA DeliverFlows ==
  ASSUME IInv, Flow, Deliver
  PROVE  Flow'
  <1> DEFINE ev == Head(pending)
  <1>1. /\ pending \in Seq(AnEvent) /\ pending # <<>> /\ pc = "reading"
        /\ pending' = Tail(pending) /\ event' = Returned(ev) /\ pc' = "encoding"
        /\ seq' = IF Accepted(ev) THEN Pushed(ev) ELSE seq
        /\ UNCHANGED <<upstream, conforming, inbound, sent, reader, client, gone, trace>>
    BY DEF Deliver, protocols, IInv, TypeOK
  <1>2. Flowing /\ OnTheWay = pending /\ ev \in AnEvent
    BY <1>1, TailElements DEF Flow, Live, OnTheWay
  <1>3. CASE event'.type = "error"
    BY <1>1, <1>3 DEF Flow, Live, ArgumentsInOrder, SuccessIsWhole, ToolsAreClosed
  <1>4. CASE event'.type # "error"
    <2>1. event' = ev /\ (Accepted(ev) \/ ev = EOF)
      BY <1>1, <1>4 DEF Returned, Failed, Event
    <2>2. OnTheWay' = OnTheWay
      BY <1>1, <1>2, <2>1, HeadAndTail DEF OnTheWay
    <2>3. /\ ev.type \in ToolTypes => ev.tool \in Tools
          /\ ComesFor(OnTheWay, ev.type, ev.tool)
      BY <1>1, <1>2, TailComes DEF AnEvent, PlainTypes, ToolTypes
    <2>4. /\ seq.tool \in [Tools -> {"none", "open", "completed"}]
          /\ seq'.tool \in [Tools -> {"none", "open", "completed"}]
      BY DeliverHolds DEF IInv, TypeOK
    <2>5. CASE ev.type \in ToolTypes
      <3>1. Accepted(ev) /\ seq' = Pushed(ev)
        BY <1>1, <2>1, <2>5 DEF EOF, Event, ToolTypes
      <3>2. \A t \in Tools : t # ev.tool => seq'.tool[t] = seq.tool[t]
        BY <2>3, <2>4, <2>5, <3>1 DEF Pushed, IInv, TypeOK, ToolTypes
      <3>3. /\ seq'.tool[ev.tool] # "none"
            /\ ev.type = "tool_call.started" => seq.tool[ev.tool] = "none"
            /\ ev.type # "tool_call.started" => seq.tool[ev.tool] # "none"
        BY <2>3, <2>4, <2>5, <3>1 DEF Accepted, Pushed, IInv, TypeOK, ToolTypes
      <3>4. CallsAgree'
        BY <1>1, <1>2, <2>1, <2>2, <2>3, <2>4, <3>2, <3>3 DEF Flowing, CallsAgree
      <3>5. LetThrough'
        BY <1>1, <1>2, <2>1, <2>3, <3>3 DEF Flowing, CallsAgree, LetThrough
      <3> QED  BY <1>1, <1>2, <2>2, <3>4, <3>5, FlowingStays
    <2>6. CASE ev.type \notin ToolTypes
      <3>1. seq'.tool = seq.tool
        BY <1>1, <2>6 DEF Pushed, IInv, TypeOK, ToolTypes
      <3>2. CallsAgree' /\ LetThrough'
        BY <1>1, <1>2, <2>1, <2>2, <2>6, <3>1 DEF Flowing, CallsAgree, LetThrough, ToolTypes
      <3> QED  BY <1>1, <1>2, <2>2, <3>2, FlowingStays
    <2> QED  BY <2>5, <2>6
  <1> QED  BY <1>3, <1>4

\* The event that is encoded leaves the queue; the sequencer has let it through.
LEMMA Encoding ==
  ASSUME IInv, Flow, Encode, event.type # "error"
  PROVE  /\ Flowing /\ event \in AnEvent /\ pending \in Seq(AnEvent)
         /\ OnTheWay = <<event>> \o pending /\ OnTheWay \in Seq(AnEvent) /\ OnTheWay # <<>>
         /\ Head(OnTheWay) = event /\ Tail(OnTheWay) = pending
         /\ client' = ClientAfter /\ pc = "encoding"
         /\ pc' = (IF Last(event) THEN "ended" ELSE "reading")
         /\ UNCHANGED <<upstream, conforming, inbound, sent, reader, pending, seq, event>>
  <1>1. /\ pc = "encoding" /\ client' = ClientAfter /\ pc' = (IF Last(event) THEN "ended" ELSE "reading")
        /\ UNCHANGED <<upstream, conforming, inbound, sent, reader, pending, seq, event>>
    BY DEF Encode, protocols
  <1>2. event \in AnEvent /\ pending \in Seq(AnEvent) /\ OnTheWay = <<event>> \o pending
    BY <1>1 DEF IInv, TypeOK, OnTheWay
  <1>3. Flowing
    BY <1>1 DEF Flow, Live
  <1> QED  BY <1>1, <1>2, <1>3, TailOf

LEMMA EncodingComes ==
  ASSUME IInv, Flow, Encode, event.type # "error"
  PROVE  /\ \A type : Comes(OnTheWay, type) <=> event.type = type \/ Comes(pending, type)
         /\ \A type, t : ComesFor(OnTheWay, type, t) <=>
              (event.type = type /\ event.tool = t) \/ ComesFor(pending, type, t)
  <1>1. PICK q \in Seq(AnEvent) : q = OnTheWay
    BY Encoding
  <1>2. q # <<>> /\ Head(q) = event /\ Tail(q) = pending
    BY <1>1, Encoding
  <1> QED  BY <1>1, <1>2, TailComes

\* An end with success comes after everything else.
LEMMA SuccessFlows ==
  ASSUME IInv, Flow, Encode, event.type = "response.completed"
  PROVE  Flow'
  <1>1. pending = <<>> /\ ~Live'
    BY Encoding, TailTidy DEF Flowing, Live, Last
  <1>2. ~Comes(pending, "text.delta") /\ \A type, t : ~ComesFor(pending, type, t)
    BY <1>1 DEF Comes, ComesFor
  <1>3. /\ ~Comes(OnTheWay, "text.delta") /\ Comes(OnTheWay, "response.completed")
        /\ \A type, t : type # "response.completed" => ~ComesFor(OnTheWay, type, t)
    BY <1>2, EncodingComes
  <1>4. /\ client'.ended = "success" /\ client'.text = client.text
        /\ client'.tool = client.tool /\ client'.args = client.args
    BY Encoding DEF ClientAfter, IInv, TypeOK
  <1>5. UNCHANGED <<inbound, conforming, sent>>
    BY Encoding
  <1>6. ArgumentsInOrder'
    BY <1>4 DEF Flow, ArgumentsInOrder
  <1>7. SuccessIsWhole'
    <2>1. client.text = sent.text
      BY <1>3, Encoding DEF Flowing, TextFlows, Counted, IInv, TypeOK
    <2>2. ASSUME NEW t \in Tools, sent.tool[t] # "late"
          PROVE  /\ client.tool[t] = "none" <=> sent.tool[t] = "none"
                 /\ Len(client.args[t]) = sent.args[t]
      <3>1. client.tool[t] = "none" <=> sent.tool[t] = "none"
        BY <1>3, <2>2, Encoding DEF Flowing, CallsAgree
      <3>2. Len(client.args[t]) + 0 = sent.args[t]
        BY <1>3, <2>2, Encoding DEF Flowing, ArgumentsFlow, Aligned, Counted
      <3>3. client.args[t] \in Seq(Nat)
        BY DEF IInv, TypeOK
      <3> QED  BY <3>1, <3>2, <3>3
    <2> QED  BY <1>4, <1>5, <2>1, <2>2 DEF SuccessIsWhole
  <1>8. ToolsAreClosed'
    <2> SUFFICES ASSUME conforming, inbound # "chat", NEW t \in Tools PROVE client.tool[t] # "open"
      BY <1>4, <1>5 DEF ToolsAreClosed
    <2>1. CASE upstream = "chat"
      BY <1>3, <2>1, Encoding DEF Flowing, ChatCloses, Ordered
    <2>2. CASE upstream # "chat"
      <3>1. /\ sent.tool[t] \in {"argsDone", "finished"} => client.tool[t] = "closed"
            /\ sent.tool[t] # "late" /\ ~Open(t)
        BY <1>3, <2>2, Encoding DEF Flowing, OthersClose
      <3>2. sent.tool[t] \in {"none", "argsDone", "finished"}
        BY <3>1 DEF Open, IInv, TypeOK
      <3>3. sent.tool[t] = "none" => client.tool[t] = "none"
        BY Encoding DEF Flowing, CallsAgree
      <3> QED  BY <3>1, <3>2, <3>3
    <2> QED  BY <2>1, <2>2
  <1> QED  BY <1>1, <1>6, <1>7, <1>8 DEF Flow

\* What is said of single events of the queue holds of what is left of it.
LEMMA PiecesStay ==
  ASSUME IInv, Flow, Encode, ~Last(event)
  PROVE  \A i \in DOMAIN pending : pending[i].type = "tool_call.arguments.delta" =>
            pending[i].piece = sent.args[pending[i].tool]
  <1>1. PICK q \in Seq(AnEvent) : q = OnTheWay
    BY Encoding DEF Last
  <1>2. /\ q # <<>> /\ Tail(q) = pending
        /\ \A i \in DOMAIN q : q[i].type = "tool_call.arguments.delta" => q[i].piece = sent.args[q[i].tool]
    BY <1>1, Encoding DEF Last, Flowing, ArgumentsFlow
  <1>3. \A i \in DOMAIN pending : i + 1 \in DOMAIN q /\ pending[i] = q[i + 1]
    BY <1>2, TailElements
  <1> QED  BY <1>2, <1>3

LEMMA OrderStays ==
  ASSUME IInv, Flow, Encode, ~Last(event), upstream = "chat"
  PROVE  /\ \A i \in DOMAIN pending : pending[i].type = "tool_call.started" =>
              \/ Ordered(pending[i].tool)
              \/ \E j \in DOMAIN pending :
                   j > i /\ pending[j].type = "tool_call.completed" /\ pending[j].tool = pending[i].tool
         /\ event.type = "tool_call.started" =>
              Ordered(event.tool) \/ ComesFor(pending, "tool_call.completed", event.tool)
         /\ Comes(pending, "response.completed") => reader.order = <<>>
  <1>1. PICK q \in Seq(AnEvent) : q = OnTheWay
    BY Encoding DEF Last
  <1>2. /\ q # <<>> /\ Tail(q) = pending /\ Head(q) = event
        /\ \A i \in DOMAIN q : q[i].type = "tool_call.started" =>
              \/ Ordered(q[i].tool)
              \/ \E j \in DOMAIN q :
                   j > i /\ q[j].type = "tool_call.completed" /\ q[j].tool = q[i].tool
        /\ Comes(q, "response.completed") => reader.order = <<>>
    BY <1>1, Encoding DEF Last, Flowing, ChatCloses
  <1>3. /\ \A i \in DOMAIN pending : i + 1 \in DOMAIN q /\ pending[i] = q[i + 1] /\ i \in Nat /\ i # 0
        /\ \A i \in DOMAIN q : i = 1 \/ (i - 1 \in DOMAIN pending /\ pending[i - 1] = q[i])
        /\ \A i \in DOMAIN q : i \in Nat
        /\ 1 \in DOMAIN q /\ q[1] = event
    BY <1>2, TailElements
  <1>4. ASSUME NEW i \in DOMAIN pending, pending[i].type = "tool_call.started", ~Ordered(pending[i].tool)
        PROVE  \E j \in DOMAIN pending :
                  j > i /\ pending[j].type = "tool_call.completed" /\ pending[j].tool = pending[i].tool
    <2>1. PICK j \in DOMAIN q : j > i + 1 /\ q[j].type = "tool_call.completed" /\ q[j].tool = pending[i].tool
      BY <1>2, <1>3, <1>4
    <2>2. j # 1 /\ j \in Nat /\ i \in Nat /\ i # 0
      BY <1>3, <2>1
    <2>3. j - 1 \in DOMAIN pending /\ pending[j - 1] = q[j] /\ j - 1 > i
      BY <1>3, <2>1, <2>2
    <2> QED  BY <2>1, <2>3
  <1>5. ASSUME event.type = "tool_call.started", ~Ordered(event.tool)
        PROVE  ComesFor(pending, "tool_call.completed", event.tool)
    <2>1. PICK j \in DOMAIN q : j > 1 /\ q[j].type = "tool_call.completed" /\ q[j].tool = event.tool
      BY <1>2, <1>3, <1>5
    <2>2. j - 1 \in DOMAIN pending /\ pending[j - 1] = q[j]
      BY <1>3, <2>1
    <2> QED  BY <2>1, <2>2 DEF ComesFor
  <1>6. Comes(pending, "response.completed") => reader.order = <<>>
    BY <1>2, TailComes
  <1> QED  BY <1>4, <1>5, <1>6

\* An end without success says nothing of the rest.
LEMMA EndFlows ==
  ASSUME IInv, Flow, Encode, event.type \in {"error", "eof"}
  PROVE  Flow'
  <1>1. ~Live' /\ UNCHANGED <<inbound, conforming, sent>> /\ client' = ClientAfter
    BY DEF Encode, Live, Last, protocols
  <1>2. client'.args = client.args /\ client'.ended # "success"
    <2>1. client.ended # "success" \/ event.type = "error"
      BY DEF Encode, Flow, Live, Flowing
    <2> QED  BY <1>1, <2>1 DEF ClientAfter, AfterEOF, IInv, TypeOK
  <1> QED  BY <1>1, <1>2 DEF Flow, ArgumentsInOrder, SuccessIsWhole, ToolsAreClosed

\* What every event that is not the last one leaves behind.
LEMMA EncodingGoesOn ==
  ASSUME IInv, Flow, Encode, ~Last(event)
  PROVE  /\ Live' /\ OnTheWay' = pending /\ pc' = "reading"
         /\ Once(OnTheWay)' /\ EndsLast(OnTheWay)'
         /\ client'.ended = "no" /\ TypeOK'
         /\ Len(OnTheWay) <= 1 => Len(pending) <= 1
         /\ Len(OnTheWay) <= 1 => \A type, t : ~ComesFor(pending, type, t)
  <1>1. /\ event.type \notin {"error", "response.completed", "eof"} /\ Flowing
        /\ pc' = "reading" /\ pending' = pending
    BY Encoding DEF Last
  <1>2. Live' /\ OnTheWay' = pending
    BY <1>1 DEF Live, OnTheWay
  <1>3. PICK q \in Seq(AnEvent) : q = OnTheWay
    BY <1>1, Encoding
  <1>4. q # <<>> /\ Once(q) /\ EndsLast(q) /\ Tail(q) = pending
    BY <1>1, <1>3, Encoding DEF Flowing
  <1>5. Once(pending) /\ EndsLast(pending)
    BY <1>4, TailTidy
  <1>6. Once(OnTheWay)' /\ EndsLast(OnTheWay)'
    BY <1>2, <1>5 DEF Once, EndsLast
  <1>7. client'.ended = "no"
    BY <1>1, Encoding DEF ClientAfter, AfterArguments, AfterToolEnd, IInv, TypeOK, Flowing
  <1>8. TypeOK'
    BY EncodeHolds DEF IInv
  <1>9. Len(OnTheWay) <= 1 => Len(pending) <= 1 /\ pending = <<>>
    <2>1. Len(pending) = Len(q) - 1 /\ Len(pending) \in Nat /\ pending \in Seq(AnEvent)
      BY <1>4, TailElements
    <2> QED  BY <1>3, <2>1
  <1> QED  BY <1>2, <1>1, <1>6, <1>7, <1>8, <1>9 DEF ComesFor

LEMMA ArgumentsStay ==
  ASSUME Flowing, OnTheWay' = pending, UNCHANGED sent, client'.args = client.args,
         \A i \in DOMAIN pending : pending[i].type = "tool_call.arguments.delta" =>
            pending[i].piece = sent.args[pending[i].tool],
         \A t \in Tools : ComesFor(OnTheWay, "tool_call.arguments.delta", t) <=>
                          ComesFor(pending, "tool_call.arguments.delta", t)
  PROVE  ArgumentsFlow'
  <1>1. ASSUME NEW t \in Tools
        PROVE  Aligned(client'.args[t], Counted(ComesFor(OnTheWay', "tool_call.arguments.delta", t)),
                       sent'.args[t], sent'.tool[t])
    <2>1. Counted(ComesFor(OnTheWay', "tool_call.arguments.delta", t)) =
            Counted(ComesFor(OnTheWay, "tool_call.arguments.delta", t))
      BY DEF Counted
    <2> QED  BY <2>1 DEF Flowing, ArgumentsFlow
  <1> QED  BY <1>1 DEF ArgumentsFlow, Counted

\* A text, or the beginning of an answer.
LEMMA PlainFlows ==
  ASSUME IInv, Flow, Encode, ~Last(event), event.type \notin ToolTypes
  PROVE  Flow'
  <1>1. /\ client' = ClientAfter /\ OnTheWay' = pending /\ Flowing /\ pc' = "reading"
        /\ event \in AnEvent /\ event.type \in {"response.started", "text.delta", "text.completed"}
        /\ UNCHANGED <<upstream, conforming, inbound, sent, reader, pending, seq, event>>
    BY Encoding, EncodingGoesOn DEF Last, AnEvent, PlainTypes, ToolTypes, IInv, TypeOK
  <1>2. client'.tool = client.tool /\ client'.args = client.args
    BY <1>1 DEF ClientAfter, IInv, TypeOK
  <1>3. \A type \in ToolTypes, t \in Tools :
           ComesFor(OnTheWay, type, t) <=> ComesFor(pending, type, t)
    BY <1>1, EncodingComes DEF Last, ToolTypes
  <1>4. CallsAgree'
    BY <1>1, <1>2, <1>3 DEF Flowing, CallsAgree, ToolTypes
  <1>5. LetThrough'
    BY <1>1 DEF LetThrough
  <1>6. TextFlows'
    <2>1. CASE event.type = "text.delta"
      <3>1. ~Comes(pending, "text.delta") /\ Comes(OnTheWay, "text.delta")
        <4>1. PICK q \in Seq(AnEvent) : q = OnTheWay
          BY Encoding DEF Last
        <4>2. q # <<>> /\ Once(q) /\ EndsLast(q) /\ Tail(q) = pending /\ Head(q) = event
          BY <1>1, <4>1, Encoding DEF Flowing, Last
        <4> QED  BY <2>1, <4>1, <4>2, TailTidy, TailComes DEF Contents
      <3>2. client.text + 1 = sent.text
        BY <1>1, <3>1 DEF Flowing, TextFlows, Counted
      <3>3. client'.text = client.text + 1
        BY <1>1, <2>1 DEF ClientAfter, IInv, TypeOK
      <3> QED  BY <1>1, <3>1, <3>2, <3>3 DEF TextFlows, Counted, IInv, TypeOK
    <2>2. CASE event.type # "text.delta"
      <3>1. Comes(pending, "text.delta") <=> Comes(OnTheWay, "text.delta")
        BY <2>2, EncodingComes DEF Last
      <3>2. client'.text = client.text
        BY <1>1, <2>2 DEF ClientAfter, IInv, TypeOK
      <3> QED  BY <1>1, <3>1, <3>2 DEF Flowing, TextFlows, Counted
    <2> QED  BY <2>1, <2>2
  <1>7. ArgumentsFlow'
    <2>1. \A i \in DOMAIN pending : pending[i].type = "tool_call.arguments.delta" =>
             pending[i].piece = sent.args[pending[i].tool]
      BY PiecesStay
    <2>2. \A t \in Tools : ComesFor(OnTheWay, "tool_call.arguments.delta", t) <=>
                            ComesFor(pending, "tool_call.arguments.delta", t)
      BY <1>3 DEF ToolTypes
    <2> QED  BY <1>1, <1>2, <2>1, <2>2, ArgumentsStay
  <1>8. ChatCloses'
    <2> SUFFICES ASSUME upstream = "chat" PROVE ChatCloses'
      BY <1>1 DEF ChatCloses
    <2> QED  BY <1>1, <1>2, <1>3, OrderStays DEF Flowing, ChatCloses, ToolTypes, Ordered
  <1>9. OthersClose'
    BY <1>1, <1>2, <1>3, EncodingGoesOn, EncodingComes DEF Flowing, OthersClose, Open, Last, ToolTypes
  <1>10. Flowing'
    BY <1>4, <1>5, <1>6, <1>7, <1>8, <1>9, EncodingGoesOn DEF Flowing
  <1> QED  BY <1>10, EncodingGoesOn, FlowingOrders

\* The beginning of a call.
LEMMA BeginFlows ==
  ASSUME IInv, Flow, Encode, event.type = "tool_call.started"
  PROVE  Flow'
  <1>0. ~Last(event) /\ event.type # "error"
    BY DEF Last
  <1>1. /\ client' = ClientAfter /\ OnTheWay' = pending /\ Flowing /\ pc' = "reading" /\ pc = "encoding"
        /\ event.tool \in Tools
        /\ UNCHANGED <<upstream, conforming, inbound, sent, reader, pending, seq, event>>
    BY <1>0, Encoding, EncodingGoesOn DEF AnEvent, PlainTypes
  <1>2. PICK t \in Tools : t = event.tool
    BY <1>1
  <1>3. /\ client'.args = client.args /\ client'.text = client.text
        /\ client'.tool[t] = "open" /\ \A u \in Tools : u # t => client'.tool[u] = client.tool[u]
    BY <1>1, <1>2 DEF ClientAfter, IInv, TypeOK
  <1>4. /\ \A type \in ToolTypes, u \in Tools :
              ComesFor(OnTheWay, type, u) <=> (event.type = type /\ t = u) \/ ComesFor(pending, type, u)
        /\ \A type : Comes(OnTheWay, type) <=> event.type = type \/ Comes(pending, type)
    BY <1>0, <1>2, EncodingComes
  <1>5. seq.tool[t] # "none" /\ client.tool[t] = "none"
    BY <1>1, <1>2 DEF Flowing, LetThrough, ToolTypes
  <1>6. CallsAgree'
    <2>1. ASSUME NEW u \in Tools
          PROVE  /\ u \in reader.known => client'.tool[u] # "none" \/ ComesFor(pending, "tool_call.started", u)
                 /\ ComesFor(pending, "tool_call.started", u) => u \in reader.known
                 /\ client'.tool[u] # "none" => seq.tool[u] # "none"
                 /\ client.args[u] # <<>> => client'.tool[u] # "none"
                 /\ seq.tool[u] # "none" => client'.tool[u] # "none"
      BY <1>1, <1>2, <1>3, <1>4, <1>5 DEF Flowing, CallsAgree, ToolTypes
    <2> QED  BY <1>1, <1>3, <2>1 DEF Flowing, CallsAgree
  <1>7. LetThrough'
    BY <1>1 DEF LetThrough
  <1>8. TextFlows'
    BY <1>0, <1>1, <1>3, <1>4 DEF Flowing, TextFlows, Counted
  <1>9. ArgumentsFlow'
    <2>1. \A u \in Tools : ComesFor(OnTheWay, "tool_call.arguments.delta", u) <=>
                            ComesFor(pending, "tool_call.arguments.delta", u)
      BY <1>0, <1>4 DEF ToolTypes
    <2> QED  BY <1>0, <1>1, <1>3, <2>1, PiecesStay, ArgumentsStay
  <1>10. ChatCloses'
    <2> SUFFICES ASSUME upstream = "chat" PROVE ChatCloses'
      BY <1>1 DEF ChatCloses
    <2>1. \A u \in Tools : ComesFor(OnTheWay, "tool_call.completed", u) <=>
                            ComesFor(pending, "tool_call.completed", u)
      BY <1>0, <1>4 DEF ToolTypes
    <2>2. inbound # "chat" => \A u \in Tools : client'.tool[u] = "open" =>
             Ordered(u) \/ ComesFor(pending, "tool_call.completed", u)
      BY <1>0, <1>2, <1>3, <2>1, <1>1, OrderStays DEF Flowing, ChatCloses
    <2> QED  BY <1>0, <1>1, <2>2, OrderStays DEF ChatCloses, Ordered
  <1>11. OthersClose'
    <2> SUFFICES ASSUME upstream # "chat" PROVE OthersClose'
      BY <1>1 DEF OthersClose
    <2>1. Len(pending) <= 1 /\ \A type, u : ~ComesFor(pending, type, u)
      BY <1>0, <1>1, EncodingGoesOn DEF Flowing, OthersClose
    <2>2. \A u \in Tools : ~ComesFor(OnTheWay, "tool_call.completed", u)
      BY <1>0, <1>4, <2>1 DEF ToolTypes
    <2>3. inbound # "chat" => \A u \in Tools : sent.tool[u] \in {"argsDone", "finished"} =>
             client'.tool[u] = "closed"
      BY <1>1, <1>3, <1>5, <2>2 DEF Flowing, OthersClose
    <2>4. Comes(pending, "response.completed") => Comes(OnTheWay, "response.completed")
      BY <1>4
    <2> QED  BY <1>1, <2>1, <2>3, <2>4 DEF Flowing, OthersClose, Open
  <1>12. Flowing'
    BY <1>0, <1>6, <1>7, <1>8, <1>9, <1>10, <1>11, EncodingGoesOn DEF Flowing
  <1> QED  BY <1>0, <1>12, EncodingGoesOn, FlowingOrders

\* A piece of arguments follows the ones the client has.
LEMMA AlignedAppend ==
  ASSUME NEW s \in Seq(Nat), NEW n \in Nat, NEW state, Aligned(s, 1, n, state)
  PROVE  Aligned(Append(s, n), 0, n, state)
  <1> DEFINE r == Append(s, n)
  <1>1. Len(s) \in Nat /\ Len(r) = Len(s) + 1 /\ r[Len(r)] = n /\ \A i \in DOMAIN s : r[i] = s[i]
    OBVIOUS
  <1>2. state # "late" => Len(r) + 0 = n
    BY <1>1 DEF Aligned
  <1>3. ASSUME NEW i \in DOMAIN r PROVE r[i] + (Len(r) - i) + 0 = n
    <2>1. i \in DOMAIN s \/ i = Len(r)
      OBVIOUS
    <2>2. CASE i \in DOMAIN s
      <3>1. PICK a, l, x \in Nat : a = s[i] /\ l = Len(s) /\ x = i
        BY <2>2
      <3>2. a + (l - x) + 1 = n
        BY <2>2, <3>1 DEF Aligned
      <3> QED  BY <1>1, <2>2, <3>1, <3>2
    <2>3. CASE i = Len(r)
      BY <1>1, <2>3
    <2> QED  BY <2>1, <2>2, <2>3
  <1> QED  BY <1>2, <1>3 DEF Aligned

LEMMA PieceFlows ==
  ASSUME IInv, Flow, Encode, event.type = "tool_call.arguments.delta"
  PROVE  Flow'
  <1>0. ~Last(event) /\ event.type # "error"
    BY DEF Last
  <1>1. /\ client' = ClientAfter /\ OnTheWay' = pending /\ Flowing /\ pc' = "reading" /\ pc = "encoding"
        /\ event.tool \in Tools
        /\ UNCHANGED <<upstream, conforming, inbound, sent, reader, pending, seq, event>>
    BY <1>0, Encoding, EncodingGoesOn DEF AnEvent, PlainTypes
  <1>2. PICK t \in Tools : t = event.tool
    BY <1>1
  <1>3. client.tool[t] # "none"
    BY <1>1, <1>2 DEF Flowing, LetThrough, CallsAgree, ToolTypes
  <1>4. event.piece = sent.args[t] /\ sent.args[t] \in Nat /\ client.args[t] \in Seq(Nat)
    <2>1. PICK q \in Seq(AnEvent) : q = OnTheWay
      BY <1>0, Encoding
    <2>2. 1 \in DOMAIN q /\ q[1] = event
      BY <1>0, <2>1, Encoding, TailElements
    <2> QED  BY <1>1, <1>2, <2>1, <2>2 DEF Flowing, ArgumentsFlow, IInv, TypeOK
  <1>5. /\ client'.tool = client.tool /\ client'.text = client.text
        /\ client'.args[t] = Append(client.args[t], sent.args[t])
        /\ \A u \in Tools : u # t => client'.args[u] = client.args[u]
    BY <1>1, <1>2, <1>3, <1>4 DEF ClientAfter, AfterArguments, IInv, TypeOK
  <1>6. /\ \A type \in ToolTypes, u \in Tools :
              ComesFor(OnTheWay, type, u) <=> (event.type = type /\ t = u) \/ ComesFor(pending, type, u)
        /\ \A type : Comes(OnTheWay, type) <=> event.type = type \/ Comes(pending, type)
    BY <1>0, <1>2, EncodingComes
  <1>7. CallsAgree'
    <2>1. \A u \in Tools : ComesFor(OnTheWay, "tool_call.started", u) <=>
                            ComesFor(pending, "tool_call.started", u)
      BY <1>0, <1>6 DEF ToolTypes
    <2>2. \A u \in Tools : client'.args[u] # <<>> => client'.tool[u] # "none"
      BY <1>1, <1>3, <1>5 DEF Flowing, CallsAgree
    <2> QED  BY <1>1, <1>5, <2>1, <2>2 DEF Flowing, CallsAgree
  <1>8. LetThrough'
    BY <1>1 DEF LetThrough
  <1>9. TextFlows'
    BY <1>0, <1>1, <1>5, <1>6 DEF Flowing, TextFlows, Counted
  <1>10. ArgumentsFlow'
    <2>1. ~Comes(pending, "tool_call.arguments.delta")
      <3>1. PICK q \in Seq(AnEvent) : q = OnTheWay
        BY <1>0, Encoding
      <3>2. q # <<>> /\ Once(q) /\ EndsLast(q) /\ Tail(q) = pending /\ Head(q) = event
        BY <1>0, <1>1, <3>1, Encoding DEF Flowing
      <3> QED  BY <3>2, TailTidy DEF Contents
    <2>2. \A u \in Tools : ~ComesFor(pending, "tool_call.arguments.delta", u)
      BY <2>1 DEF Comes, ComesFor
    <2>3. ASSUME NEW u \in Tools
          PROVE  Aligned(client'.args[u], 0, sent.args[u], sent.tool[u])
      <3>1. CASE u = t
        <4>1. ComesFor(OnTheWay, "tool_call.arguments.delta", t)
          BY <1>6 DEF ToolTypes
        <4>2. Aligned(client.args[t], 1, sent.args[t], sent.tool[t])
          BY <1>1, <4>1 DEF Flowing, ArgumentsFlow, Counted
        <4> QED  BY <1>4, <1>5, <3>1, <4>2, AlignedAppend
      <3>2. CASE u # t
        <4>1. ~ComesFor(OnTheWay, "tool_call.arguments.delta", u)
          BY <1>6, <2>2, <3>2 DEF ToolTypes
        <4> QED  BY <1>1, <1>5, <3>2, <4>1 DEF Flowing, ArgumentsFlow, Counted
      <3> QED  BY <3>1, <3>2
    <2>4. \A i \in DOMAIN pending : pending[i].type = "tool_call.arguments.delta" =>
             pending[i].piece = sent.args[pending[i].tool]
      BY <1>0, PiecesStay
    <2> QED  BY <1>1, <2>2, <2>3, <2>4 DEF ArgumentsFlow, Counted
  <1>11. \A u \in Tools : ComesFor(OnTheWay, "tool_call.completed", u) <=>
                           ComesFor(pending, "tool_call.completed", u)
    BY <1>0, <1>6 DEF ToolTypes
  <1>12. ChatCloses'
    <2> SUFFICES ASSUME upstream = "chat" PROVE ChatCloses'
      BY <1>1 DEF ChatCloses
    <2> QED  BY <1>0, <1>1, <1>5, <1>11, OrderStays DEF Flowing, ChatCloses, Ordered
  <1>13. OthersClose'
    BY <1>0, <1>1, <1>5, <1>6, <1>11, EncodingGoesOn DEF Flowing, OthersClose, Open
  <1>14. Flowing'
    BY <1>0, <1>7, <1>8, <1>9, <1>10, <1>12, <1>13, EncodingGoesOn DEF Flowing
  <1> QED  BY <1>0, <1>14, EncodingGoesOn, FlowingOrders

\* The end of a call.
LEMMA CallEndFlows ==
  ASSUME IInv, Flow, Encode, event.type = "tool_call.completed"
  PROVE  Flow'
  <1>0. ~Last(event) /\ event.type # "error"
    BY DEF Last
  <1>1. /\ client' = ClientAfter /\ OnTheWay' = pending /\ Flowing /\ pc' = "reading" /\ pc = "encoding"
        /\ event.tool \in Tools
        /\ UNCHANGED <<upstream, conforming, inbound, sent, reader, pending, seq, event>>
    BY <1>0, Encoding, EncodingGoesOn DEF AnEvent, PlainTypes
  <1>2. PICK t \in Tools : t = event.tool
    BY <1>1
  <1>3. client.tool[t] # "none" /\ seq.tool[t] # "none"
    BY <1>1, <1>2 DEF Flowing, LetThrough, CallsAgree, ToolTypes
  <1>4. /\ client'.args = client.args /\ client'.text = client.text
        /\ client'.tool[t] \in {client.tool[t], "closed"}
        /\ inbound # "chat" => client'.tool[t] = "closed"
        /\ \A u \in Tools : u # t => client'.tool[u] = client.tool[u]
    BY <1>1, <1>2, <1>3 DEF ClientAfter, AfterToolEnd, IInv, TypeOK, Protocols
  <1>5. /\ \A type \in ToolTypes, u \in Tools :
              ComesFor(OnTheWay, type, u) <=> (event.type = type /\ t = u) \/ ComesFor(pending, type, u)
        /\ \A type : Comes(OnTheWay, type) <=> event.type = type \/ Comes(pending, type)
    BY <1>0, <1>2, EncodingComes
  <1>6. \A u \in Tools :
          /\ ComesFor(OnTheWay, "tool_call.started", u) <=> ComesFor(pending, "tool_call.started", u)
          /\ ComesFor(OnTheWay, "tool_call.arguments.delta", u) <=>
               ComesFor(pending, "tool_call.arguments.delta", u)
          /\ ComesFor(OnTheWay, "tool_call.completed", u) <=>
               t = u \/ ComesFor(pending, "tool_call.completed", u)
    BY <1>5 DEF ToolTypes
  <1>7. CallsAgree'
    <2>1. ASSUME NEW u \in Tools
          PROVE  /\ u \in reader.known => client'.tool[u] # "none" \/ ComesFor(pending, "tool_call.started", u)
                 /\ ComesFor(pending, "tool_call.started", u) => u \in reader.known
                 /\ client'.tool[u] # "none" => seq.tool[u] # "none"
                 /\ client.args[u] # <<>> => client'.tool[u] # "none"
                 /\ seq.tool[u] # "none" => client'.tool[u] # "none"
      BY <1>1, <1>3, <1>4, <1>6 DEF Flowing, CallsAgree
    <2> QED  BY <1>1, <1>4, <2>1 DEF Flowing, CallsAgree
  <1>8. LetThrough'
    BY <1>1 DEF LetThrough
  <1>9. TextFlows'
    BY <1>0, <1>1, <1>4, <1>5 DEF Flowing, TextFlows, Counted
  <1>10. ArgumentsFlow'
    BY <1>0, <1>1, <1>4, <1>6, PiecesStay, ArgumentsStay
  <1>11. ChatCloses'
    <2> SUFFICES ASSUME upstream = "chat" PROVE ChatCloses'
      BY <1>1 DEF ChatCloses
    <2>1. inbound # "chat" => \A u \in Tools : client'.tool[u] = "open" =>
             Ordered(u) \/ ComesFor(pending, "tool_call.completed", u)
      BY <1>1, <1>4, <1>6 DEF Flowing, ChatCloses
    <2> QED  BY <1>0, <1>1, <2>1, OrderStays DEF ChatCloses, Ordered
  <1>12. OthersClose'
    <2> SUFFICES ASSUME upstream # "chat" PROVE OthersClose'
      BY <1>1 DEF OthersClose
    <2>1. inbound # "chat" => \A u \in Tools : sent.tool[u] \in {"argsDone", "finished"} =>
             client'.tool[u] = "closed" \/ ComesFor(pending, "tool_call.completed", u)
      BY <1>1, <1>4, <1>6 DEF Flowing, OthersClose
    <2> QED  BY <1>0, <1>1, <1>5, <2>1, EncodingGoesOn DEF Flowing, OthersClose, Open
  <1>13. Flowing'
    BY <1>0, <1>7, <1>8, <1>9, <1>10, <1>11, <1>12, EncodingGoesOn DEF Flowing
  <1> QED  BY <1>0, <1>13, EncodingGoesOn, FlowingOrders

LEMMA EncodeFlows ==
  ASSUME IInv, Flow, Encode
  PROVE  Flow'
  <1>1. event.type \in PlainTypes \cup ToolTypes
    BY DEF IInv, TypeOK, AnEvent
  <1>2. CASE event.type \in ToolTypes
    BY <1>2, BeginFlows, PieceFlows, CallEndFlows DEF ToolTypes
  <1>3. CASE event.type \notin ToolTypes
    BY <1>1, <1>3, SuccessFlows, EndFlows, PlainFlows DEF Last
  <1> QED  BY <1>2, <1>3

\* Nothing flows, or nothing moves, in the other steps of the handler.
LEMMA OthersFlow ==
  ASSUME IInv, Flow, ClientGone \/ EncodeFails \/ LogResult \/ UNCHANGED vars
  PROVE  Flow'
  <1>1. UNCHANGED <<upstream, conforming, inbound, sent, reader, pending, seq, event, client>>
    BY DEF ClientGone, EncodeFails, LogResult, vars, protocols
  <1>2. pc' = pc \/ ~Live'
    BY DEF ClientGone, EncodeFails, LogResult, vars, Live
  <1>3. CASE ~Live'
    BY <1>1, <1>3 DEF Flow, ArgumentsInOrder, SuccessIsWhole, ToolsAreClosed
  <1>4. CASE Live'
    <2>1. pc' = pc /\ Live /\ Flowing /\ OnTheWay' = OnTheWay
      BY <1>1, <1>2, <1>4 DEF Live, Flow, OnTheWay
    <2>2. CallsAgree' /\ LetThrough'
      BY <1>1, <2>1 DEF Flowing, CallsAgree, LetThrough
    <2> QED  BY <1>1, <2>1, <2>2, FlowingStays
  <1> QED  BY <1>3, <1>4

LEMMA StopReadingFlows ==
  ASSUME IInv, Flow, StopReading(EOF) \/ StopReading(Broken)
  PROVE  Flow'
  <1>1. /\ pc = "reading" /\ pc' = "reading" /\ pending = <<>>
        /\ pending' = <<EOF>> \/ pending' = <<Broken>>
        /\ UNCHANGED <<upstream, conforming, inbound, reader, seq, event, client>>
        /\ sent'.text = sent.text /\ sent'.tool = sent.tool /\ sent'.args = sent.args
    BY DEF StopReading, Reading, protocols, IInv, TypeOK
  <1>2. Live /\ Flowing /\ OnTheWay = <<>> /\ Live' /\ OnTheWay' = pending'
    BY <1>1 DEF Flow, Live, OnTheWay
  <1>3. /\ DOMAIN OnTheWay' = {1} /\ Len(OnTheWay') = 1
        /\ OnTheWay'[1].type \in {"eof", "broken"}
    BY <1>1, <1>2 DEF EOF, Broken, Event
  <1>4. /\ \A type, t : ~ComesFor(OnTheWay, type, t)
        /\ \A type : ~Comes(OnTheWay, type)
    BY <1>2 DEF ComesFor, Comes
  <1>5. /\ \A type \in ToolTypes : \A t : ~ComesFor(OnTheWay', type, t)
        /\ ~Comes(OnTheWay', "text.delta") /\ ~Comes(OnTheWay', "response.completed")
    BY <1>3 DEF ComesFor, Comes, ToolTypes
  <1>6. Once(OnTheWay)' /\ EndsLast(OnTheWay)'
    BY <1>3 DEF Once, EndsLast, Contents
  <1>7. CallsAgree' /\ LetThrough'
    BY <1>1, <1>2, <1>4, <1>5 DEF Flowing, CallsAgree, LetThrough, ToolTypes
  <1>8. TextFlows'
    BY <1>1, <1>2, <1>4, <1>5 DEF Flowing, TextFlows, Counted
  <1>9. ArgumentsFlow'
    <2>1. ASSUME NEW t \in Tools PROVE Aligned(client'.args[t], 0, sent'.args[t], sent'.tool[t])
      BY <1>1, <1>2, <1>4 DEF Flowing, ArgumentsFlow, Counted
    <2> QED  BY <1>3, <1>5, <2>1 DEF ArgumentsFlow, Counted, ToolTypes
  <1>10. ChatCloses'
    BY <1>1, <1>2, <1>3, <1>4, <1>5 DEF Flowing, ChatCloses, Ordered
  <1>11. OthersClose'
    BY <1>1, <1>2, <1>3, <1>4, <1>5 DEF Flowing, OthersClose, Open
  <1>12. Flowing'
    BY <1>1, <1>2, <1>6, <1>7, <1>8, <1>9, <1>10, <1>11 DEF Flowing
  <1> QED  BY <1>2, <1>12, StopReadingHolds, FlowingOrders DEF IInv

(***************************************************************************)
(* What the readers make of one thing the upstream sends, in more detail.  *)
(***************************************************************************)

\* What s has to carry for w.
Conveys(s, w) ==
  /\ Once(s) /\ EndsLast(s)
  /\ Comes(s, "text.delta") <=> Texts(w)
  /\ Comes(s, "response.completed") <=> Completes(w)
  /\ \A t \in Tools :
       /\ ComesFor(s, "tool_call.started", t) => t = w.tool /\ BeginsTool(w)
       /\ BeginsTool(w) /\ t = w.tool /\ t \notin reader.known => ComesFor(s, "tool_call.started", t)
       /\ ComesFor(s, "tool_call.arguments.delta", t) => t = w.tool /\ Argues(w)
       /\ Argues(w) /\ t = w.tool /\ (t \in reader.known \/ BeginsTool(w)) =>
            ComesFor(s, "tool_call.arguments.delta", t)
  /\ \A i \in DOMAIN s : s[i].type = "tool_call.arguments.delta" => s[i] = Piece(w.tool)

\* The queue of one event, or of none.
LEMMA SingleConveys ==
  ASSUME TypeOK, upstream # "chat", NEW w \in Wire(upstream)
  PROVE  Conveys(Events(w), w) /\ Len(Events(w)) <= 1 /\ Events(w) \in Seq(AnEvent)
  <1>1. Events(w) \in Seq(AnEvent)
    <2>1. Yield(w) \subseteq AnEvent
      BY DEF Yield
    <2>2. PICK s : s = Events(w)
      OBVIOUS
    <2>3. s \in Seq(Yield(w))
      BY <2>2, Yields
    <2> QED  BY <2>1, <2>2, <2>3
  <1>2. /\ w.parts = {} /\ (w.tool \in Tools \/ w.kind \notin ToolKinds)
        /\ w.kind \in ToolKinds => w.tool \in Tools
    BY WireType DEF TypeOK
  <1> DEFINE S == Events(w)
  <1>3. S = <<>> \/ \E e : S = <<e>>
    BY DEF Events, MessagesEvents, ResponsesEvents, CommonEvents, When, TypeOK, Protocols
  <1>4. CASE S = <<>>
    <2>1. w.kind \notin {"text", "complete", "toolBegin", "toolArgs"}
      <3>1. S # <<>> \/ w.kind \notin {"text", "complete", "toolBegin", "toolArgs"}
        BY DEF Events, MessagesEvents, ResponsesEvents, CommonEvents, When, TypeOK, Protocols
      <3> QED  BY <1>4, <3>1
    <2> QED
      BY <1>1, <1>2, <1>4, <2>1
      DEF Conveys, Once, EndsLast, Comes, ComesFor, Texts, Completes, BeginsTool, Argues
  <1>5. CASE \E e : S = <<e>>
    <2>1. PICK e : S = <<e>>
      BY <1>5
    <2>2. DOMAIN S = {1} /\ Len(S) = 1 /\ S[1] = e
      BY <2>1
    <2>3. /\ e.type = "text.delta" <=> w.kind = "text"
          /\ e.type = "response.completed" <=> w.kind = "complete"
          /\ e.type = "tool_call.started" <=> w.kind = "toolBegin"
          /\ e.type = "tool_call.arguments.delta" <=> w.kind = "toolArgs" /\ w.tool \in reader.known
          /\ e.type \in {"tool_call.started", "tool_call.arguments.delta"} => e.tool = w.tool
          /\ e.type = "tool_call.arguments.delta" => e = Piece(w.tool)
      <3>1. CASE S = CommonEvents(w)
        <4>1. CommonEvents(w) = <<e>>
          BY <2>1, <3>1
        <4> HIDE DEF S
        <4>2. \/ w.kind = "begin" /\ e = Started
              \/ w.kind = "text" /\ e = Event("text.delta")
              \/ w.kind = "toolBegin" /\ e = ToolEvent("tool_call.started", w.tool)
              \/ w.kind = "toolArgs" /\ w.tool \in reader.known /\ e = Piece(w.tool)
              \/ w.kind = "toolArgs" /\ w.tool \notin reader.known /\ e = Broken
              \/ w.kind = "complete" /\ e = Completed
              \/ w.kind = "error" /\ e = Failed
          BY <4>1 DEF CommonEvents
        <4> QED  BY <4>2 DEF Started, Completed, Failed, Broken, Event, ToolEvent, Piece
      <3>2. CASE S # CommonEvents(w)
        <4>1. /\ w.kind \in {"toolDone", "inProgress", "textDone", "toolArgsDone"}
              /\ e \in {ToolEvent("tool_call.completed", w.tool), Started, Event("text.completed")}
          BY <2>1, <3>2 DEF Events, MessagesEvents, ResponsesEvents, When, TypeOK, Protocols
        <4> HIDE DEF S
        <4> QED  BY <4>1 DEF Started, Event, ToolEvent
      <3> QED  BY <3>1, <3>2
    <2>4. \A type : Comes(S, type) <=> e.type = type
      BY <2>2 DEF Comes
    <2>5. \A type, t : ComesFor(S, type, t) <=> e.type = type /\ e.tool = t
      BY <2>2 DEF ComesFor
    <2>6. Once(S) /\ EndsLast(S)
      BY <2>2 DEF Once, EndsLast
    <2>7. ASSUME NEW t \in Tools
          PROVE  /\ ComesFor(S, "tool_call.started", t) => t = w.tool /\ BeginsTool(w)
                 /\ BeginsTool(w) /\ t = w.tool => ComesFor(S, "tool_call.started", t)
                 /\ ComesFor(S, "tool_call.arguments.delta", t) => t = w.tool /\ Argues(w)
                 /\ Argues(w) /\ t = w.tool /\ (t \in reader.known \/ BeginsTool(w)) =>
                      ComesFor(S, "tool_call.arguments.delta", t)
      BY <1>2, <2>3, <2>5 DEF BeginsTool, Argues
    <2>8. /\ Comes(S, "text.delta") <=> Texts(w)
          /\ Comes(S, "response.completed") <=> Completes(w)
      BY <1>2, <2>3, <2>4 DEF Texts, Completes
    <2> HIDE DEF S
    <2>9. Conveys(S, w)
      BY <2>2, <2>3, <2>6, <2>7, <2>8 DEF Conveys
    <2> QED  BY <1>1, <2>2, <2>9 DEF S
  <1> QED  BY <1>3, <1>4, <1>5

\* A queue made of two.
LEMMA ConcatComes ==
  ASSUME NEW s \in Seq(AnEvent), NEW r \in Seq(AnEvent)
  PROVE  /\ \A type : Comes(s \o r, type) <=> Comes(s, type) \/ Comes(r, type)
         /\ \A type, t : ComesFor(s \o r, type, t) <=> ComesFor(s, type, t) \/ ComesFor(r, type, t)
  <1> DEFINE q == s \o r
  <1>1. /\ \A i \in DOMAIN s : i \in DOMAIN q /\ q[i] = s[i]
        /\ \A i \in DOMAIN r : i + Len(s) \in DOMAIN q /\ q[i + Len(s)] = r[i]
        /\ \A i \in DOMAIN q :
             \/ i \in DOMAIN s /\ q[i] = s[i]
             \/ i - Len(s) \in DOMAIN r /\ q[i] = r[i - Len(s)]
    BY ConcatElements
  <1> HIDE DEF q
  <1>2. \A type : Comes(q, type) <=> Comes(s, type) \/ Comes(r, type)
    BY <1>1 DEF Comes
  <1>3. \A type, t : ComesFor(q, type, t) <=> ComesFor(s, type, t) \/ ComesFor(r, type, t)
    BY <1>1 DEF ComesFor
  <1> QED  BY <1>2, <1>3 DEF q

LEMMA ConcatTidy ==
  ASSUME NEW s \in Seq(AnEvent), NEW r \in Seq(AnEvent), Once(s), Once(r),
         \A type \in Contents : ~Comes(s, type) \/ ~Comes(r, type)
  PROVE  /\ Once(s \o r)
         /\ ~Comes(s, "response.completed") /\ EndsLast(r) => EndsLast(s \o r)
  <1> DEFINE q == s \o r
  <1>1. /\ \A i \in DOMAIN q :
             \/ i \in DOMAIN s /\ q[i] = s[i]
             \/ i - Len(s) \in DOMAIN r /\ q[i] = r[i - Len(s)]
        /\ Len(q) = Len(s) + Len(r)
    BY ConcatElements
  <1>2. Len(s) \in Nat /\ Len(r) \in Nat /\ \A i \in DOMAIN q : i \in Nat
    OBVIOUS
  <1> HIDE DEF q
  <1>3. Once(q)
    <2> SUFFICES ASSUME NEW i \in DOMAIN q, NEW j \in DOMAIN q,
                        q[i].type = q[j].type, q[i].type \in Contents
                 PROVE  i = j
      BY DEF Once
    <2>1. \/ i \in DOMAIN s /\ j \in DOMAIN s /\ q[i] = s[i] /\ q[j] = s[j]
          \/ /\ i - Len(s) \in DOMAIN r /\ j - Len(s) \in DOMAIN r
             /\ q[i] = r[i - Len(s)] /\ q[j] = r[j - Len(s)]
      BY <1>1 DEF Comes
    <2>2. i = j \/ i - Len(s) = j - Len(s)
      BY <2>1 DEF Once
    <2> QED  BY <1>2, <2>2
  <1>4. ~Comes(s, "response.completed") /\ EndsLast(r) => EndsLast(q)
    BY <1>1, <1>2 DEF Comes, EndsLast
  <1> QED  BY <1>3, <1>4 DEF q

LEMMA WhenComes ==
  ASSUME NEW e \in AnEvent, NEW c \in BOOLEAN
  PROVE  LET s == When(c, <<e>>)
         IN  /\ s \in Seq(AnEvent) /\ Once(s)
             /\ \A type : Comes(s, type) <=> c /\ e.type = type
             /\ \A type, t : ComesFor(s, type, t) <=> c /\ e.type = type /\ e.tool = t
             /\ \A i \in DOMAIN s : s[i] = e
  <1>1. CASE c
    <2>1. PICK s : s = When(c, <<e>>)
      OBVIOUS
    <2>2. s = <<e>> /\ DOMAIN s = {1} /\ s[1] = e /\ s \in Seq(AnEvent)
      BY <1>1, <2>1 DEF When
    <2>3. Once(s) /\ \A i \in DOMAIN s : s[i] = e
      BY <2>2 DEF Once
    <2>4. \A type : Comes(s, type) <=> e.type = type
      BY <2>2 DEF Comes
    <2>5. \A type, t : ComesFor(s, type, t) <=> e.type = type /\ e.tool = t
      BY <2>2 DEF ComesFor
    <2> QED  BY <1>1, <2>1, <2>2, <2>3, <2>4, <2>5
  <1>2. CASE ~c
    BY <1>2 DEF When, Once, Comes, ComesFor
  <1> QED  BY <1>1, <1>2

\* The part of a chunk before its end.
Opening(w) ==
  When(Starts(w), <<Started>>) \o When("text" \in w.parts, <<Event("text.delta")>>) \o ToolCallEvents(w)

LEMMA OpeningConveys ==
  ASSUME TypeOK, upstream = "chat", NEW w \in Wire(upstream)
  PROVE  LET s == Opening(w)
         IN  /\ s \in Seq(AnEvent) /\ Once(s)
             /\ Comes(s, "text.delta") <=> "text" \in w.parts
             /\ ~Comes(s, "response.completed") /\ ~Comes(s, "tool_call.completed")
             /\ \A t : ComesFor(s, "tool_call.started", t) <=> Introduced(w) /\ t = w.tool
             /\ \A t : ComesFor(s, "tool_call.arguments.delta", t) <=>
                  "args" \in w.parts /\ (Introduced(w) \/ w.tool \in reader.known) /\ t = w.tool
             /\ \A i \in DOMAIN s : s[i].type = "tool_call.arguments.delta" => s[i] = Piece(w.tool)
  <1> DEFINE a == When(Starts(w), <<Started>>)
             b == When("text" \in w.parts, <<Event("text.delta")>>)
             c == When(Introduced(w), <<ToolEvent("tool_call.started", w.tool)>>)
             d == When("args" \in w.parts /\ (Introduced(w) \/ w.tool \in reader.known), <<Piece(w.tool)>>)
  <1>1. "id" \in w.parts \/ "args" \in w.parts => w.tool \in Tools
    BY WireType DEF TypeOK, BeginsTool, Argues
  <1>2. Started \in AnEvent /\ Event("text.delta") \in AnEvent
    BY EventType DEF Started, PlainTypes
  <1>3. /\ a \in Seq(AnEvent) /\ Once(a)
        /\ \A type : Comes(a, type) <=> Starts(w) /\ type = "response.started"
        /\ \A type, t : ComesFor(a, type, t) => type = "response.started"
        /\ \A i \in DOMAIN a : a[i].type # "tool_call.arguments.delta"
    <2>1. Starts(w) \in BOOLEAN
      BY DEF Starts
    <2> QED  BY <1>2, <2>1, WhenComes DEF Started, Event
  <1>4. /\ b \in Seq(AnEvent) /\ Once(b)
        /\ \A type : Comes(b, type) <=> "text" \in w.parts /\ type = "text.delta"
        /\ \A type, t : ComesFor(b, type, t) => type = "text.delta"
        /\ \A i \in DOMAIN b : b[i].type # "tool_call.arguments.delta"
    <2>1. ("text" \in w.parts) \in BOOLEAN
      OBVIOUS
    <2> QED  BY <1>2, <2>1, WhenComes DEF Event
  <1>5. /\ c \in Seq(AnEvent) /\ Once(c)
        /\ \A type : Comes(c, type) <=> Introduced(w) /\ type = "tool_call.started"
        /\ \A type, t : ComesFor(c, type, t) <=> Introduced(w) /\ type = "tool_call.started" /\ t = w.tool
        /\ \A i \in DOMAIN c : c[i].type # "tool_call.arguments.delta"
    <2>1. CASE Introduced(w)
      <3>1. ToolEvent("tool_call.started", w.tool) \in AnEvent
        BY <1>1, <2>1, ToolEventType DEF Introduced, ToolTypes
      <3> QED  BY <2>1, <3>1, WhenComes DEF ToolEvent
    <2>2. CASE ~Introduced(w)
      BY <2>2 DEF When, Once, Comes, ComesFor
    <2> QED  BY <2>1, <2>2
  <1>6. /\ d \in Seq(AnEvent) /\ Once(d)
        /\ \A type : Comes(d, type) <=>
             "args" \in w.parts /\ (Introduced(w) \/ w.tool \in reader.known) /\ type = "tool_call.arguments.delta"
        /\ \A type, t : ComesFor(d, type, t) <=>
             /\ "args" \in w.parts /\ (Introduced(w) \/ w.tool \in reader.known)
             /\ type = "tool_call.arguments.delta" /\ t = w.tool
        /\ \A i \in DOMAIN d : d[i] = Piece(w.tool)
    <2> DEFINE given == "args" \in w.parts /\ (Introduced(w) \/ w.tool \in reader.known)
    <2>1. CASE given
      <3>1. Piece(w.tool) \in AnEvent
        BY <1>1, <2>1, PieceType
      <3> QED  BY <2>1, <3>1, WhenComes DEF Piece
    <2>2. CASE ~given
      BY <2>2 DEF When, Once, Comes, ComesFor
    <2> QED  BY <2>1, <2>2
  <1> HIDE DEF a, b, c, d
  <1>7. /\ a \o b \in Seq(AnEvent) /\ Once(a \o b)
        /\ \A type : Comes(a \o b, type) <=> Comes(a, type) \/ Comes(b, type)
        /\ \A type, t : ComesFor(a \o b, type, t) <=> ComesFor(a, type, t) \/ ComesFor(b, type, t)
        /\ \A i \in DOMAIN (a \o b) : (a \o b)[i].type # "tool_call.arguments.delta"
    BY <1>3, <1>4, ConcatComes, ConcatTidy, ConcatElements DEF Contents
  <1>8. /\ c \o d \in Seq(AnEvent) /\ Once(c \o d)
        /\ \A type : Comes(c \o d, type) <=> Comes(c, type) \/ Comes(d, type)
        /\ \A type, t : ComesFor(c \o d, type, t) <=> ComesFor(c, type, t) \/ ComesFor(d, type, t)
        /\ \A i \in DOMAIN (c \o d) :
             (c \o d)[i].type = "tool_call.arguments.delta" => (c \o d)[i] = Piece(w.tool)
    BY <1>5, <1>6, ConcatComes, ConcatTidy, ConcatElements DEF Contents
  <1> DEFINE x == a \o b
             y == c \o d
  <1>9. Opening(w) = x \o y
    BY DEF Opening, ToolCallEvents, a, b, c, d
  <1> HIDE DEF x, y
  <1>10. /\ x \in Seq(AnEvent) /\ Once(x) /\ y \in Seq(AnEvent) /\ Once(y)
         /\ \A type : Comes(x, type) => type \in {"response.started", "text.delta"}
         /\ \A type, t : ComesFor(x, type, t) => type \in {"response.started", "text.delta"}
         /\ Comes(x, "text.delta") <=> "text" \in w.parts
         /\ \A i \in DOMAIN x : x[i].type # "tool_call.arguments.delta"
    BY <1>3, <1>4, <1>7, <1>8 DEF x, y
  <1>11. /\ \A type : Comes(y, type) => type \in {"tool_call.started", "tool_call.arguments.delta"}
         /\ \A t : ComesFor(y, "tool_call.started", t) <=> Introduced(w) /\ t = w.tool
         /\ \A t : ComesFor(y, "tool_call.arguments.delta", t) <=>
              "args" \in w.parts /\ (Introduced(w) \/ w.tool \in reader.known) /\ t = w.tool
         /\ \A i \in DOMAIN y : y[i].type = "tool_call.arguments.delta" => y[i] = Piece(w.tool)
    BY <1>5, <1>6, <1>8 DEF y
  <1>12. /\ x \o y \in Seq(AnEvent) /\ Once(x \o y)
         /\ \A type : Comes(x \o y, type) <=> Comes(x, type) \/ Comes(y, type)
         /\ \A type, t : ComesFor(x \o y, type, t) <=> ComesFor(x, type, t) \/ ComesFor(y, type, t)
         /\ \A i \in DOMAIN (x \o y) :
              (x \o y)[i].type = "tool_call.arguments.delta" => (x \o y)[i] = Piece(w.tool)
    BY <1>10, <1>11, ConcatComes, ConcatTidy, ConcatElements DEF Contents
  <1> DEFINE s == x \o y
  <1> HIDE DEF s
  <1>13. Comes(s, "text.delta") <=> "text" \in w.parts
    BY <1>10, <1>11, <1>12 DEF s
  <1>14. ~Comes(s, "response.completed") /\ ~Comes(s, "tool_call.completed")
    BY <1>10, <1>11, <1>12 DEF s
  <1>15. \A t : ComesFor(s, "tool_call.started", t) <=> Introduced(w) /\ t = w.tool
    BY <1>10, <1>11, <1>12 DEF s
  <1>16. \A t : ComesFor(s, "tool_call.arguments.delta", t) <=>
            "args" \in w.parts /\ (Introduced(w) \/ w.tool \in reader.known) /\ t = w.tool
    BY <1>10, <1>11, <1>12 DEF s
  <1> QED  BY <1>9, <1>12, <1>13, <1>14, <1>15, <1>16 DEF s

\* The order has the calls it had and the one that is introduced.
LEMMA NamedLast ==
  ASSUME TypeOK, upstream = "chat", NEW w \in Wire(upstream)
  PROVE  /\ Introduced(w) => \E k \in DOMAIN CallOrder(w) : CallOrder(w)[k] = w.tool
         /\ \A t \in Tools : Ordered(t) => \E k \in DOMAIN CallOrder(w) : CallOrder(w)[k] = t
  <1>1. reader.order \in Seq(Tools)
    BY DEF TypeOK
  <1>2. Introduced(w) => w.tool \in Tools
    BY WireType DEF TypeOK, Introduced, BeginsTool
  <1>3. CASE Introduced(w)
    <2>0. PICK r : r = <<w.tool>>
      OBVIOUS
    <2>1. r \in Seq(Tools) /\ DOMAIN r = {1} /\ r[1] = w.tool
      BY <1>2, <1>3, <2>0
    <2>2. CallOrder(w) = reader.order \o r
      BY <1>3, <2>0 DEF CallOrder, When
    <2>3. /\ \A i \in DOMAIN reader.order :
                i \in DOMAIN CallOrder(w) /\ CallOrder(w)[i] = reader.order[i]
          /\ \A i \in DOMAIN r : i + Len(reader.order) \in DOMAIN CallOrder(w)
                /\ CallOrder(w)[i + Len(reader.order)] = r[i]
      BY <1>1, <2>1, <2>2, ConcatElements
    <2> QED  BY <2>1, <2>3 DEF Ordered
  <1>4. CASE ~Introduced(w)
    <2>1. CallOrder(w) = reader.order
      BY <1>1, <1>4 DEF CallOrder, When
    <2> QED  BY <1>4, <2>1 DEF Ordered
  <1> QED  BY <1>3, <1>4

LEMMA FinishConveys ==
  ASSUME TypeOK, upstream = "chat", NEW w \in Wire(upstream)
  PROVE  LET s == FinishEvents(w)
         IN  /\ s \in Seq(AnEvent) /\ Once(s) /\ EndsLast(s)
             /\ \A type : Comes(s, type) => type \in {"tool_call.completed", "response.completed"}
             /\ \A type, t : ComesFor(s, type, t) => type \in {"tool_call.completed", "response.completed"}
             /\ Comes(s, "response.completed") <=> "finish" \in w.parts
             /\ \A i \in DOMAIN CallOrder(w) : "finish" \in w.parts =>
                  ComesFor(s, "tool_call.completed", CallOrder(w)[i])
  <1> DEFINE calls == CallOrder(w)
             closed == [i \in DOMAIN calls |-> ToolEvent("tool_call.completed", calls[i])]
             s == closed \o <<Completed>>
  <1>1. calls \in Seq(Tools)
    BY CallOrderType
  <1>2. Completed \in AnEvent /\ Completed.type = "response.completed"
    BY EventType DEF Completed, Event, PlainTypes
  <1>3. /\ closed \in Seq(AnEvent) /\ DOMAIN closed = DOMAIN calls
        /\ \A i \in DOMAIN closed : closed[i].type = "tool_call.completed" /\ closed[i].tool = calls[i]
    <2>1. \A t \in Tools : ToolEvent("tool_call.completed", t) \in AnEvent
      BY ToolEventType DEF ToolTypes
    <2> HIDE DEF calls
    <2>2. closed \in Seq(AnEvent) /\ DOMAIN closed = DOMAIN calls
      BY <1>1, <2>1
    <2> QED  BY <2>2 DEF ToolEvent
  <1> HIDE DEF closed
  <1>4. /\ Once(closed) /\ \A type : Comes(closed, type) => type = "tool_call.completed"
        /\ \A type, t : ComesFor(closed, type, t) => type = "tool_call.completed"
        /\ \A i \in DOMAIN calls : ComesFor(closed, "tool_call.completed", calls[i])
    <2> HIDE DEF calls
    <2> QED  BY <1>3 DEF Once, Contents, Comes, ComesFor
  <1>0. PICK e : e = <<Completed>>
    OBVIOUS
  <1>5. e \in Seq(AnEvent) /\ e[1] = Completed /\ DOMAIN e = {1} /\ Len(e) = 1
    BY <1>0, <1>2
  <1>6. /\ Once(e) /\ EndsLast(e) /\ \A type : Comes(e, type) <=> type = "response.completed"
        /\ \A type, t : ComesFor(e, type, t) => type = "response.completed"
    BY <1>2, <1>5 DEF Once, EndsLast, Contents, Comes, ComesFor
  <1>7. /\ closed \o e \in Seq(AnEvent) /\ Once(closed \o e) /\ EndsLast(closed \o e)
    BY <1>3, <1>4, <1>5, <1>6, ConcatElements, ConcatTidy DEF Contents
  <1>8. /\ \A type : Comes(closed \o e, type) <=> Comes(closed, type) \/ Comes(e, type)
        /\ \A type, t : ComesFor(closed \o e, type, t) <=> ComesFor(closed, type, t) \/ ComesFor(e, type, t)
    BY <1>3, <1>5, ConcatComes
  <1> HIDE DEF calls
  <1>9. CASE "finish" \in w.parts
    <2>1. FinishEvents(w) = closed \o e
      BY <1>0, <1>9 DEF FinishEvents, When, closed, calls
    <2> QED  BY <1>4, <1>6, <1>7, <1>8, <1>9, <2>1 DEF calls
  <1>10. CASE "finish" \notin w.parts
    <2>1. FinishEvents(w) = <<>>
      BY <1>10 DEF FinishEvents, When
    <2> QED  BY <1>10, <2>1 DEF Once, EndsLast, Comes, ComesFor
  <1> QED  BY <1>9, <1>10

LEMMA ChunkConveys ==
  ASSUME TypeOK, upstream = "chat", NEW w \in Wire(upstream)
  PROVE  LET s == Events(w)
         IN  /\ s \in Seq(AnEvent) /\ Conveys(s, w)
             /\ \A i \in DOMAIN s : s[i].type = "tool_call.started" =>
                  /\ Introduced(w) /\ s[i].tool = w.tool
                  /\ "finish" \in w.parts => \E j \in DOMAIN s :
                       j > i /\ s[j].type = "tool_call.completed" /\ s[j].tool = w.tool
             /\ \A i \in DOMAIN CallOrder(w) : "finish" \in w.parts =>
                  ComesFor(s, "tool_call.completed", CallOrder(w)[i])
  <1>1. PICK a \in Seq(AnEvent) :
          /\ a = Opening(w) /\ Once(a)
          /\ Comes(a, "text.delta") <=> "text" \in w.parts
          /\ ~Comes(a, "response.completed") /\ ~Comes(a, "tool_call.completed")
          /\ \A t : ComesFor(a, "tool_call.started", t) <=> Introduced(w) /\ t = w.tool
          /\ \A t : ComesFor(a, "tool_call.arguments.delta", t) <=>
               "args" \in w.parts /\ (Introduced(w) \/ w.tool \in reader.known) /\ t = w.tool
          /\ \A i \in DOMAIN a : a[i].type = "tool_call.arguments.delta" => a[i] = Piece(w.tool)
    BY OpeningConveys
  <1>2. PICK b \in Seq(AnEvent) :
          /\ b = FinishEvents(w) /\ Once(b) /\ EndsLast(b)
          /\ \A type : Comes(b, type) => type \in {"tool_call.completed", "response.completed"}
          /\ \A type, t : ComesFor(b, type, t) => type \in {"tool_call.completed", "response.completed"}
          /\ Comes(b, "response.completed") <=> "finish" \in w.parts
          /\ \A i \in DOMAIN CallOrder(w) : "finish" \in w.parts =>
               ComesFor(b, "tool_call.completed", CallOrder(w)[i])
    BY FinishConveys
  <1>3. PICK s : s = a \o b
    OBVIOUS
  <1>4. Events(w) = s
    BY <1>1, <1>2, <1>3 DEF Events, ChunkEvents, Opening
  <1>5. /\ s \in Seq(AnEvent) /\ Len(s) = Len(a) + Len(b)
        /\ \A i \in DOMAIN b : i + Len(a) \in DOMAIN s /\ s[i + Len(a)] = b[i]
        /\ \A i \in DOMAIN s :
              \/ i \in DOMAIN a /\ s[i] = a[i]
              \/ i - Len(a) \in DOMAIN b /\ s[i] = b[i - Len(a)]
    BY <1>3, ConcatElements
  <1>6. /\ \A type : Comes(s, type) <=> Comes(a, type) \/ Comes(b, type)
        /\ \A type, t : ComesFor(s, type, t) <=> ComesFor(a, type, t) \/ ComesFor(b, type, t)
    BY <1>3, ConcatComes
  <1>7. Once(s) /\ EndsLast(s)
    BY <1>1, <1>2, <1>3, ConcatTidy DEF Contents
  <1>8. /\ w.kind = "chunk"
        /\ BeginsTool(w) <=> "id" \in w.parts
        /\ Argues(w) <=> "args" \in w.parts
        /\ Texts(w) <=> "text" \in w.parts
        /\ Completes(w) <=> "finish" \in w.parts
    BY DEF Wire, Chunk, BeginsTool, Argues, Texts, Completes
  <1>9. \A i \in DOMAIN s : s[i].type \in {"tool_call.started", "tool_call.arguments.delta"} =>
          i \in DOMAIN a /\ s[i] = a[i]
    BY <1>2, <1>5 DEF Comes
  <1>10. Conveys(s, w)
    <2>1. /\ Comes(s, "text.delta") <=> Texts(w)
          /\ Comes(s, "response.completed") <=> Completes(w)
      BY <1>1, <1>2, <1>6, <1>8
    <2>2. ASSUME NEW t \in Tools
          PROVE  /\ ComesFor(s, "tool_call.started", t) <=> Introduced(w) /\ t = w.tool
                 /\ ComesFor(s, "tool_call.arguments.delta", t) <=>
                      "args" \in w.parts /\ (Introduced(w) \/ w.tool \in reader.known) /\ t = w.tool
      BY <1>1, <1>2, <1>6
    <2>3. \A i \in DOMAIN s : s[i].type = "tool_call.arguments.delta" => s[i] = Piece(w.tool)
      BY <1>1, <1>9
    <2> QED  BY <1>7, <1>8, <2>1, <2>2, <2>3 DEF Conveys, Introduced
  <1>11. ASSUME NEW i \in DOMAIN s, s[i].type = "tool_call.started"
         PROVE  /\ Introduced(w) /\ s[i].tool = w.tool
                /\ "finish" \in w.parts => \E j \in DOMAIN s :
                     j > i /\ s[j].type = "tool_call.completed" /\ s[j].tool = w.tool
    <2>1. i \in DOMAIN a /\ s[i] = a[i]
      BY <1>9, <1>11
    <2>2. Introduced(w) /\ s[i].tool = w.tool
      <3>1. ComesFor(a, "tool_call.started", s[i].tool)
        BY <1>11, <2>1 DEF ComesFor
      <3> QED  BY <1>1, <3>1
    <2>3. ASSUME "finish" \in w.parts
          PROVE  \E j \in DOMAIN s : j > i /\ s[j].type = "tool_call.completed" /\ s[j].tool = w.tool
      <3>1. \E k \in DOMAIN CallOrder(w) : CallOrder(w)[k] = w.tool
        BY <2>2, NamedLast
      <3>2. PICK k \in DOMAIN b : b[k].type = "tool_call.completed" /\ b[k].tool = w.tool
        BY <1>2, <2>3, <3>1 DEF ComesFor
      <3>3. k + Len(a) \in DOMAIN s /\ s[k + Len(a)] = b[k]
        BY <1>5
      <3>4. k \in Nat /\ k > 0 /\ i \in Nat /\ i <= Len(a) /\ Len(a) \in Nat
        BY <2>1
      <3>5. k + Len(a) > i
        BY <3>4
      <3> QED  BY <3>2, <3>3, <3>5
    <2> QED  BY <2>2, <2>3
  <1>12. \A i \in DOMAIN CallOrder(w) : "finish" \in w.parts =>
            ComesFor(s, "tool_call.completed", CallOrder(w)[i])
    BY <1>2, <1>6
  <1> QED  BY <1>4, <1>5, <1>10, <1>11, <1>12

LEMMA AlignedNext ==
  ASSUME NEW s \in Seq(Nat), NEW n \in Nat, NEW old, NEW state, Aligned(s, 0, n, old),
         state # "late" => old # "late"
  PROVE  Aligned(s, 1, n + 1, state)
  <1>1. state # "late" => Len(s) + 1 = n + 1
    BY DEF Aligned
  <1>2. ASSUME NEW i \in DOMAIN s PROVE s[i] + (Len(s) - i) + 1 = n + 1
    <2>1. PICK a, l, x \in Nat : a = s[i] /\ l = Len(s) /\ x = i
      OBVIOUS
    <2>2. a + (l - x) + 0 = n
      BY <2>1 DEF Aligned
    <2> QED  BY <2>1, <2>2
  <1> QED  BY <1>1, <1>2 DEF Aligned

\* The tool calls of the upstream after w.
LEMMA SentMoves ==
  ASSUME TypeOK, NEW w \in Wire(upstream), NEW t \in Tools
  PROVE  LET s == ToolAfter(w, t)
         IN  /\ s = "none" => sent.tool[t] = "none" /\ (t = w.tool => ~BeginsTool(w) /\ ~Argues(w))
             /\ s \notin {"none", "late"} =>
                  sent.tool[t] \notin {"none", "late"} \/ (t = w.tool /\ BeginsTool(w))
             /\ s # "late" => sent.tool[t] # "late"
             /\ sent.tool[t] # "none" => s # "none"
             /\ t = w.tool /\ BeginsTool(w) => s # "none"
             /\ t = w.tool /\ Argues(w) /\ s # "late" => BeginsTool(w) \/ sent.tool[t] \notin {"none", "late"}
  BY DEF ToolAfter, Open, TypeOK

LEMMA CallEnds ==
  ASSUME TypeOK, upstream # "chat", NEW w \in Wire(upstream), NEW t \in Tools,
         Open(t), t \in reader.known,
         ToolAfter(w, t) \in {"argsDone", "finished"}, ToolAfter(w, t) # sent.tool[t]
  PROVE  ComesFor(Events(w), "tool_call.completed", t)
  <1>1. w.parts = {}
    BY WireType DEF TypeOK
  <1>2. t = w.tool /\ (w.kind = "toolDone" \/ (w.kind = "toolArgsDone" /\ sent.args[t] # 0))
    BY <1>1 DEF ToolAfter, Open, BeginsTool
  <1>3. w.kind = "toolArgsDone" => upstream = "responses"
    BY DEF Wire, Simple, OfTool, TypeOK, Protocols
  <1>4. Events(w) = <<ToolEvent("tool_call.completed", t)>>
    BY <1>2, <1>3 DEF Events, MessagesEvents, ResponsesEvents, When, TypeOK, Protocols
  <1>5. PICK s : s = Events(w)
    OBVIOUS
  <1>6. 1 \in DOMAIN s /\ s[1] = ToolEvent("tool_call.completed", t)
    BY <1>4, <1>5
  <1> QED  BY <1>5, <1>6 DEF ComesFor, ToolEvent

LEMMA ReceiveFlows ==
  ASSUME IInv, Flow, NEW w \in Wire(upstream), Receive(w)
  PROVE  Flow'
  <1>1. /\ pc = "reading" /\ pc' = "reading" /\ pending = <<>> /\ pending' = Events(w)
        /\ UNCHANGED <<upstream, conforming, inbound, seq, event, client>>
    BY DEF Receive, Reading, protocols
  <1>0. sent' = SentAfter(w) /\ reader' = ReaderAfter(w)
    BY DEF Receive
  <1>2. Live /\ Flowing /\ OnTheWay = <<>> /\ Live' /\ OnTheWay' = Events(w)
    BY <1>1 DEF Flow, Live, OnTheWay
  <1>3. PICK s : s = Events(w)
    OBVIOUS
  <1>4. OnTheWay' = s /\ s \in Seq(AnEvent) /\ Conveys(s, w) /\ TypeOK
    BY <1>2, <1>3, SingleConveys, ChunkConveys DEF IInv
  <1>5. /\ \A type, t : ~ComesFor(OnTheWay, type, t)
        /\ \A type : ~Comes(OnTheWay, type)
    BY <1>2 DEF ComesFor, Comes
  <1>6. /\ sent'.text = sent.text + Counted(Texts(w))
        /\ \A t \in Tools : sent'.tool[t] = ToolAfter(w, t)
        /\ \A t \in Tools : t = w.tool /\ Argues(w) => sent'.args[t] = sent.args[t] + 1
        /\ \A t \in Tools : t # w.tool \/ ~Argues(w) => sent'.args[t] = sent.args[t]
    <2>1. sent'.text = sent.text + Counted(Texts(w))
      BY <1>0, <1>4 DEF SentAfter, TypeOK, Counted
    <2>2. \A t \in Tools : sent'.tool[t] = ToolAfter(w, t)
      BY <1>0 DEF SentAfter
    <2>3. \A t \in Tools :
             sent'.args[t] = IF t = w.tool /\ Argues(w) THEN sent.args[t] + 1 ELSE sent.args[t]
      BY <1>0 DEF SentAfter
    <2> QED  BY <2>1, <2>2, <2>3
  <1>7. /\ \A t \in Tools : t \in reader'.known <=> t \in reader.known \/ (BeginsTool(w) /\ t = w.tool)
        /\ reader'.order = IF "finish" \in w.parts THEN <<>> ELSE CallOrder(w)
    <2>1. reader'.known = reader.known \cup (IF BeginsTool(w) THEN {w.tool} ELSE {})
      BY <1>0 DEF ReaderAfter
    <2>2. reader'.order = IF "finish" \in w.parts THEN <<>> ELSE CallOrder(w)
      BY <1>0 DEF ReaderAfter
    <2> QED  BY <2>1, <2>2
  <1>8. CallsAgree'
    <2>1. ASSUME NEW t \in Tools
          PROVE  /\ t \in reader'.known => sent'.tool[t] # "none"
                 /\ sent'.tool[t] \notin {"none", "late"} => t \in reader'.known
                 /\ sent'.tool[t] = "none" => sent'.args[t] = 0
      <3>1. /\ t \in reader.known => sent.tool[t] # "none"
            /\ sent.tool[t] \notin {"none", "late"} => t \in reader.known
            /\ sent.tool[t] = "none" => sent.args[t] = 0
        BY <1>2 DEF Flowing, CallsAgree
      <3> QED  BY <1>4, <1>6, <1>7, <3>1, SentMoves
    <2>2. ASSUME NEW t \in Tools
          PROVE  /\ t \in reader'.known => client.tool[t] # "none" \/ ComesFor(s, "tool_call.started", t)
                 /\ ComesFor(s, "tool_call.started", t) => t \in reader'.known
                 /\ seq.tool[t] # "none" => t \in reader'.known
                 /\ seq.tool[t] # "none" => client.tool[t] # "none"
      BY <1>1, <1>2, <1>4, <1>5, <1>7 DEF Flowing, CallsAgree, Conveys
    <2>3. ASSUME NEW t \in Tools
          PROVE  /\ client.tool[t] # "none" => seq.tool[t] # "none"
                 /\ client.args[t] # <<>> => client.tool[t] # "none"
      BY <1>2 DEF Flowing, CallsAgree
    <2> QED  BY <1>1, <1>4, <2>1, <2>2, <2>3 DEF CallsAgree
  <1>9. LetThrough'
    BY <1>1 DEF LetThrough
  <1>10. TextFlows'
    <2>1. client.text + 0 = sent.text /\ client.text \in Nat /\ sent.text \in Nat
      BY <1>2, <1>4, <1>5 DEF Flowing, TextFlows, Counted, TypeOK
    <2>2. Comes(s, "text.delta") <=> Texts(w)
      BY <1>4 DEF Conveys
    <2> QED  BY <1>1, <1>4, <1>6, <2>1, <2>2 DEF TextFlows, Counted
  <1>11. ArgumentsFlow'
    <2>1. ASSUME NEW i \in DOMAIN s, s[i].type = "tool_call.arguments.delta"
          PROVE  s[i].piece = sent'.args[s[i].tool]
      <3>1. s[i] = Piece(w.tool) /\ s[i] \in AnEvent
        BY <1>4, <2>1 DEF Conveys
      <3>2. s[i].tool = w.tool /\ s[i].piece = sent.args[w.tool] + 1 /\ w.tool \in Tools
        BY <3>1, <2>1 DEF Piece, AnEvent, PlainTypes
      <3>3. ComesFor(s, "tool_call.arguments.delta", w.tool)
        BY <2>1, <3>2 DEF ComesFor
      <3>4. Argues(w)
        BY <1>4, <3>2, <3>3 DEF Conveys
      <3> QED  BY <1>6, <3>2, <3>4
    <2>2. ASSUME NEW t \in Tools
          PROVE  Aligned(client.args[t], Counted(ComesFor(s, "tool_call.arguments.delta", t)),
                         sent'.args[t], sent'.tool[t])
      <3>1. /\ Aligned(client.args[t], 0, sent.args[t], sent.tool[t])
            /\ client.args[t] # <<>> => t \in reader.known
            /\ sent.tool[t] \notin {"none", "late"} => t \in reader.known
        BY <1>2, <1>5 DEF Flowing, ArgumentsFlow, Counted, CallsAgree
      <3>2. client.args[t] \in Seq(Nat) /\ sent.args[t] \in Nat
        BY <1>4 DEF TypeOK
      <3>3. CASE t = w.tool /\ Argues(w) /\ ComesFor(s, "tool_call.arguments.delta", t)
        <4>1. sent'.args[t] = sent.args[t] + 1 /\ (sent'.tool[t] # "late" => sent.tool[t] # "late")
          BY <1>4, <1>6, <3>3, SentMoves
        <4> QED  BY <3>1, <3>2, <3>3, <4>1, AlignedNext DEF Counted
      <3>4. CASE t = w.tool /\ Argues(w) /\ ~ComesFor(s, "tool_call.arguments.delta", t)
        <4>1. t \notin reader.known /\ ~BeginsTool(w)
          BY <1>4, <3>4 DEF Conveys
        <4>2. sent'.tool[t] = "late"
          BY <1>4, <1>6, <3>1, <3>4, <4>1, SentMoves
        <4>3. client.args[t] = <<>>
          BY <3>1, <4>1
        <4> QED  BY <4>2, <4>3 DEF Aligned
      <3>5. CASE t # w.tool \/ ~Argues(w)
        <4>1. ~ComesFor(s, "tool_call.arguments.delta", t)
          BY <1>4, <3>5 DEF Conveys
        <4>2. sent'.args[t] = sent.args[t] /\ (sent'.tool[t] # "late" => sent.tool[t] # "late")
          BY <1>4, <1>6, <3>5, SentMoves
        <4> QED  BY <3>1, <4>1, <4>2 DEF Counted, Aligned
      <3> QED  BY <3>3, <3>4, <3>5
    <2> QED  BY <1>1, <1>4, <2>1, <2>2 DEF ArgumentsFlow, Counted
  <1>12. ChatCloses'
    <2> SUFFICES ASSUME upstream = "chat" PROVE ChatCloses'
      BY <1>1 DEF ChatCloses
    <2>1. /\ \A i \in DOMAIN s : s[i].type = "tool_call.started" =>
               /\ Introduced(w) /\ s[i].tool = w.tool
               /\ "finish" \in w.parts => \E j \in DOMAIN s :
                    j > i /\ s[j].type = "tool_call.completed" /\ s[j].tool = w.tool
          /\ \A i \in DOMAIN CallOrder(w) : "finish" \in w.parts =>
               ComesFor(s, "tool_call.completed", CallOrder(w)[i])
      BY <1>3, <1>4, ChunkConveys
    <2>2. \A t \in Tools : client.tool[t] = "open" /\ inbound # "chat" => Ordered(t)
      BY <1>2, <1>5 DEF Flowing, ChatCloses
    <2>3. w.kind = "chunk"
      BY DEF Wire, Chunk
    <2>4. Comes(s, "response.completed") => reader'.order = <<>>
      BY <1>4, <1>7, <2>3 DEF Conveys, Completes
    <2>5. CASE "finish" \in w.parts
      <3>1. \A t \in Tools : client.tool[t] = "open" /\ inbound # "chat" =>
               ComesFor(s, "tool_call.completed", t)
        BY <1>4, <2>1, <2>2, <2>5, NamedLast
      <3> QED  BY <1>1, <1>4, <2>1, <2>4, <2>5, <3>1 DEF ChatCloses
    <2>6. CASE "finish" \notin w.parts
      <3>1. reader'.order = CallOrder(w)
        BY <1>7, <2>6
      <3>2. \A t \in Tools : client.tool[t] = "open" /\ inbound # "chat" => Ordered(t)'
        BY <1>4, <2>2, <3>1, NamedLast DEF Ordered
      <3>3. \A i \in DOMAIN s : s[i].type = "tool_call.started" =>
               \E k \in DOMAIN reader'.order : reader'.order[k] = s[i].tool
        BY <1>4, <2>1, <3>1, NamedLast
      <3> QED  BY <1>1, <1>4, <2>4, <3>2, <3>3 DEF ChatCloses, Ordered
    <2> QED  BY <2>5, <2>6
  <1>13. OthersClose'
    <2> SUFFICES ASSUME upstream # "chat" PROVE OthersClose'
      BY <1>1 DEF OthersClose
    <2>1. Len(s) <= 1
      BY <1>3, <1>4, SingleConveys
    <2>2. w.parts = {} /\ w.tool \in Tools \cup {NoTool}
      BY <1>4, WireType DEF TypeOK
    <2>3. ASSUME inbound # "chat", NEW t \in Tools, sent'.tool[t] \in {"argsDone", "finished"}
          PROVE  client.tool[t] = "closed" \/ ComesFor(s, "tool_call.completed", t)
      <3>1. CASE sent'.tool[t] = sent.tool[t]
        BY <1>2, <1>5, <2>3, <3>1 DEF Flowing, OthersClose
      <3>2. CASE sent'.tool[t] # sent.tool[t] /\ ~Open(t)
        <4>1. FALSE
          BY <1>6, <2>2, <2>3, <3>2 DEF ToolAfter, Open, Completes, BeginsTool
        <4> QED  BY <4>1
      <3>3. CASE sent'.tool[t] # sent.tool[t] /\ Open(t)
        <4>1. t \in reader.known
          BY <1>2, <3>3 DEF Flowing, CallsAgree, Open
        <4> QED  BY <1>3, <1>4, <1>6, <2>3, <3>3, <4>1, CallEnds
      <3> QED  BY <3>1, <3>2, <3>3
    <2>4. ASSUME conforming, NEW t \in Tools
          PROVE  sent'.tool[t] # "late" /\ (Comes(s, "response.completed") => ~Open(t)')
      <3>1. sent.tool[t] # "late" /\ Follows(w)
        <4>1. Follows(w)
          BY <2>4 DEF Receive
        <4>2. OthersClose
          BY <1>2 DEF Flowing
        <4>3. \A u \in Tools : sent.tool[u] # "late"
          BY <2>4, <4>2 DEF OthersClose
        <4> QED  BY <4>1, <4>3
      <3>2. t = w.tool => w.tool # NoTool
        BY NoToolAssumption
      <3>3. sent'.tool[t] # "late"
        BY <1>6, <3>1, <3>2 DEF ToolAfter, Follows
      <3>4. Comes(s, "response.completed") => w.kind = "complete"
        BY <1>4, <2>2 DEF Conveys, Completes
      <3>5. w.kind = "complete" => ~Open(t) /\ w.tool = NoTool
        <4>1. w.kind = "complete" => w.tool = NoTool
          BY <1>4 DEF Wire, Simple, OfTool, TypeOK, Protocols
        <4> QED  BY <3>1, <4>1 DEF Follows
      <3>6. w.kind = "complete" => sent'.tool[t] = sent.tool[t]
        BY <1>6, <2>2, <3>2, <3>5 DEF ToolAfter
      <3> QED  BY <3>3, <3>4, <3>5, <3>6 DEF Open
    <2> QED  BY <1>1, <1>4, <2>1, <2>3, <2>4 DEF OthersClose
  <1>14. Flowing'
    <2>1. Once(OnTheWay)' /\ EndsLast(OnTheWay)'
      BY <1>4 DEF Conveys, Once, EndsLast
    <2>2. client'.ended = "no"
      BY <1>1, <1>2 DEF Flowing
    <2> QED  BY <2>1, <2>2, <1>8, <1>9, <1>10, <1>11, <1>12, <1>13 DEF Flowing
  <1> QED  BY <1>2, <1>14, ReceiveHolds, FlowingOrders DEF IInv

LEMMA InitFlows ==
  ASSUME Init
  PROVE  Flow
  <1>1. /\ pc = "reading" /\ OnTheWay = <<>> /\ sent = NothingSent /\ reader.known = {}
        /\ reader.order = <<>>
        /\ seq.tool = [t \in Tools |-> "none"]
    BY DEF Init, OnTheWay
  <1>2. /\ client.ended = "no" /\ client.text = 0 /\ client.tool = [t \in Tools |-> "none"]
        /\ client.args = [t \in Tools |-> <<>>]
    BY DEF Init
  <1>3. /\ \A type, t : ~ComesFor(OnTheWay, type, t)
        /\ \A type : ~Comes(OnTheWay, type)
        /\ Once(OnTheWay) /\ EndsLast(OnTheWay) /\ Len(OnTheWay) = 0
    BY <1>1 DEF ComesFor, Comes, Once, EndsLast
  <1>4. sent.text = 0 /\ \A t \in Tools : sent.tool[t] = "none" /\ sent.args[t] = 0
    BY <1>1 DEF NothingSent
  <1>5. CallsAgree /\ LetThrough /\ TextFlows
    BY <1>1, <1>2, <1>3, <1>4 DEF CallsAgree, LetThrough, TextFlows, Counted
  <1>6. ArgumentsFlow
    BY <1>1, <1>2, <1>3, <1>4 DEF ArgumentsFlow, Aligned, Counted
  <1>7. ChatCloses /\ OthersClose
    BY <1>1, <1>2, <1>3, <1>4 DEF ChatCloses, OthersClose
  <1> QED
    BY <1>2, <1>3, <1>5, <1>6, <1>7
    DEF Flow, Flowing, ArgumentsInOrder, SuccessIsWhole, ToolsAreClosed

\* What is on its way and what has arrived is what was sent.
THEOREM Flows == Spec => []Flow
  <1>1. Init => IInv /\ Flow
    BY InitHolds, InitFlows
  <1>2. IInv /\ Flow /\ [Next]_vars => IInv' /\ Flow'
    <2> SUFFICES ASSUME IInv, Flow, [Next]_vars PROVE IInv' /\ Flow'
      OBVIOUS
    <2>1. CASE \E w \in Wire(upstream) : Receive(w)
      BY <2>1, ReceiveHolds, ReceiveFlows
    <2>2. CASE UpstreamEnds \/ UpstreamBreaks \/ TimeOut \/ Cancelled
      BY <2>2, StopReadingHolds, StopReadingFlows DEF UpstreamEnds, UpstreamBreaks, TimeOut, Cancelled
    <2>3. CASE Deliver
      BY <2>3, DeliverHolds, DeliverFlows
    <2>4. CASE Encode
      BY <2>4, EncodeHolds, EncodeFlows
    <2>5. CASE ClientGone \/ EncodeFails \/ LogResult \/ UNCHANGED vars
      BY <2>5, OthersHold, OthersFlow
    <2> QED  BY <2>1, <2>2, <2>3, <2>4, <2>5 DEF Next
  <1> QED  BY <1>1, <1>2, PTL DEF Spec

\* Whatever an upstream sends, no piece of arguments arrives twice, late or after a gap.
THEOREM KeepsOrder == Spec => []ArgumentsInOrder
  BY Flows, PTL DEF Flow

\* A client is told of a success only when it has every text, call and piece of it.
THEOREM ArrivesWhole == Spec => []SuccessIsWhole
  BY Flows, PTL DEF Flow

\* No call is left open by an answer of an upstream that keeps to its protocol.
THEOREM ClosesTools == Spec => []ToolsAreClosed
  BY Flows, PTL DEF Flow
=============================================================================
