------------------------------- MODULE Stream -------------------------------
(***************************************************************************)
(* A streaming answer that is converted from the protocol of the upstream  *)
(* to the protocol of the client: streamCrossProtocol in internal/server,  *)
(* the StreamReaders of internal/outbound, the Sequencer of internal/ir    *)
(* and the EncodeStreams of internal/inbound, with an upstream that may    *)
(* send anything, break or stall at any time and a client that may go      *)
(* away, up to the result that is written to the request log.              *)
(*                                                                         *)
(* The handler walks  reading, encoding, reading, ... ended, logged.       *)
(* Texts are counted, reasoning is text, arguments are numbered pieces.    *)
(* Custom tools, whose input a Responses client gets whole, are left out.  *)
(***************************************************************************)
EXTENDS Naturals, Sequences

CONSTANTS
  Tools,       \* tool calls of an answer
  NoTool,
  MaxPieces,   \* bound on the texts, and on the argument pieces of one tool call
  MaxWire      \* bound on what the upstream sends

ASSUME NoToolAssumption == NoTool \notin Tools
ASSUME BoundsAssumption == MaxPieces \in Nat /\ MaxWire \in Nat

VARIABLES
  upstream,  \* the protocol of the upstream
  conforming, \* whether the upstream keeps to it until it breaks
  inbound,   \* the protocol of the client
  sent,      \* history: what the upstream has sent
  reader,    \* StreamReader
  pending,   \* events the reader has parsed and next has not returned yet
  seq,       \* ir.Sequencer
  pc,        \* where the handler is
  event,     \* what next returned, for the encoder
  client,    \* the state of the encoder, and with it what the client was sent
  gone,      \* the client closed its connection: the context of the request has ended
  trace      \* what the request log will say

protocols == <<upstream, conforming, inbound>>
vars == <<protocols, sent, reader, pending, seq, pc, event, client, gone, trace>>

Protocols == {"chat", "messages", "responses"}

(***************************************************************************)
(* What an upstream sends.  A chat chunk has parts; the other protocols    *)
(* send one thing at a time.                                               *)
(***************************************************************************)

Chunk == [kind : {"chunk"}, tool : {NoTool}, parts : SUBSET {"role", "text", "finish"}]
           \cup
         [kind : {"chunk"}, tool : Tools,
          parts : {p \in SUBSET {"role", "finish", "id", "args"} : p \cap {"id", "args"} # {}}]

Simple(kinds) == [kind : kinds, tool : {NoTool}, parts : {{}}]
OfTool(kinds) == [kind : kinds, tool : Tools, parts : {{}}]

Wire(protocol) ==
  CASE protocol = "chat" -> Chunk
    [] protocol = "messages" ->
         Simple({"begin", "text", "complete", "error", "other"})
           \cup OfTool({"toolBegin", "toolArgs", "toolDone"})
    [] protocol = "responses" ->
         Simple({"begin", "inProgress", "text", "textDone", "complete", "error", "other"})
           \cup OfTool({"toolBegin", "toolArgs", "toolArgsDone", "toolDone"})

\* What w says, whatever the protocol.
Begins(w) == w.kind = "begin" \/ "role" \in w.parts
Texts(w) == w.kind = "text" \/ "text" \in w.parts
BeginsTool(w) == w.kind = "toolBegin" \/ "id" \in w.parts
Argues(w) == w.kind = "toolArgs" \/ "args" \in w.parts
Completes(w) == w.kind = "complete" \/ "finish" \in w.parts

Open(t) == sent.tool[t] \in {"open", "argsDone"}

\* A tool call of the upstream after w.  Arguments that come before the id of
\* their call make it a late one, which readers may lose.
ToolAfter(w, t) ==
  CASE t = w.tool /\ sent.tool[t] = "none" /\ Argues(w) /\ ~BeginsTool(w) -> "late"
    [] t = w.tool /\ sent.tool[t] = "none" /\ BeginsTool(w) ->
         IF Completes(w) THEN "finished" ELSE "open"
    [] t = w.tool /\ Open(t) /\ w.kind = "toolArgsDone" /\ sent.args[t] # 0 -> "argsDone"
    [] t = w.tool /\ Open(t) /\ w.kind = "toolDone" -> "finished"
    [] Open(t) /\ "finish" \in w.parts -> "finished"
    [] OTHER -> sent.tool[t]

SentAfter(w) ==
  [count |-> sent.count + 1,
   begun |-> sent.begun \/ Begins(w),
   text  |-> IF Texts(w) THEN sent.text + 1 ELSE sent.text,
   tool  |-> [t \in Tools |-> ToolAfter(w, t)],
   args  |-> [t \in Tools |-> IF t = w.tool /\ Argues(w) THEN sent.args[t] + 1 ELSE sent.args[t]],
   ended |-> IF Completes(w) \/ sent.ended = "completed" THEN "completed"
             ELSE IF w.kind = "error" THEN "failed" ELSE sent.ended]

\* An upstream that keeps to its protocol begins once and first, names a tool call
\* before it sends its arguments, finishes what it began and then completes.
Follows(w) ==
  /\ sent.begun # Begins(w)
  /\ w.kind = "inProgress" => sent.count = 1
  /\ w.tool # NoTool =>
       /\ BeginsTool(w) <=> sent.tool[w.tool] = "none"
       /\ w.kind \in {"toolArgs", "toolArgsDone"} => sent.tool[w.tool] = "open"
       /\ w.kind = "toolDone" =>
            sent.tool[w.tool] = (IF upstream = "responses" /\ sent.args[w.tool] # 0
                                   THEN "argsDone" ELSE "open")
  /\ w.kind = "complete" => \A t \in Tools : ~Open(t)

(***************************************************************************)
(* The readers: unified events (internal/ir), one after another.  broken   *)
(* is an error of the reader, eof the end of its input.                    *)
(***************************************************************************)

Event(type) == [type |-> type, tool |-> NoTool, piece |-> 0]
ToolEvent(type, t) == [type |-> type, tool |-> t, piece |-> 0]
Piece(t) == [type |-> "tool_call.arguments.delta", tool |-> t, piece |-> sent.args[t] + 1]

Started == Event("response.started")
Completed == Event("response.completed")
Failed == Event("error")
Broken == Event("broken")
EOF == Event("eof")

When(condition, events) == IF condition THEN events ELSE <<>>

\* A tool call the chat reader has not seen yet and w gives the id of.
Introduced(w) == "id" \in w.parts /\ w.tool \notin reader.known

\* callOrder with the call that w introduces.
CallOrder(w) == reader.order \o When(Introduced(w), <<w.tool>>)

\* Mutant: the arguments that come with the id of a call are left out.
ToolCallWithoutFirstPiece(w) ==
  When(Introduced(w), <<ToolEvent("tool_call.started", w.tool)>>)
    \o When("args" \in w.parts /\ w.tool \in reader.known, <<Piece(w.tool)>>)

\* openaichat toolCallEvents: arguments of a call whose id is not known are kept back.
ToolCallEvents(w) ==
  When(Introduced(w), <<ToolEvent("tool_call.started", w.tool)>>)
    \o When("args" \in w.parts /\ (Introduced(w) \/ w.tool \in reader.known), <<Piece(w.tool)>>)

\* Mutant: the calls stay open when the answer is finished.
FinishLeavingCallsOpen(w) == When("finish" \in w.parts, <<Completed>>)

\* finishToolCalls, and the end of the answer.
FinishEvents(w) ==
  LET calls == CallOrder(w)
  IN  When("finish" \in w.parts,
           [i \in DOMAIN calls |-> ToolEvent("tool_call.completed", calls[i])] \o <<Completed>>)

\* ensureStarted.
Starts(w) == ~reader.started /\ w.parts \cap {"role", "text", "id", "args"} # {}

ChunkEvents(w) ==
  When(Starts(w), <<Started>>) \o When("text" \in w.parts, <<Event("text.delta")>>)
    \o ToolCallEvents(w) \o FinishEvents(w)

\* parse of the anthropic and openairesponses readers, for what both have.
CommonEvents(w) ==
  CASE w.kind = "begin" -> <<Started>>
    [] w.kind = "text" -> <<Event("text.delta")>>
    [] w.kind = "toolBegin" -> <<ToolEvent("tool_call.started", w.tool)>>
    [] w.kind = "toolArgs" -> IF w.tool \in reader.known THEN <<Piece(w.tool)>> ELSE <<Broken>>
    [] w.kind = "complete" -> <<Completed>>
    [] w.kind = "error" -> <<Failed>>
    [] OTHER -> <<>>

\* Mutant: the end of a call repeats its arguments, as parsing a whole answer does.
MessagesEventsRepeating(w) ==
  IF w.kind = "toolDone"
    THEN When(w.tool \in reader.known,
              <<[Piece(w.tool) EXCEPT !.piece = 1], ToolEvent("tool_call.completed", w.tool)>>)
    ELSE CommonEvents(w)

MessagesEvents(w) ==
  IF w.kind = "toolDone"
    THEN When(w.tool \in reader.known, <<ToolEvent("tool_call.completed", w.tool)>>)
    ELSE CommonEvents(w)

ResponsesEvents(w) ==
  CASE w.kind = "inProgress" -> <<Started>>
    [] w.kind = "textDone" -> <<Event("text.completed")>>
    [] w.kind = "toolArgsDone" ->
         When(w.tool \in reader.known /\ sent.args[w.tool] # 0,
              <<ToolEvent("tool_call.completed", w.tool)>>)
    [] w.kind = "toolDone" -> <<ToolEvent("tool_call.completed", w.tool)>>
    [] OTHER -> CommonEvents(w)

Events(w) ==
  CASE upstream = "chat" -> ChunkEvents(w)
    [] upstream = "messages" -> MessagesEvents(w)
    [] upstream = "responses" -> ResponsesEvents(w)

ReaderAfter(w) ==
  [started |-> reader.started \/ Starts(w),
   known   |-> reader.known \cup (IF BeginsTool(w) THEN {w.tool} ELSE {}),
   order   |-> IF "finish" \in w.parts THEN <<>> ELSE CallOrder(w)]

(***************************************************************************)
(* The sequencer.                                                          *)
(***************************************************************************)

\* requireActive.
Active == seq.started /\ ~seq.completed /\ ~seq.errored

\* Push returns no error.
Accepted(ev) ==
  CASE ev.type = "response.started" -> ~seq.started /\ ~seq.errored
    [] ev.type \in {"text.delta", "text.completed"} -> Active
    [] ev.type = "tool_call.started" -> Active /\ seq.tool[ev.tool] = "none"
    [] ev.type \in {"tool_call.arguments.delta", "tool_call.completed"} ->
         Active /\ seq.tool[ev.tool] = "open"
    [] ev.type = "response.completed" -> Active
    [] ev.type = "error" -> ~seq.completed
    [] OTHER -> FALSE

Pushed(ev) ==
  CASE ev.type = "response.started" -> [seq EXCEPT !.started = TRUE]
    [] ev.type = "tool_call.started" -> [seq EXCEPT !.tool[ev.tool] = "open"]
    [] ev.type = "tool_call.completed" -> [seq EXCEPT !.tool[ev.tool] = "completed"]
    [] ev.type = "response.completed" -> [seq EXCEPT !.completed = TRUE]
    [] ev.type = "error" -> [seq EXCEPT !.errored = TRUE]
    [] OTHER -> seq

(***************************************************************************)
(* Steps of the upstream, the connection and the client.                   *)
(***************************************************************************)

NothingSent ==
  [count |-> 0, begun |-> FALSE, text |-> 0, tool |-> [t \in Tools |-> "none"],
   args |-> [t \in Tools |-> 0], ended |-> "no"]

Init ==
  /\ upstream \in Protocols
  /\ conforming \in BOOLEAN
  /\ inbound \in Protocols \ {upstream}
  /\ sent = NothingSent
  /\ reader = [started |-> FALSE, known |-> {}, order |-> <<>>]
  /\ pending = <<>>
  /\ seq = [started |-> FALSE, completed |-> FALSE, errored |-> FALSE,
            tool |-> [t \in Tools |-> "none"]]
  /\ pc = "reading"
  /\ event = EOF
  /\ client = [begun |-> FALSE, text |-> 0, tool |-> [t \in Tools |-> "none"],
               args |-> [t \in Tools |-> <<>>], ended |-> "no"]
  /\ gone = FALSE
  /\ trace = [failed |-> FALSE, result |-> "none"]

\* The reader waits for the upstream.
Reading == pc = "reading" /\ pending = <<>>

Receive(w) ==
  /\ Reading
  /\ sent.count < MaxWire
  /\ Texts(w) => sent.text < MaxPieces
  /\ Argues(w) => sent.args[w.tool] < MaxPieces
  /\ conforming => Follows(w)
  /\ sent' = SentAfter(w)
  /\ reader' = ReaderAfter(w)
  /\ pending' = Events(w)
  /\ UNCHANGED <<protocols, seq, pc, event, client, gone, trace>>

\* The body ends, or reading it fails: nothing more is read.
StopReading(ev) ==
  /\ Reading
  /\ sent' = [sent EXCEPT !.ended = IF @ = "no" THEN "broken" ELSE @]
  /\ pending' = <<ev>>
  /\ UNCHANGED <<protocols, reader, seq, pc, event, client, gone, trace>>

UpstreamEnds == StopReading(EOF)

UpstreamBreaks == StopReading(Broken)

\* Mutant: the timer guards the first read only.
TimeOutAtStart == sent.count = 0 /\ StopReading(Broken)

\* idleTimeoutReader: every read has a timer of its own.
TimeOut == StopReading(Broken)

\* The context of the request ends, and with it the request to the upstream.
Cancelled == gone /\ StopReading(Broken)

\* The server notices that the client has gone.
ClientGone ==
  /\ pc # "logged"
  /\ ~gone
  /\ gone' = TRUE
  /\ UNCHANGED <<protocols, sent, reader, pending, seq, pc, event, client, trace>>

(***************************************************************************)
(* Steps of the handler.                                                   *)
(***************************************************************************)

\* Mutants: an error of the reader is passed on, or ends the answer.
ReturnedRaw(ev) == IF ev \in {EOF, Broken} \/ Accepted(ev) THEN ev ELSE Failed

ReturnedAsEnd(ev) ==
  IF ev = EOF \/ Accepted(ev) THEN ev ELSE IF ev = Broken THEN Completed ELSE Failed

\* What next returns: an error of the reader and one of the sequencer become an error
\* event of their own.
Returned(ev) == IF ev = EOF \/ Accepted(ev) THEN ev ELSE Failed

\* next.
Deliver ==
  LET ev == Head(pending)
  IN  /\ pc = "reading"
      /\ pending # <<>>
      /\ pending' = Tail(pending)
      /\ seq' = IF Accepted(ev) THEN Pushed(ev) ELSE seq
      /\ event' = Returned(ev)
      /\ pc' = "encoding"
      /\ UNCHANGED <<protocols, sent, reader, client, gone, trace>>

\* The encoders pass over arguments of a call they did not begin; the Responses
\* encoder keeps no record of calls.
AfterArguments(t) ==
  IF inbound = "responses" \/ client.tool[t] # "none"
    THEN [client EXCEPT !.args[t] = Append(@, event.piece)] ELSE client

\* Chat has no event for the end of a tool call.
AfterToolEnd(t) ==
  IF inbound = "responses" \/ (inbound = "messages" /\ client.tool[t] # "none")
    THEN [client EXCEPT !.tool[t] = "closed"] ELSE client

\* Mutant: the end of the input needs no event.
AfterQuietEOF == client

\* A stream that ends without an end event; a Messages client hears of it once it began.
AfterEOF ==
  IF inbound = "messages" /\ ~client.begun THEN client ELSE [client EXCEPT !.ended = "error"]

\* What the client has been sent after event.
ClientAfter ==
  CASE event.type = "response.started" -> [client EXCEPT !.begun = TRUE]
    [] event.type = "text.delta" -> [client EXCEPT !.text = @ + 1]
    [] event.type = "tool_call.started" -> [client EXCEPT !.tool[event.tool] = "open"]
    [] event.type = "tool_call.arguments.delta" -> AfterArguments(event.tool)
    [] event.type = "tool_call.completed" -> AfterToolEnd(event.tool)
    [] event.type = "response.completed" -> [client EXCEPT !.ended = "success"]
    [] event.type = "error" -> [client EXCEPT !.ended = "error"]
    [] event.type = "eof" -> AfterEOF
    [] OTHER -> client

\* EncodeStream returns after these.
Last(ev) == ev.type \in {"response.completed", "error", "eof"}

Encode ==
  /\ pc = "encoding"
  /\ client' = ClientAfter
  /\ pc' = IF Last(event) THEN "ended" ELSE "reading"
  /\ UNCHANGED <<protocols, sent, reader, pending, seq, event, gone, trace>>

\* A write fails because the client has gone, and net/http ends the context with it.
EncodeFails ==
  /\ pc = "encoding"
  /\ ClientAfter # client
  /\ pc' = "ended"
  /\ gone' = TRUE
  /\ trace' = [trace EXCEPT !.failed = TRUE]
  /\ UNCHANGED <<protocols, sent, reader, pending, seq, event, client>>

\* trace.finish.
LogResult ==
  /\ pc = "ended"
  /\ pc' = "logged"
  /\ trace' = [trace EXCEPT !.result = IF gone THEN "cancelled"
                                       ELSE IF trace.failed THEN "failed" ELSE "success"]
  /\ UNCHANGED <<protocols, sent, reader, pending, seq, event, client, gone>>

Next ==
  \/ \E w \in Wire(upstream) : Receive(w)
  \/ UpstreamEnds \/ UpstreamBreaks \/ TimeOut \/ Cancelled \/ ClientGone
  \/ Deliver \/ Encode \/ EncodeFails \/ LogResult

\* The handler runs on, and its timer fires when the upstream stays silent.  Nothing
\* makes the upstream send anything.
Fairness == WF_vars(Deliver) /\ WF_vars(Encode) /\ WF_vars(LogResult) /\ WF_vars(TimeOut)

Spec == Init /\ [][Next]_vars /\ Fairness

(***************************************************************************)
(* Properties.                                                             *)
(***************************************************************************)

PlainTypes ==
  {"response.started", "text.delta", "text.completed", "response.completed", "error", "broken", "eof"}

ToolTypes == {"tool_call.started", "tool_call.arguments.delta", "tool_call.completed"}

AnEvent ==
  [type : PlainTypes, tool : {NoTool}, piece : {0}] \cup [type : ToolTypes, tool : Tools, piece : Nat]

\* Whatever the upstream sends, the handler keeps events it knows how to convert: one
\* of a tool call names the call, and the encoder gets no error of the reader.
TypeOK ==
  /\ upstream \in Protocols
  /\ conforming \in BOOLEAN
  /\ inbound \in Protocols
  /\ sent \in [count : Nat, begun : BOOLEAN, text : Nat,
               tool : [Tools -> {"none", "open", "argsDone", "finished", "late"}],
               args : [Tools -> Nat], ended : {"no", "completed", "failed", "broken"}]
  /\ reader \in [started : BOOLEAN, known : SUBSET Tools, order : Seq(Tools)]
  /\ pending \in Seq(AnEvent)
  /\ seq \in [started : BOOLEAN, completed : BOOLEAN, errored : BOOLEAN,
              tool : [Tools -> {"none", "open", "completed"}]]
  /\ pc \in {"reading", "encoding", "ended", "logged"}
  /\ event \in AnEvent
  /\ event.type # "broken"
  /\ client \in [begun : BOOLEAN, text : Nat, tool : [Tools -> {"none", "open", "closed"}],
                 args : [Tools -> Seq(Nat)], ended : {"no", "success", "error"}]
  /\ gone \in BOOLEAN
  /\ trace \in [failed : BOOLEAN, result : {"none", "success", "failed", "cancelled"}]

\* A broken, stalled, failed or cancelled stream never ends with a fabricated success,
\* although readers, sequencer and encoders each end a stream in their own way.
NeverFabricated == client.ended = "success" => sent.ended = "completed"

\* A client that is told its answer is complete has all of it: every text and every
\* argument that was sent has arrived, however the three protocols cut and order them.
SuccessIsWhole ==
  client.ended = "success" =>
    /\ client.text = sent.text
    /\ \A t \in Tools : sent.tool[t] # "late" =>
         /\ client.tool[t] = "none" <=> sent.tool[t] = "none"
         /\ Len(client.args[t]) = sent.args[t]

\* The arguments of a tool call reach the client in the order the upstream sent them,
\* none twice and none left out between two that arrive.
ArgumentsInOrder ==
  \A t \in Tools : \A i, j \in DOMAIN client.args[t] :
    i < j => client.args[t][j] - client.args[t][i] = j - i

\* A client that is still there learns how its answer ended: no stream is left open
\* by an upstream that broke, stalled, failed or talked nonsense.  A Messages client
\* that has been sent nothing is the exception.
EndIsTold ==
  pc \in {"ended", "logged"} /\ ~gone =>
    client.ended # "no" \/ (inbound = "messages" /\ ~client.begun)

\* The encoders close what they open before they report success: a client is never
\* told that the answer is complete while one of its tool calls is still open.
ToolsAreClosed ==
  conforming /\ client.ended = "success" /\ inbound # "chat" =>
    \A t \in Tools : client.tool[t] # "open"

\* A stalled upstream and a client that went away end the handler, and with it the
\* slots of the call, because every read has an idle timeout.
EveryStreamEnds == <>(pc = "logged")

\* An upstream that keeps to its protocol is answered with an error only when it
\* failed or broke: "events with no IR meaning are skipped".
AnswersComplete ==
  conforming /\ client.ended = "error" => sent.ended \in {"failed", "broken"}
=============================================================================
