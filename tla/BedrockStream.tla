--------------------------- MODULE BedrockStream ---------------------------
(***************************************************************************)
(* Streaming a chat completion from Bedrock (omnillm/stream.go): the       *)
(* service produces a message block by block, the SDK's reader offers one  *)
(* event after the other on an unbuffered channel, Recv turns events into  *)
(* chunks, and the caller puts the chunks together again.  Any goroutine   *)
(* may call Close at any time, and the connection may break.               *)
(*                                                                         *)
(* Blocks and parts of the message are numbered in the order in which the  *)
(* service produces them: part n belongs to block said[n].  A text is the  *)
(* set of its parts.                                                       *)
(***************************************************************************)
EXTENDS BedrockConvert

CONSTANTS Reasons,    \* stop reasons of the service, in its own words
          MaxBlocks,  \* bound: blocks of the message
          MaxParts    \* bound: parts of the message

ASSUME StreamAssumption ==
  /\ MaxBlocks \in Nat /\ MaxParts \in Nat
  /\ "tool_calls" \notin Reasons   \* the service says "tool_use"

VARIABLES
  kinds,   \* service: Seq({"text", "toolUse"}), the blocks begun
  said,    \* service: Seq(Nat), the block of each part sent
  stage,   \* service: where it is in the message
  reason,  \* service: the stop reason, "none" before
  event,   \* SDK: the event offered on Events(), or NoEvent
  open,    \* SDK: Events() is not closed
  err,     \* SDK: Err() is not nil
  done,    \* SDK: Close was called
  currentToolID, toolInputParts, \* converseStream: the tool call in progress, 0 for ""
  at,      \* caller: "idle", "recv", or "ended"
  chunk,   \* caller: the last chunk received
  heard,   \* caller: the message put together so far
  finish,  \* caller: FinishReason, "none" before
  ended    \* caller: how the stream ended: "none", "eof" or "error"

service == <<kinds, said, stage, reason>>
sdk     == <<event, open, err, done>>
tracked == <<currentToolID, toolInputParts>>
caller  == <<at, chunk, heard, finish, ended>>
vars    == <<service, sdk, tracked, caller>>

Event(t, block, part) == [type |-> t, block |-> block, part |-> part]
NoEvent == Event("none", 0, 0)

\* A chunk with one Choice: its Content, its ToolCalls (id 0 when it continues
\* a call) and its FinishReason; and one without a Choice, for the Usage.
Chunk(content, calls, reasons) ==
  [choices |-> 1, content |-> content, calls |-> calls, finish |-> reasons]
UsageChunk == [choices |-> 0, content |-> {}, calls |-> <<>>, finish |-> {}]
NoChunk    == Chunk({}, <<>>, {})

Init ==
  /\ kinds = <<>> /\ said = <<>> /\ stage = "start" /\ reason = "none"
  /\ event = NoEvent /\ open = TRUE /\ err = FALSE /\ done = FALSE
  /\ currentToolID = 0 /\ toolInputParts = {}
  /\ at = "idle" /\ chunk = NoChunk /\ heard = Nothing /\ finish = "none" /\ ended = "none"

-----------------------------------------------------------------------------
(* The service and the SDK's reader.                                       *)

\* The reader takes the next event off the connection and offers it.
Offer(e, next) ==
  /\ open
  /\ event = NoEvent
  /\ event' = e
  /\ stage' = next
  /\ UNCHANGED <<open, err, done, tracked, caller>>

StartMessage ==
  /\ stage = "start"
  /\ Offer(Event("messageStart", 0, 0), "between")
  /\ UNCHANGED <<kinds, said, reason>>

\* A text block need not be announced.
StartBlock(k) ==
  /\ stage = "between"
  /\ Len(kinds) < MaxBlocks
  /\ kinds' = Append(kinds, k)
  /\ \/ Offer(Event("blockStart", Len(kinds) + 1, 0), "block")
     \/ k = "text" /\ Offer(NoEvent, "block")
  /\ UNCHANGED <<said, reason>>

\* A part of the block, or a delta of a kind the provider does not know.
SendPart ==
  /\ stage = "block"
  /\ Len(said) < MaxParts
  /\ \/ /\ said' = Append(said, Len(kinds))
        /\ Offer(Event("delta", Len(kinds), Len(said) + 1), "block")
     \/ Offer(Event("otherDelta", 0, 0), "block") /\ UNCHANGED said
  /\ UNCHANGED <<kinds, reason>>

StopBlock ==
  /\ stage = "block"
  /\ Offer(Event("blockStop", Len(kinds), 0), "between")
  /\ UNCHANGED <<kinds, said, reason>>

StopMessage ==
  /\ stage = "between"
  /\ kinds # <<>>
  /\ reason' \in Reasons
  /\ Offer(Event("messageStop", 0, 0), "stopped")
  /\ UNCHANGED <<kinds, said>>

\* The last event; the usage in it is optional.
SendMetadata ==
  /\ stage = "stopped"
  /\ \E t \in {"metadata", "metadataWithUsage"} : Offer(Event(t, 0, 0), "over")
  /\ UNCHANGED <<kinds, said, reason>>

\* The connection ends between two events, or in the middle of one, which is
\* an error; the reader closes the channel.
HangUp ==
  /\ open
  /\ event = NoEvent
  /\ err' \in IF done THEN {FALSE} ELSE BOOLEAN
  /\ open' = FALSE
  /\ UNCHANGED <<service, event, done, tracked, caller>>

\* Close: the reader is told to stop, and does, with or without an event in hand.
Close ==
  /\ ~done
  /\ done' = TRUE
  /\ UNCHANGED <<service, event, open, err, tracked, caller>>

ReaderStops ==
  /\ done
  /\ open
  /\ open' = FALSE
  /\ event' = NoEvent
  /\ UNCHANGED <<service, err, done, tracked, caller>>

-----------------------------------------------------------------------------
(* converseStream.                                                         *)

Kind(e) == kinds[e.block]

handleContentBlockStartSilently(e) == NoChunk

handleContentBlockStart(e) ==
  IF Kind(e) = "toolUse" THEN Chunk({}, <<Call(e.block, {})>>, {}) ELSE NoChunk

handleContentBlockDelta(e) ==
  IF Kind(e) = "text" THEN Chunk({e.part}, <<>>, {})
  ELSE Chunk({}, <<Call(0, {e.part})>>, {})

handleMessageStop(e) == Chunk({}, <<>>, {mapStopReason(reason)})

handleMetadata(e) == UsageChunk

\* The chunks an event makes: one or none.
processEvent(e) ==
  CASE e.type = "blockStart"        -> {handleContentBlockStart(e)} \ {NoChunk}
    [] e.type = "delta"             -> {handleContentBlockDelta(e)}
    [] e.type = "messageStop"       -> {handleMessageStop(e)}
    [] e.type = "metadataWithUsage" -> {handleMetadata(e)}
    [] OTHER                        -> {}

\* What the handlers remember of the tool call in progress.
Track(e) ==
  LET tool == e.type \in {"blockStart", "delta"} /\ Kind(e) = "toolUse" IN
  CASE e.type = "blockStart" /\ tool -> currentToolID' = e.block /\ toolInputParts' = {}
    [] e.type = "delta" /\ tool      -> /\ toolInputParts' = toolInputParts \cup {e.part}
                                        /\ UNCHANGED currentToolID
    [] e.type = "blockStop" /\ currentToolID # 0 -> currentToolID' = 0 /\ toolInputParts' = {}
    [] OTHER                         -> UNCHANGED tracked

\* The caller adds a chunk to its message: arguments go to the last call.
Merge(m, c) ==
  [content |-> m.content \cup c.content,
   calls |-> IF c.calls = <<>> THEN m.calls
             ELSE IF c.calls[1].id # 0 THEN m.calls \o c.calls
             ELSE [i \in DOMAIN m.calls |->
                     IF i = Len(m.calls)
                     THEN [m.calls[i] EXCEPT !.args = @ \cup c.calls[1].args]
                     ELSE m.calls[i]]]

CallRecv ==
  /\ at = "idle"
  /\ at' = "recv"
  /\ UNCHANGED <<service, sdk, tracked, chunk, heard, finish, ended>>

\* Recv takes an event, and goes on when it makes no chunk.
RecvEvent ==
  /\ at = "recv"
  /\ open
  /\ event # NoEvent
  /\ event' = NoEvent
  /\ Track(event)
  /\ \/ processEvent(event) = {} /\ UNCHANGED <<at, chunk, heard, finish>>
     \/ \E c \in processEvent(event) :
          /\ at' = "idle"
          /\ chunk' = c
          /\ heard' = Merge(heard, c)
          /\ finish' = IF c.finish = {} THEN finish ELSE CHOOSE r \in c.finish : TRUE
  /\ UNCHANGED <<service, open, err, done, ended>>

\* The channel is closed: an error, or io.EOF.
RecvEndOnlyWithError ==
  /\ at = "recv" /\ ~open /\ err
  /\ at' = "ended" /\ ended' = "error"
  /\ UNCHANGED <<service, sdk, tracked, chunk, heard, finish>>

RecvEnd ==
  /\ at = "recv"
  /\ ~open
  /\ at' = "ended"
  /\ ended' = IF err THEN "error" ELSE "eof"
  /\ UNCHANGED <<service, sdk, tracked, chunk, heard, finish>>

Service == StartMessage \/ (\E k \in {"text", "toolUse"} : StartBlock(k))
             \/ SendPart \/ StopBlock \/ StopMessage \/ SendMetadata
Recv == RecvEvent \/ RecvEnd

Next == Service \/ HangUp \/ Close \/ ReaderStops \/ CallRecv \/ Recv

Spec == Init /\ [][Next]_vars

\* A goroutine in Recv runs when there is something to receive, and the SDK's
\* reader notices Close.  The service may fall silent.
FairSpec == Spec /\ WF_vars(Recv) /\ WF_vars(ReaderStops)

-----------------------------------------------------------------------------
(* Properties.                                                             *)

Blocks == 1..MaxBlocks
Parts  == 1..MaxParts

\* Every variable holds a value of its type; parts belong to blocks that have
\* begun, and the tool call that is tracked is the last one the caller heard of.
TypeOK ==
  /\ kinds \in Seq({"text", "toolUse"}) /\ Len(kinds) <= MaxBlocks
  /\ said \in Seq(DOMAIN kinds) /\ Len(said) <= MaxParts
  /\ stage \in {"start", "between", "block", "stopped", "over"}
  /\ event.block \in 0..Len(kinds) /\ event.part \in 0..Len(said)
  /\ {open, err, done} \subseteq BOOLEAN
  /\ toolInputParts \subseteq DOMAIN said
  /\ currentToolID # 0 =>
       /\ heard.calls # <<>>
       /\ Last(heard.calls) = Call(currentToolID, toolInputParts)
  /\ at \in {"idle", "recv", "ended"} /\ (at = "ended" <=> ended # "none")

\* The caller's message after the first k parts and b blocks were heard.
HeardUpTo(k, b) ==
  /\ \A i \in 1..k : said[i] <= b
  /\ heard.content = {i \in 1..k : kinds[said[i]] = "text"}
  /\ {heard.calls[j].id : j \in DOMAIN heard.calls} = {i \in 1..b : kinds[i] = "toolUse"}
  /\ \A j \in DOMAIN heard.calls :
       /\ heard.calls[j].args = {i \in 1..k : said[i] = heard.calls[j].id}
       /\ \A l \in 1..(j - 1) : heard.calls[l].id < heard.calls[j].id

\* What the caller put together is always what the service said up to some
\* point, with nothing missing before it: every text part in the content, every
\* tool call in its place, every part of its input with the right call, however
\* the stream is cut short (Recv, processEvent and the handlers).
HeardInOrder == \E k \in 0..Len(said), b \in 0..Len(kinds) : HeardUpTo(k, b)

\* A finish reason comes only with the whole message, and says "tool_calls"
\* exactly when the model waits for its tools: a caller that runs tools on it
\* never runs one with half of its input (handleMessageStop, mapStopReason).
FinishMeansWhole ==
  finish # "none" =>
    /\ HeardUpTo(Len(said), Len(kinds))
    /\ (finish = "tool_calls") <=> (reason = "tool_use")

\* The message as the service returns it when it is not streamed; a tool
\* without input comes without a document.
Spoken ==
  [b \in DOMAIN kinds |->
     LET text == {i \in DOMAIN said : said[i] = b} IN
     IF kinds[b] = "text" THEN Text(text)
     ELSE ToolUse(b, text)]

\* The inputs that are complete; no input is no JSON.
WholeInputs == {Spoken[b].value : b \in {c \in DOMAIN kinds : kinds[c] = "toolUse"}} \ {{}}

\* Streamed or not, a message with one text at most is sent back to the model in
\* the next turn as the same blocks (the handlers, convertConverseOutput and
\* convertAssistantMessage).
StreamAgrees ==
  LET texts == {b \in DOMAIN kinds : kinds[b] = "text"} IN
  finish # "none" /\ Cardinality(texts) <= 1 =>
    convertAssistantMessage(WholeInputs, heard)
      = convertAssistantMessage(WholeInputs, convertConverseOutput(Spoken))

\* What a request means has survived its conversion once it is answered.  In every conversation in which
\* tools are answered for after they were called, every tool result still
\* follows, and names, the tool use it answers, and none is lost, whatever system
\* messages stand in between (convertMessages).  A caller that asks for some
\* tool, or for one by name, cannot be answered otherwise (convertToolChoice).
\* MaxTokens arrives as the nearest number that can be sent (safeIntToInt32).
RequestKeepsMeaning ==
  at # "idle" => ResultsArePaired /\ ForcedToolsStayForced /\ LimitsAreClamped

\* Close gets a goroutine out of Recv, also when the service has fallen silent.
CloseReleases == (done /\ at = "recv") ~> (at # "recv")
=============================================================================
