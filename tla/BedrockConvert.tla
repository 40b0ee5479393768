--------------------------- MODULE BedrockConvert ---------------------------
(***************************************************************************)
(* The conversions of the Bedrock provider (omnillm/adapter.go) between the*)
(* messages of its callers and the content blocks of the Converse API, as  *)
(* operators.                                                              *)
(*                                                                         *)
(* A text is the set of the parts it was put together from, {} when it is  *)
(* empty.  The arguments of a tool call are such a text, of JSON; the      *)
(* document they denote goes by the same name.                             *)
(***************************************************************************)
EXTENDS Integers, FiniteSets, Sequences, SequencesExt

CONSTANTS
  Histories,      \* conversations of requests
  Wholes,         \* sets of texts that are well-formed JSON
  CallIds,        \* of tool calls
  Tools,          \* that are offered, of functions and of other types
  ToolChoices,
  LargestInt32s,
  TokenLimits     \* what callers set as MaxTokens

\* A message of a caller has an id in answers when it is the result of a tool.
Message == [role : STRING, content : SUBSET Nat, answers : CallIds \cup {0},
            calls : Seq([id : CallIds, args : SUBSET Nat])]

ASSUME ConvertAssumption ==
  /\ \A h \in Histories : h \in Seq(Message)
  /\ LargestInt32s \subseteq Nat /\ TokenLimits \subseteq Int

Braces == {0}   \* "{}", the empty document

Text(v)            == [type |-> "text", id |-> 0, value |-> v]
ToolUse(id, doc)   == [type |-> "toolUse", id |-> id, value |-> doc]
ToolResult(id, v)  == [type |-> "toolResult", id |-> id, value |-> v]

-----------------------------------------------------------------------------
(* Messages to content blocks.  whole: the texts that are well-formed JSON. *)

jsonToLazyDocument(whole, s) == IF s \in whole THEN s ELSE Braces

convertAssistantMessage(whole, msg) ==
  LET text  == IF msg.content # {} THEN <<Text(msg.content)>> ELSE <<>>
      calls == [i \in DOMAIN msg.calls |->
                  ToolUse(msg.calls[i].id, jsonToLazyDocument(whole, msg.calls[i].args))]
  IN IF text \o calls = <<>> THEN <<Text({})>> ELSE text \o calls

convertToolResultMessageWithoutID(msg) == ToolResult(0, msg.content)

convertToolResultMessage(msg) == ToolResult(msg.answers, msg.content)

Roles == {"system", "user", "assistant", "tool"}

\* The loop over the messages: the system blocks and the messages so far.
NextMessage(whole, in, m) ==
  LET Send(role, blocks) ==
        [in EXCEPT !.messages = Append(@, [role |-> role, blocks |-> blocks])]
  IN CASE m.role = "system"    -> [in EXCEPT !.system = Append(@, m.content)]
       [] m.role = "user"      -> Send("user", <<Text(m.content)>>)
       [] m.role = "assistant" -> Send("assistant", convertAssistantMessage(whole, m))
       [] m.role = "tool"      -> Send("user", <<convertToolResultMessage(m)>>)

NoMessages(error) == [error |-> error, system |-> <<>>, messages |-> <<>>]

convertMessages(whole, history) ==
  LET Next(in, m) == NextMessage(whole, in, m) IN
  IF \E i \in DOMAIN history : history[i].role \notin Roles
  THEN NoMessages(TRUE)
  ELSE FoldLeft(Next, NoMessages(FALSE), history)

-----------------------------------------------------------------------------
(* Tools and limits.                                                       *)

Free == [kind |-> "auto", name |-> "none"]   \* also what no choice at all means

convertToolChoice(choice) ==
  CASE choice.kind = "required" -> [kind |-> "any", name |-> "none"]
    [] choice.kind = "function" -> [kind |-> "tool", name |-> choice.name]
    [] OTHER                    -> Free

\* Only tools of type "function" are offered; with none there is no choice.
buildToolConfig(tools, choice) ==
  LET offered == {t \in tools : t.type = "function"} IN
  [tools  |-> {t.name : t \in offered},
   choice |-> IF offered = {} THEN Free ELSE convertToolChoice(choice)]

\* int is wider than int32, whose largest value is max.
safeIntToInt32OneSided(n, max) == IF n > max THEN max ELSE n

safeIntToInt32(n, max) ==
  IF n > max THEN max ELSE IF n < -max - 1 THEN -max - 1 ELSE n

\* A value that is not set is {}, one that is {v}.
buildInferenceConfig(req, max) ==
  [MaxTokens |-> {safeIntToInt32(n, max) : n \in req.maxTokens}, Stop |-> req.stop]

\* The input of Converse and of ConverseStream.
buildConverseInput(whole, max, req) ==
  LET converted == convertMessages(whole, req.messages) IN
  [error    |-> converted.error,
   system   |-> converted.system,
   messages |-> converted.messages,
   config   |-> buildInferenceConfig(req, max),
   tools    |-> buildToolConfig(req.tools, req.choice)]

-----------------------------------------------------------------------------
(* Content blocks to a message.                                            *)

documentToJSONLosingInput(doc) == Braces

\* No document, or one that cannot be read, counts as the empty one.
documentToJSON(doc) == IF doc = {} THEN Braces ELSE doc

Nothing == [content |-> {}, calls |-> <<>>]

Call(id, args) == [id |-> id, args |-> args]

\* The loop over the blocks: the last text is the content of the message.
NextBlock(msg, b) ==
  CASE b.type = "text"    -> [msg EXCEPT !.content = b.value]
    [] b.type = "toolUse" -> [msg EXCEPT !.calls = Append(@, Call(b.id, documentToJSON(b.value)))]

convertConverseOutput(blocks) == FoldLeft(NextBlock, Nothing, blocks)

mapStopReasonOfToolsAsStop(reason) ==
  IF reason \in {"end_turn", "stop_sequence", "tool_use"} THEN "stop"
  ELSE IF reason = "max_tokens" THEN "length" ELSE reason

mapStopReason(reason) ==
  CASE reason \in {"end_turn", "stop_sequence"} -> "stop"
    [] reason = "max_tokens"                    -> "length"
    [] reason = "tool_use"                      -> "tool_calls"
    [] reason = "content_filtered"              -> "content_filter"
    [] OTHER                                    -> reason

-----------------------------------------------------------------------------
(* What RequestKeepsMeaning of BedrockStream asks for.                     *)

Unforced == [kind |-> "unset", name |-> "none"]

Request(history, tools, choice, tokens) ==
  [messages |-> history, tools |-> tools, choice |-> choice, maxTokens |-> tokens, stop |-> <<>>]

\* A tool is only answered for after it was asked for.
Asked(h, i, id) ==
  \E j \in 1..(i - 1) : /\ h[j].role = "assistant"
                        /\ \E c \in DOMAIN h[j].calls : h[j].calls[c].id = id
AskedFirst(h) == \A i \in DOMAIN h : h[i].role = "tool" => Asked(h, i, h[i].answers)

BlocksOf(msg, type) == {b \in Range(msg.blocks) : b.type = type}

\* The messages that answer call c, as the caller has them and in the request.
Answering(h, c)   == {i \in DOMAIN h : h[i].role = "tool" /\ h[i].answers = c}
ResultsOf(msgs, c) == {i \in DOMAIN msgs : \E r \in BlocksOf(msgs[i], "toolResult") : r.id = c}

ResultsArePaired ==
  \A h \in Histories, whole \in Wholes : AskedFirst(h) =>
    LET in == buildConverseInput(whole, 0, Request(h, {}, Unforced, {})) IN
    /\ in.error <=> \E i \in DOMAIN h : h[i].role \notin Roles
    /\ \A i \in DOMAIN in.messages : \A r \in BlocksOf(in.messages[i], "toolResult") :
         /\ in.messages[i].role = "user"
         /\ \E j \in 1..(i - 1) : \E u \in BlocksOf(in.messages[j], "toolUse") :
              u.id = r.id /\ in.messages[j].role = "assistant"
    /\ ~in.error => \A c \in CallIds :
         Cardinality(ResultsOf(in.messages, c)) = Cardinality(Answering(h, c))

\* The model answers with a text, {}, or with calls of one tool.
Allows(cfg, answer) ==
  CASE cfg.choice.kind = "any"  -> answer # {} /\ answer \subseteq cfg.tools
    [] cfg.choice.kind = "tool" -> answer = {cfg.choice.name}
    [] OTHER                    -> answer \subseteq cfg.tools

ForcedToolsStayForced ==
  \A tools \in SUBSET Tools, choice \in ToolChoices :
    LET cfg     == buildConverseInput({}, 0, Request(<<>>, tools, choice, {})).tools
        offered == {t.name : t \in {u \in tools : u.type = "function"}}
        answers == {{}} \cup {{t.name} : t \in Tools}
    IN /\ cfg.tools = offered
       /\ \A answer \in answers : Allows(cfg, answer) =>
            /\ choice.kind = "required" /\ offered # {} => answer # {}
            /\ choice.kind = "function" /\ choice.name \in offered => answer = {choice.name}

Distance(a, b) == IF a > b THEN a - b ELSE b - a

LimitsAreClamped ==
  \A max \in LargestInt32s, n \in TokenLimits :
    LET in    == buildConverseInput({}, max, Request(<<>>, {}, Unforced, {n}))
        Int32 == (-max - 1)..max
    IN /\ in.config.MaxTokens \subseteq Int32
       /\ \A v \in in.config.MaxTokens, w \in Int32 : Distance(n, v) <= Distance(n, w)
=============================================================================
