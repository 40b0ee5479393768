----------------------------- MODULE MCBedrock -----------------------------
(* Instances for TLC of the Bedrock provider: a stream, and the conversions  *)
(* over every short conversation, choice of tools and limit.                 *)
EXTENDS BedrockStream

MCReasons == {"end_turn", "tool_use", "max_tokens"}

\* Conversations: tool 1 and 2 are called in messages of the assistant, with
\* input that is well-formed or not, and answered by messages of tools.
Said == [role : {"system", "user", "developer"}, content : {{1}}, calls : {<<>>}, answers : {0}]
Uses == {Call(1, {11}), Call(2, {12})}
Asks == [role : {"assistant"}, content : {{}, {1}},
         calls : {<<>>} \cup {<<c>> : c \in Uses} \cup {<<c, d>> : c, d \in Uses}, answers : {0}]
Answers == [role : {"tool"}, content : {{}, {2}}, calls : {<<>>}, answers : {1, 2}]
MCHistories == UNION {[1..n -> Said \cup Asks \cup Answers] : n \in 0..3}

MCTools   == [name : {"f", "g"}, type : {"function", "other"}]
MCChoices == {[kind |-> k, name |-> "none"] : k \in {"unset", "auto", "required", "none"}}
               \cup {[kind |-> "function", name |-> n] : n \in {"f", "g"}}
MCLimits  == -20..20
=============================================================================
