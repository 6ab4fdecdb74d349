----------------------------- MODULE Requests -----------------------------
(***************************************************************************)
(* What the two chat adapters make of a conversation before anything is    *)
(* sent: the capability check against the model's catalogue row and the    *)
(* mapping of turns to wire messages (openai_compatible/request.rs and     *)
(* catalogue.rs; anthropic.rs).  A conversation is [prompt, turns]; a turn *)
(* is [role, parts]; a part is [kind, at], where `at` tells parts apart.   *)
(* A "blank" part is a text of white space.  JSON and base64 are left out. *)
(***************************************************************************)
EXTENDS Naturals, Sequences, SequencesExt

Role     == {"System", "User", "Assistant", "Tool"}
PartKind == {"text", "blank", "image", "call", "result"}
Text     == {"text", "blank"}

PartsOf(conv) == FlattenSeq([i \in DOMAIN conv.turns |-> conv.turns[i].parts])
KindsIn(parts) == {parts[i].kind : i \in DOMAIN parts}
Of(parts, kinds) ==
  FlattenSeq([i \in DOMAIN parts |-> IF parts[i].kind \in kinds THEN <<parts[i]>> ELSE <<>>])

(***************************************************************************)
(* Conversations whose parts know their places.  The prompt is turn 0.     *)
(***************************************************************************)
Part == [kind : PartKind, at : Nat \X Nat]
Placed(parts, turn) == \A i \in DOMAIN parts : parts[i].at = <<turn, i>>

IsConversation(conv) ==
  /\ conv.prompt \in Seq(Part) /\ KindsIn(conv.prompt) \subseteq Text /\ Placed(conv.prompt, 0)
  /\ conv.turns \in Seq([role : Role, parts : Seq(Part)])
  /\ \A i \in DOMAIN conv.turns : Placed(conv.turns[i].parts, i)

-----------------------------------------------------------------------------
(***************************************************************************)
(* Capabilities.  The industry-standard adapter looks for the names of     *)
(* model families in a model id (`families`: the classes of needles found) *)
(* and assumes tools but no vision of an unknown one.  The other adapter   *)
(* has a fixed catalogue and assumes neither.                              *)
(***************************************************************************)
Capabilities(vision, toolCalling, streaming) ==
  [vision |-> vision, tool_calling |-> toolCalling, streaming |-> streaming]

CapabilitiesFor(families) ==
  Capabilities("multimodal" \in families, TRUE, TRUE)

ModelCapabilitiesFor(families) ==
  Capabilities("multimodal" \in families, "multimodal" \in families, TRUE)

(***************************************************************************)
(* check_capabilities of both adapters: what any part of any turn needs.   *)
(***************************************************************************)
CheckCapabilities(conv, capabilities) ==
  /\ "image" \in KindsIn(PartsOf(conv)) => capabilities.vision
  /\ {"call", "result"} \cap KindsIn(PartsOf(conv)) # {} => capabilities.tool_calling
  /\ capabilities.streaming

-----------------------------------------------------------------------------
(***************************************************************************)
(* build_messages: one message per turn, except that every result of a     *)
(* tool turn has a message of its own and the turn's text goes in front of *)
(* the first.  A part its role cannot carry, or a tool turn without a      *)
(* result, refuses the whole conversation.  is_error is not sent.          *)
(***************************************************************************)
Message(role, content, calls) == [role |-> role, content |-> content, tool_calls |-> calls]

(***************************************************************************)
(* Mutation of ToolMessages: all results of the turn go into one message.  *)
(***************************************************************************)
ToolMessagesFirst(parts) ==
  LET results == Of(parts, {"result"})
  IN [i \in 1..Len(results) |->
        Message("tool", (IF i = 1 THEN Of(parts, Text) ELSE <<>>) \o <<results[1]>>, <<>>)]

ToolMessages(parts) ==
  LET results == Of(parts, {"result"})
  IN [i \in 1..Len(results) |->
        Message("tool", (IF i = 1 THEN Of(parts, Text) ELSE <<>>) \o <<results[i]>>, <<>>)]

TurnMessages(turn) ==
  CASE turn.role = "System"    -> <<Message("system", turn.parts, <<>>)>>
    [] turn.role = "User"      -> <<Message("user", turn.parts, <<>>)>>
    [] turn.role = "Assistant" ->
         <<Message("assistant", Of(turn.parts, Text), Of(turn.parts, {"call"}))>>
    [] turn.role = "Tool"      -> ToolMessages(turn.parts)

Carries(role) ==
  Text \cup [System |-> {}, User |-> {"image"}, Assistant |-> {"call"}, Tool |-> {"result"}][role]

Representable(turn) ==
  /\ KindsIn(turn.parts) \subseteq Carries(turn.role)
  /\ turn.role = "Tool" => "result" \in KindsIn(turn.parts)

SystemMessage(conv) ==
  IF conv.prompt = <<>> THEN <<>> ELSE <<Message("system", conv.prompt, <<>>)>>

BuildMessages(conv) ==
  IF \A i \in DOMAIN conv.turns : Representable(conv.turns[i])
  THEN SystemMessage(conv) \o FlattenSeq([i \in DOMAIN conv.turns |-> TurnMessages(conv.turns[i])])
  ELSE "refused"

-----------------------------------------------------------------------------
(***************************************************************************)
(* build_request_body: system text that is not blank goes to the `system`  *)
(* field, the prompt first; every other turn becomes one message with all  *)
(* its parts.  Other parts of a system turn go nowhere.                    *)
(***************************************************************************)
ExtractSystem(conv) ==
  Of(conv.prompt, {"text"}) \o
  FlattenSeq([i \in DOMAIN conv.turns |->
                IF conv.turns[i].role = "System" THEN Of(conv.turns[i].parts, {"text"}) ELSE <<>>])

ExtractMessages(conv) ==
  FlattenSeq([i \in DOMAIN conv.turns |->
                IF conv.turns[i].role = "System" THEN <<>>
                ELSE <<Message(IF conv.turns[i].role = "Assistant" THEN "assistant" ELSE "user",
                               conv.turns[i].parts, <<>>)>>])

BuildRequestBody(conv) == [system |-> ExtractSystem(conv), messages |-> ExtractMessages(conv)]

-----------------------------------------------------------------------------
(***************************************************************************)
(* A request carries the conversation: each part once, parts of one kind   *)
(* in their order and turns in theirs; only text and tool calls (or        *)
(* results) of one turn may change places.  The other wire format puts     *)
(* system text first and drops blank text and other parts from it.  Thus   *)
(* what build_messages does not refuse it does not lose, whichever turns   *)
(* are combined.                                                           *)
(***************************************************************************)
Sent(messages) ==
  FlattenSeq([i \in DOMAIN messages |-> messages[i].content \o messages[i].tool_calls])

Before(parts, p, q) ==
  \E i, j \in DOMAIN parts : i < j /\ parts[i] = p /\ parts[j] = q

SameParts(sent, said) == Len(sent) = Len(said) /\ ToSet(sent) = ToSet(said)

InOrder(sent, said) ==
  \A p, q \in ToSet(said) :
    Before(said, p, q) /\ (p.kind = q.kind \/ p.at[1] # q.at[1]) => Before(sent, p, q)

OpenAiCarries(conv) ==
  LET messages == BuildMessages(conv)
      said == conv.prompt \o PartsOf(conv)
  IN messages # "refused" => SameParts(Sent(messages), said) /\ InOrder(Sent(messages), said)

Kept(parts, turns, kinds) ==
  FlattenSeq([i \in DOMAIN parts |-> IF parts[i].at[1] \in turns /\ parts[i].kind \in kinds
                                     THEN <<parts[i]>> ELSE <<>>])

AnthropicCarries(conv) ==
  LET body   == BuildRequestBody(conv)
      system == {i \in DOMAIN conv.turns : conv.turns[i].role = "System"}
  IN /\ Sent(body.messages) = Kept(PartsOf(conv), DOMAIN conv.turns \ system, PartKind)
     /\ body.system = Kept(conv.prompt \o PartsOf(conv), {0} \cup system, {"text"})
=============================================================================
