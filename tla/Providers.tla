------------------------------- MODULE Providers -------------------------------
(***************************************************************************)
(* The provider layer.  Its parts share no state: what the adapters send   *)
(* before a response opens (Egress), the two streams that read a response, *)
(* the accumulator of tool calls, and the wire request made of a           *)
(* conversation.  A behaviour explores each part on its own; `part` says   *)
(* which, and the variables of the others keep their first values.  The    *)
(* streams share the variables that ChatStream speaks about.               *)
(***************************************************************************)
EXTENDS Egress, StreamItems

CONSTANTS
  MaxFrames, MaxLines,          \* bounds of the two streams
  CallTexts, OtherTexts, MaxTexts, \* of the accumulator: what a stream holds, and how much
  Dialogues                     \* conversations to make wire requests of

VARIABLES
  part,
  conn, phase, out, expected,
  script, arrived, parser, pending, tool_call_ids, finished, done_emitted,
  eol, line, rest, buffer, fed, lines, index_map,
  prose, read, text, scan_pos, scan, object_start, object, taken, stalled,
  conversation \* of the part "request": a set of at most one

egressVars    == vars
streamVars    == <<conn, phase, out, expected>>
openAiVars    == <<script, arrived, parser, pending, tool_call_ids, finished, done_emitted>>
anthropicVars == <<eol, line, rest, buffer, fed, lines, index_map>>
toolVars      == <<prose, read, text, scan_pos, scan, object_start, object, taken, stalled>>
allVars == <<part, egressVars, streamVars, openAiVars, anthropicVars, toolVars, conversation>>

OpenAi    == INSTANCE OpenAiStream
Anthropic == INSTANCE AnthropicStream WITH sent <- line
Tools     == INSTANCE Accumulator WITH
  Calls <- CallTexts, Others <- OtherTexts, MaxItems <- MaxTexts,
  script <- prose, fed <- read, buffer <- text, finished <- object

ASSUME LimitsAssumption    == MaxFrames \in Nat /\ MaxLines \in Nat /\ MaxTexts \in Nat
ASSUME SyntheticAssumption == \A i \in Indices : OpenAi!Synthetic(i) # NoId
ASSUME TextsAssumption     == Tools!Lexical
ASSUME DialoguesAssumption == \A conv \in Dialogues : Requests!IsConversation(conv)

-----------------------------------------------------------------------------
EgressIdle ==
  /\ policy = CHOOSE p \in Policies : TRUE
  /\ Init

OpenAiIdle ==
  /\ script = <<>> /\ arrived = 0 /\ parser = <<>> /\ pending = <<>>
  /\ tool_call_ids = <<>> /\ finished = FALSE /\ done_emitted = FALSE

AnthropicIdle ==
  /\ eol = <<>> /\ line = <<>> /\ rest = <<>>
  /\ buffer = <<>> /\ fed = <<>> /\ lines = <<>> /\ index_map = <<>>

StreamIdle == conn = "up" /\ phase = "new" /\ out = <<>> /\ expected = <<>>

ToolsIdle ==
  /\ prose = <<>> /\ read = 0 /\ text = <<>> /\ scan_pos = 0 /\ scan = Tools!Outside
  /\ object_start = 0 /\ object = <<>> /\ taken = <<>> /\ stalled = FALSE

ProvidersInit ==
  /\ conversation = {}
  /\ \/ part = "egress" /\ Init /\ StreamIdle /\ OpenAiIdle /\ AnthropicIdle /\ ToolsIdle
     \/ part = "openai" /\ OpenAi!Init /\ EgressIdle /\ AnthropicIdle /\ ToolsIdle
     \/ part = "anthropic" /\ Anthropic!Init /\ EgressIdle /\ OpenAiIdle /\ ToolsIdle
     \/ part = "tools" /\ Tools!Init /\ EgressIdle /\ StreamIdle /\ OpenAiIdle /\ AnthropicIdle
     \/ part = "request" /\ EgressIdle /\ StreamIdle /\ OpenAiIdle /\ AnthropicIdle /\ ToolsIdle

Ask ==
  /\ conversation = {}
  /\ \E conv \in Dialogues : conversation' = {conv}

ProvidersNext ==
  /\ UNCHANGED part
  /\ \/ /\ part = "egress" /\ Next
        /\ UNCHANGED <<streamVars, openAiVars, anthropicVars, toolVars, conversation>>
     \/ /\ part = "openai" /\ OpenAi!Next
        /\ UNCHANGED <<egressVars, anthropicVars, toolVars, conversation>>
     \/ /\ part = "anthropic" /\ Anthropic!Next
        /\ UNCHANGED <<egressVars, openAiVars, toolVars, conversation>>
     \/ /\ part = "tools" /\ Tools!Next
        /\ UNCHANGED <<egressVars, streamVars, openAiVars, anthropicVars, conversation>>
     \/ /\ part = "request" /\ Ask
        /\ UNCHANGED <<egressVars, streamVars, openAiVars, anthropicVars, toolVars>>

ProvidersSpec ==
  /\ ProvidersInit /\ [][ProvidersNext]_allVars
  /\ Fairness
  /\ OpenAi!Fairness /\ Anthropic!Fairness

-----------------------------------------------------------------------------
(***************************************************************************)
(* Of either adapter's stream: nothing that was received before the end is *)
(* lost or out of order when the stream has closed (the pump's and the     *)
(* generator's paths from the bytes to the last item), and one terminal    *)
(* item is out then.                                                       *)
(***************************************************************************)
EverythingSurfaces ==
  /\ part = "openai" => OpenAi!EverythingSurfaces /\ OpenAi!OneTerminal
  /\ part = "anthropic" => Anthropic!EverythingSurfaces /\ Anthropic!OneTerminal

(***************************************************************************)
(* Either adapter implements the chat stream a consumer is promised; the   *)
(* mapping is the same for both.                                           *)
(***************************************************************************)
ImplementsChatStream == OpenAi!ImplementsChatStream

(***************************************************************************)
(* Either stream ends once its response has.                               *)
(***************************************************************************)
Ends == OpenAi!Ends

(***************************************************************************)
(* Of the accumulator: every object of the stream is taken once and whole, *)
(* however the text is cut (append, take_finished).                        *)
(***************************************************************************)
EveryCallOnce == part = "tools" => Tools!EveryCallOnce

(***************************************************************************)
(* Of the wire requests: no part of a conversation is lost or out of its   *)
(* order (build_messages, build_request_body).                             *)
(***************************************************************************)
Carries ==
  \A conv \in conversation : Requests!OpenAiCarries(conv) /\ Requests!AnthropicCarries(conv)
=============================================================================
