---------------------------- MODULE AnthropicStream ----------------------------
(***************************************************************************)
(* One chat_stream call of the Anthropic adapter                           *)
(* (crates/ai-providers/src/anthropic.rs): a generator that reads chunks,  *)
(* cuts them into lines (JsonNlParser), decodes the lines one by one       *)
(* (parse_wire_event) and yields their events.  The server sends lines as  *)
(* it likes; the transport cuts them into chunks anywhere and may stop     *)
(* anywhere.                                                               *)
(***************************************************************************)
EXTENDS StreamItems

CONSTANT MaxLines \* bound on the lines of a response

(***************************************************************************)
(* Lines: an event that carries text or usage, one that stands for nothing *)
(* (a ping, the start of a text block), the three that concern a content   *)
(* block, the end of the message, one that does not decode, and a blank.   *)
(***************************************************************************)
Plain == [kind |-> "plain"]
Quiet == [kind |-> "quiet"]
Start(i, id) == [kind |-> "start", index |-> i, id |-> id]
Json(i) == [kind |-> "json", index |-> i]
BlockStop(i) == [kind |-> "block_stop", index |-> i]
MessageStop == [kind |-> "message_stop"]
Malformed == [kind |-> "malformed"]
Blank == [kind |-> "blank"]

Lines ==
  {Plain, Quiet, MessageStop, Malformed, Blank}
    \cup {Start(i, id) : i \in Indices, id \in Ids}
    \cup {Json(i) : i \in Indices}
    \cup {BlockStop(i) : i \in Indices}

(***************************************************************************)
(* A line is cut in two pieces; neither alone decodes.                     *)
(***************************************************************************)
CR == [kind |-> "cr"]
LF == [kind |-> "lf"]
Piece(l, n) == [kind |-> "piece", of |-> l, n |-> n]

Bytes(l, eol) ==
  (IF l = Blank THEN <<>> ELSE <<Piece(l, 1), Piece(l, 2)>>) \o eol

VARIABLES
  eol,        \* the line end of the response
  sent,       \* the lines the server has begun to send
  rest,       \* of the last of them: the bytes still to come
  conn,       \* the connection: "up", "eof" or "reset"
  phase,      \* of the generator: "new", "reading", "flushing", "closed"
  buffer,     \* JsonNlParser: bytes since the last line feed
  fed,        \* lines completed by the chunk being fed
  lines,      \* lines of the last chunk not decoded yet
  index_map,  \* the call that each open tool block belongs to
  out,        \* the items the consumer has got
  expected    \* history: the events that what has arrived stands for

vars == <<eol, sent, rest, conn, phase, buffer, fed, lines, index_map, out, expected>>

Init ==
  /\ eol \in {<<LF>>, <<CR, LF>>}
  /\ sent = <<>> /\ rest = <<>>
  /\ conn = "up"
  /\ phase = "new"
  /\ buffer = <<>> /\ fed = <<>> /\ lines = <<>>
  /\ index_map = [i \in Indices |-> NoId]
  /\ out = <<>> /\ expected = <<>>

--------------------------------------------------------------------------------
(***************************************************************************)
(* The reference: the events that a list of whole lines stands for, up to  *)
(* the end of the message or the first line in error.  Arguments belong to *)
(* the call whose block is open at their index, if there is one.           *)
(***************************************************************************)
Tool(id, named) == [kind |-> "tool", call |-> id, named |-> named]

LastMark(ls, k) ==
  LET marks == {j \in 1 .. k - 1 : ls[j].kind \in {"start", "block_stop"}
                                     /\ ls[j].index = ls[k].index}
  IN IF marks = {} THEN BlockStop(ls[k].index) ELSE ls[Max(marks)]

InError(ls, k) ==
  \/ ls[k] = Malformed
  \/ ls[k].kind = "json" /\ LastMark(ls, k).kind = "block_stop"

FirstStop(ls) ==
  LET stops == {k \in DOMAIN ls : ls[k] = MessageStop \/ InError(ls, k)}
  IN IF stops = {} THEN 0 ELSE Min(stops)

EventAt(ls, k) ==
  CASE ls[k].kind = "start" -> Tool(ls[k].id, TRUE)
    [] ls[k].kind = "json" -> Tool(LastMark(ls, k).id, FALSE)
    [] OTHER -> ls[k]

Yields(ls, k) ==
  IF ls[k].kind \in {"plain", "start", "json"} THEN <<EventAt(ls, k)>> ELSE <<>>

Yielded(ls, d) == FlattenSeq([k \in 1 .. d |-> Yields(ls, k)])

Meaning(ls) == Yielded(ls, IF FirstStop(ls) = 0 THEN Len(ls) ELSE FirstStop(ls) - 1)

(***************************************************************************)
(* The lines that have arrived: begun, all but the last of them complete.  *)
(* At the end of the response a last line in two pieces needs no line end, *)
(* and half a line is malformed.                                           *)
(***************************************************************************)
Whole(begun, coming) == IF coming = <<>> THEN begun ELSE Front(begun)

WithTrailer(begun, coming) ==
  CASE coming = <<>> \/ Last(begun) = Blank -> Whole(begun, coming)
    [] Piece(Last(begun), 2) \in Range(coming) -> Append(Front(begun), Malformed)
    [] OTHER -> begun

--------------------------------------------------------------------------------
(***************************************************************************)
(* The call is refused (wrong provider, capability, credential, gate,      *)
(* transport, status), or its response opens.                              *)
(***************************************************************************)
Open ==
  /\ phase = "new"
  /\ \/ phase' = "reading" /\ UNCHANGED out
     \/ phase' = "closed" /\ out' = <<ErrItem>>
  /\ UNCHANGED <<eol, sent, rest, conn, buffer, fed, lines, index_map, expected>>

(***************************************************************************)
(* JsonNlParser::feed, one byte: a line feed ends the line, a carriage     *)
(* return before it is stripped, a blank line is dropped.                  *)
(***************************************************************************)
Stripped(bytes) == IF bytes # <<>> /\ Last(bytes) = CR THEN Front(bytes) ELSE bytes

NonBlank(bytes) == IF Stripped(bytes) = <<>> THEN <<>> ELSE <<Stripped(bytes)>>

Take(bytes) ==
  /\ rest' = Tail(bytes)
  /\ buffer' = IF bytes[1] = LF THEN <<>> ELSE Append(buffer, bytes[1])
  /\ fed' = IF bytes[1] = LF THEN fed \o NonBlank(buffer) ELSE fed

(***************************************************************************)
(* A byte of a chunk arrives.                                              *)
(***************************************************************************)
FeedByte ==
  /\ phase = "reading" /\ conn = "up" /\ lines = <<>>
  /\ \/ /\ rest # <<>>
        /\ Take(rest)
        /\ sent' = sent
     \/ /\ rest = <<>>
        /\ Len(sent) < MaxLines
        /\ \E l \in Lines : sent' = Append(sent, l) /\ Take(Bytes(l, eol))
  /\ expected' = Meaning(Whole(sent', rest'))
  /\ UNCHANGED <<eol, conn, phase, lines, index_map, out>>

(***************************************************************************)
(* The chunk ends; its lines are decoded before the next one is read.      *)
(***************************************************************************)
EndChunk ==
  /\ phase = "reading" /\ lines = <<>> /\ fed # <<>>
  /\ lines' = fed
  /\ fed' = <<>>
  /\ UNCHANGED <<eol, sent, rest, conn, phase, buffer, index_map, out, expected>>

(***************************************************************************)
(* parse_wire_event: the item a line yields, if any, and what it leaves in *)
(* index_map.                                                              *)
(***************************************************************************)
WireEvent(line) ==
  IF Len(line) = 2 /\ line[1].of = line[2].of THEN line[1].of ELSE Malformed

Item(map, l) ==
  CASE l.kind = "start" -> <<Tool(l.id, TRUE)>>
    [] l.kind = "json" /\ map[l.index] # NoId -> <<Tool(map[l.index], FALSE)>>
    [] l.kind = "json" /\ map[l.index] = NoId -> <<ErrItem>>
    [] l.kind = "malformed" -> <<ErrItem>>
    [] l.kind = "message_stop" -> <<DoneItem>>
    [] l.kind = "plain" -> <<Plain>>
    [] OTHER -> <<>>

(***************************************************************************)
(* Mutation of IndexMap: a block that stops keeps its call.                *)
(***************************************************************************)
IndexMapKept(map, l) ==
  IF l.kind = "start" THEN [map EXCEPT ![l.index] = l.id] ELSE map

IndexMap(map, l) ==
  CASE l.kind = "start" -> [map EXCEPT ![l.index] = l.id]
    [] l.kind = "block_stop" -> [map EXCEPT ![l.index] = NoId]
    [] OTHER -> map

(***************************************************************************)
(* Mutation of Decode: the loop goes on after Done.                        *)
(***************************************************************************)
DecodeRunsOn ==
  /\ phase \in {"reading", "flushing"} /\ lines # <<>>
  /\ LET l == WireEvent(lines[1])
     IN /\ out' = out \o Item(index_map, l)
        /\ index_map' = IndexMap(index_map, l)
        /\ phase' = IF Item(index_map, l) = <<ErrItem>> THEN "closed" ELSE phase
  /\ lines' = Tail(lines)
  /\ UNCHANGED <<eol, sent, rest, conn, buffer, fed, expected>>

(***************************************************************************)
(* One turn of the generator's loop over lines.  It ends with the first    *)
(* terminal item.                                                          *)
(***************************************************************************)
Decode ==
  /\ phase \in {"reading", "flushing"} /\ lines # <<>>
  /\ LET l == WireEvent(lines[1])
     IN /\ out' = out \o Item(index_map, l)
        /\ index_map' = IndexMap(index_map, l)
        /\ phase' = IF HasTerminal(Item(index_map, l)) THEN "closed" ELSE phase
  /\ lines' = Tail(lines)
  /\ UNCHANGED <<eol, sent, rest, conn, buffer, fed, expected>>

(***************************************************************************)
(* Mutation of ReadError: the loop polls the failed transport again.       *)
(***************************************************************************)
ReadErrorRetried ==
  /\ phase = "reading" /\ lines = <<>> /\ fed = <<>>
  /\ conn = "reset"
  /\ UNCHANGED vars

(***************************************************************************)
(* The transport fails, which ends the stream with an error.               *)
(***************************************************************************)
ReadError ==
  /\ phase = "reading" /\ lines = <<>> /\ fed = <<>>
  /\ conn = "reset"
  /\ phase' = "closed"
  /\ out' = Append(out, ErrItem)
  /\ UNCHANGED <<eol, sent, rest, conn, buffer, fed, lines, index_map, expected>>

(***************************************************************************)
(* Mutation of Flush: what is left in the buffer is dropped.               *)
(***************************************************************************)
FlushDrops ==
  /\ phase = "reading" /\ lines = <<>> /\ fed = <<>>
  /\ conn = "eof"
  /\ phase' = "flushing"
  /\ buffer' = <<>>
  /\ UNCHANGED <<eol, sent, rest, conn, fed, lines, index_map, out, expected>>

(***************************************************************************)
(* The response ends: a trailing line is decoded too, and a synthetic Done *)
(* follows.                                                                *)
(***************************************************************************)
Flush ==
  /\ phase = "reading" /\ lines = <<>> /\ fed = <<>>
  /\ conn = "eof"
  /\ phase' = "flushing"
  /\ lines' = NonBlank(buffer)
  /\ buffer' = <<>>
  /\ UNCHANGED <<eol, sent, rest, conn, fed, index_map, out, expected>>

Finish ==
  /\ phase = "flushing" /\ lines = <<>>
  /\ phase' = "closed"
  /\ out' = Append(out, DoneItem)
  /\ UNCHANGED <<eol, sent, rest, conn, buffer, fed, lines, index_map, expected>>

(***************************************************************************)
(* The connection ends between two chunks.                                 *)
(***************************************************************************)
HangUp ==
  /\ phase = "reading" /\ conn = "up" /\ fed = <<>>
  /\ conn' \in {"eof", "reset"}
  /\ expected' = IF conn' = "eof" THEN Meaning(WithTrailer(sent, rest)) ELSE expected
  /\ UNCHANGED <<eol, sent, rest, phase, buffer, fed, lines, index_map, out>>

Generator == Decode \/ ReadError \/ Flush \/ Finish

Next == Open \/ FeedByte \/ EndChunk \/ Generator \/ HangUp

(***************************************************************************)
(* The consumer keeps polling.  Nobody obliges the server to send, to end  *)
(* a chunk or to hang up.                                                  *)
(***************************************************************************)
Fairness == WF_vars(Generator)

Spec == Init /\ [][Next]_vars /\ Fairness

--------------------------------------------------------------------------------
(***************************************************************************)
(* Type invariant.                                                         *)
(***************************************************************************)
TypeOK ==
  /\ sent \in Seq(Lines)
  /\ conn \in {"up", "eof", "reset"}
  /\ phase \in {"new", "reading", "flushing", "closed"}
  /\ index_map \in [Indices -> Ids \cup {NoId}]

(***************************************************************************)
(* What was fed is decoded before more is read, and the stream is closed   *)
(* exactly when its one terminal item is out.                              *)
(***************************************************************************)
OneTerminal ==
  /\ phase = "reading" => fed = <<>> \/ lines = <<>>
  /\ phase = "closed" <=> HasTerminal(out)
  /\ \A k \in DOMAIN out : out[k] \in Terminals => k = Len(out)

(***************************************************************************)
(* However the response is cut and wherever it stops: when the stream has  *)
(* closed, every event of every line up to the first that ends it has been *)
(* yielded, in order, arguments under the call whose block was open and    *)
(* under no other; and the last item is Done exactly if the message ended  *)
(* or the response did, without half a line or arguments of no call.       *)
(***************************************************************************)
Verdict(ls) ==
  IF FirstStop(ls) = 0 THEN IF conn = "eof" THEN DoneItem ELSE ErrItem
  ELSE IF ls[FirstStop(ls)] = MessageStop THEN DoneItem ELSE ErrItem

Received == IF conn = "eof" THEN WithTrailer(sent, rest) ELSE Whole(sent, rest)

EverythingSurfaces ==
  phase = "closed" =>
    Events(out) = Meaning(Received) /\ Last(out) = Verdict(Received)

(***************************************************************************)
(* The adapter implements ChatStream.                                      *)
(***************************************************************************)
Contract == INSTANCE ChatStream WITH
  expected <- expected, delivered <- UpToTerminal(out), status <- Ending(out)

ImplementsChatStream == Contract!Spec

(***************************************************************************)
(* A stream whose response is over comes to its end.                       *)
(***************************************************************************)
Ends == conn # "up" ~> phase = "closed"

================================================================================
