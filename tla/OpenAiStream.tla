------------------------------ MODULE OpenAiStream -----------------------------
(***************************************************************************)
(* One chat_stream call of the OpenAI-compatible adapter                   *)
(* (crates/ai-providers/src/openai_compatible/provider.rs): open_stream,   *)
(* then StreamState::pump, one step per turn of its loop, over the parser  *)
(* of SseParser.  The response is a script of frames fixed at the outset;  *)
(* the transport delivers it in chunks cut anywhere and may stop anywhere. *)
(***************************************************************************)
EXTENDS SseParser, StreamItems

CONSTANT MaxFrames \* bound on the frames of a response

(***************************************************************************)
(* Payloads: what one chunk of the wire format holds.  A fragment is       *)
(* filled when it carries a name or arguments.                             *)
(***************************************************************************)
Text == [kind |-> "text"]
Usage == [kind |-> "usage"]
Fragment(i, id, filled) ==
  [kind |-> "fragment", index |-> i, id |-> id, filled |-> filled]
Fragments == {Fragment(i, id, f) : i \in Indices, id \in Ids \cup {NoId}, f \in BOOLEAN}

Chunk(deltas) == [kind |-> "chunk", deltas |-> deltas]
DoneMark == [kind |-> "done"]
Malformed == [kind |-> "malformed"]

(***************************************************************************)
(* A frame is a payload on one data line, one wrapped over two, or an      *)
(* aside that stands for nothing.                                          *)
(***************************************************************************)
Plain(p) == [payload |-> p, wrapped |-> FALSE]
FragmentChunks ==
  {Chunk(<<f>>) : f \in {g \in Fragments : g.filled}}
    \cup {Chunk(<<f, Fragment(f.index, NoId, TRUE)>>) : f \in Fragments}

Frames ==
  {Plain(p) : p \in FragmentChunks \cup {Chunk(<<>>), DoneMark, Malformed}}
    \cup {[payload |-> Chunk(<<Text, Usage>>), wrapped |-> TRUE],
          Plain(Aside)}

Piece(p, n) == [kind |-> "piece", of |-> p, n |-> n]

Bytes(f, eol) ==
  IF f.payload = Aside THEN <<Aside>> \o eol \o eol
  ELSE <<Piece(f.payload, 1)>> \o (IF f.wrapped THEN eol ELSE <<>>)
         \o <<Piece(f.payload, 2)>> \o eol \o eol

VARIABLES
  script,         \* the response: frames, and the line end they use
  arrived,        \* how many of its bytes have been delivered
  conn,           \* the connection: "up", "eof" or "reset"
  phase,          \* of the stream: "new", "open", "failed" to open, "closed"
  parser,
  pending,        \* events decoded and not yet yielded
  tool_call_ids,  \* the id last seen for each index
  finished,
  done_emitted,
  out,            \* the items the consumer has got
  expected        \* history: the events that what has arrived stands for

vars == <<script, arrived, conn, phase, parser, pending, tool_call_ids, finished,
          done_emitted, out, expected>>

BytesOf(frames, eol) ==
  FlattenSeq([k \in DOMAIN frames |-> Bytes(frames[k], eol)])

Scripts ==
  {[frames |-> fs, eol |-> eol, bytes |-> BytesOf(fs, eol)] :
     fs \in BoundedSeq(Frames, MaxFrames), eol \in {<<LF>>, <<CR>>, <<CR, LF>>}}

Init ==
  /\ script \in Scripts
  /\ arrived = 0
  /\ conn = "up"
  /\ phase = "new"
  /\ parser = EmptyParser
  /\ pending = <<>>
  /\ tool_call_ids = [i \in Indices |-> NoId]
  /\ finished = FALSE
  /\ done_emitted = FALSE
  /\ out = <<>>
  /\ expected = <<>>

--------------------------------------------------------------------------------
(***************************************************************************)
(* open_stream: a request that is refused (capabilities, credential, gate, *)
(* transport, status) becomes a stream of one error.                       *)
(***************************************************************************)
Open ==
  /\ phase = "new"
  /\ \/ phase' = "open" /\ UNCHANGED out
     \/ phase' = "failed" /\ out' = <<ErrItem>>
  /\ UNCHANGED <<script, arrived, conn, parser, pending, tool_call_ids, finished,
                 done_emitted, expected>>

(***************************************************************************)
(* fragment_to_event: which call a fragment belongs to, and its event if   *)
(* it has one.                                                             *)
(***************************************************************************)
Synthetic(i) == [synthetic |-> i]

CallId(ids, f) ==
  CASE f.id # NoId -> f.id
    [] f.id = NoId /\ ids[f.index] # NoId -> ids[f.index]
    [] OTHER -> Synthetic(f.index)

FragmentToEvent(acc, f) ==
  LET id == CallId(acc.ids, f) IN
  [ids |-> [acc.ids EXCEPT ![f.index] = id],
   events |-> IF f.filled
                THEN Append(acc.events, [kind |-> "tool", call |-> id])
                ELSE acc.events]

(***************************************************************************)
(* Mutation of DeltaToEvent: an id is not remembered.                      *)
(***************************************************************************)
DeltaToEventForgets(acc, d) ==
  IF d.kind = "fragment"
    THEN [ids |-> acc.ids, events |-> FragmentToEvent(acc, d).events]
    ELSE [acc EXCEPT !.events = Append(@, d)]

DeltaToEvent(acc, d) ==
  IF d.kind = "fragment" THEN FragmentToEvent(acc, d)
                         ELSE [acc EXCEPT !.events = Append(@, d)]

(***************************************************************************)
(* drain_events: the payloads up to the first [DONE] or malformed one are  *)
(* decoded; the parser's queue beyond it is never looked at.               *)
(***************************************************************************)
Decoded(lines) ==
  CASE Len(lines) = 2 /\ lines[1].of = lines[2].of -> lines[1].of
    [] OTHER -> Malformed

Stops(p) == p.kind # "chunk"
PayloadsBefore(ps, cut) == IF cut = 0 THEN ps ELSE SubSeq(ps, 1, cut - 1)
DeltasOf(ps) == FlattenSeq([k \in DOMAIN ps |-> ps[k].deltas])

DrainEvents(completed) ==
  LET payloads == [k \in DOMAIN completed |-> Decoded(completed[k])]
      cut == SelectInSeq(payloads, Stops)
      deltas == DeltasOf(PayloadsBefore(payloads, cut))
      acc[n \in 0 .. Len(deltas)] ==
        IF n = 0 THEN [ids |-> tool_call_ids, events |-> <<>>]
                 ELSE DeltaToEvent(acc[n - 1], deltas[n])
  IN [ids |-> acc[Len(deltas)].ids, events |-> acc[Len(deltas)].events,
      end |-> IF cut = 0 THEN "none" ELSE payloads[cut].kind]

--------------------------------------------------------------------------------
(***************************************************************************)
(* The reference: the events that the first n bytes of the response stand  *)
(* for, up to the first [DONE] or malformed payload.  A frame is complete  *)
(* at the first byte of its second line end.  A fragment belongs to the    *)
(* call whose id was last sent for its index, or to a synthetic one as     *)
(* long as none was.                                                       *)
(***************************************************************************)
FrameEnd(k) ==
  Len(BytesOf(SubSeq(script.frames, 1, k), script.eol)) - Len(script.eol) + 1

ArrivedPayloads(n) ==
  LET payload(k) == script.frames[k].payload
      whole == {k \in DOMAIN script.frames : FrameEnd(k) <= n}
  IN FlattenSeq([k \in whole |-> IF payload(k) = Aside THEN <<>> ELSE <<payload(k)>>])

EventAt(ds, k) ==
  LET named == {j \in 1 .. k : ds[j].kind = "fragment" /\ ds[j].index = ds[k].index
                                 /\ ds[j].id # NoId}
  IN IF ds[k].kind # "fragment" THEN ds[k]
     ELSE [kind |-> "tool",
           call |-> IF named = {} THEN Synthetic(ds[k].index) ELSE ds[Max(named)].id]

Surfaces(d) == d.kind # "fragment" \/ d.filled

Surfacing(ds) ==
  FlattenSeq([k \in DOMAIN ds |-> IF Surfaces(ds[k]) THEN <<EventAt(ds, k)>> ELSE <<>>])

Meaning(n) ==
  LET ps == ArrivedPayloads(n)
  IN Surfacing(DeltasOf(PayloadsBefore(ps, SelectInSeq(ps, Stops))))

--------------------------------------------------------------------------------
(***************************************************************************)
(* StreamState::pump.  Events decoded earlier go first.                    *)
(***************************************************************************)
PopPending ==
  /\ phase = "open"
  /\ pending # <<>>
  /\ out' = Append(out, pending[1])
  /\ pending' = Tail(pending)
  /\ UNCHANGED <<script, arrived, conn, phase, parser, tool_call_ids, finished,
                 done_emitted, expected>>

(***************************************************************************)
(* Mutation of EmitDone: the item is yielded and not recorded.             *)
(***************************************************************************)
EmitDoneForgets ==
  /\ phase = "open"
  /\ pending = <<>> /\ finished /\ ~done_emitted
  /\ out' = Append(out, DoneItem)
  /\ UNCHANGED <<script, arrived, conn, phase, parser, pending, tool_call_ids,
                 finished, done_emitted, expected>>

EmitDone ==
  /\ phase = "open"
  /\ pending = <<>> /\ finished /\ ~done_emitted
  /\ done_emitted' = TRUE
  /\ out' = Append(out, DoneItem)
  /\ UNCHANGED <<script, arrived, conn, phase, parser, pending, tool_call_ids,
                 finished, expected>>

Close ==
  /\ \/ phase = "failed"
     \/ phase = "open" /\ pending = <<>> /\ finished /\ done_emitted
  /\ phase' = "closed"
  /\ UNCHANGED <<script, arrived, conn, parser, pending, tool_call_ids, finished,
                 done_emitted, out, expected>>

Reads == phase = "open" /\ pending = <<>> /\ ~finished

(***************************************************************************)
(* A chunk arrives: feed takes it byte by byte, and where it ends          *)
(* drain_events follows.  The transport decides where that is.             *)
(***************************************************************************)
FeedByte ==
  /\ Reads
  /\ conn = "up"
  /\ arrived < Len(script.bytes)
  /\ arrived' = arrived + 1
  /\ parser' = Byte(parser, script.bytes[arrived + 1])
  /\ expected' = Meaning(arrived + 1)
  /\ UNCHANGED <<script, conn, phase, pending, tool_call_ids, finished,
                 done_emitted, out>>

DrainChunk ==
  /\ Reads
  /\ parser.completed # <<>>
  /\ LET drained == DrainEvents(parser.completed)
     IN /\ pending' = drained.events
        /\ tool_call_ids' = drained.ids
        /\ finished' = (drained.end # "none")
        /\ done_emitted' = (drained.end = "malformed")
        /\ out' = IF drained.end = "malformed" THEN Append(out, ErrItem) ELSE out
  /\ parser' = [parser EXCEPT !.completed = <<>>]
  /\ UNCHANGED <<script, arrived, conn, phase, expected>>

(***************************************************************************)
(* Mutation of ReadEnd: the end of the response is not the stream's.       *)
(***************************************************************************)
ReadEndIgnored ==
  /\ Reads
  /\ conn = "reset"
  /\ finished' = TRUE
  /\ done_emitted' = TRUE
  /\ out' = Append(out, ErrItem)
  /\ UNCHANGED <<script, arrived, conn, phase, parser, pending, tool_call_ids,
                 expected>>

(***************************************************************************)
(* The response has ended or the transport has failed; an event that has   *)
(* not been completed is dropped.                                          *)
(***************************************************************************)
ReadEnd ==
  /\ Reads
  /\ conn # "up"
  /\ finished' = TRUE
  /\ done_emitted' = (conn = "reset")
  /\ out' = IF conn = "reset" THEN Append(out, ErrItem) ELSE out
  /\ UNCHANGED <<script, arrived, conn, phase, parser, pending, tool_call_ids,
                 expected>>

(***************************************************************************)
(* The connection ends between two chunks.                                 *)
(***************************************************************************)
HangUp ==
  /\ phase = "open" /\ conn = "up"
  /\ parser.completed = <<>>
  /\ conn' \in {"eof", "reset"}
  /\ UNCHANGED <<script, arrived, phase, parser, pending, tool_call_ids, finished,
                 done_emitted, out, expected>>

Pump == PopPending \/ EmitDone \/ Close \/ ReadEnd

Next ==
  \/ Open
  \/ Pump
  \/ FeedByte \/ DrainChunk
  \/ HangUp

(***************************************************************************)
(* The consumer keeps polling.  Nobody obliges the server to send, to end  *)
(* a chunk or to hang up: the client has no read timeout.                  *)
(***************************************************************************)
Fairness == WF_vars(Pump)

Spec == Init /\ [][Next]_vars /\ Fairness

--------------------------------------------------------------------------------
(***************************************************************************)
(* Type invariant.                                                         *)
(***************************************************************************)
TypeOK ==
  /\ arrived \in 0 .. Len(script.bytes)
  /\ conn \in {"up", "eof", "reset"}
  /\ phase \in {"new", "open", "failed", "closed"}
  /\ tool_call_ids \in
       [Indices -> Ids \cup {NoId} \cup {Synthetic(i) : i \in Indices}]

(***************************************************************************)
(* What the pump's two flags mean together: done_emitted says that a       *)
(* terminal item is out, and there is never a second one.                  *)
(***************************************************************************)
OneTerminal ==
  /\ done_emitted => finished
  /\ phase = "open" => (done_emitted <=> HasTerminal(out))
  /\ \A j, k \in DOMAIN out : {out[j], out[k]} \subseteq Terminals => j = k

(***************************************************************************)
(* However the response is cut into chunks, whichever line end it uses and *)
(* wherever it stops, nothing is lost: when the stream has closed, every   *)
(* event of every complete frame before the first [DONE] or malformed one  *)
(* has been yielded, in order, under the right call.                       *)
(***************************************************************************)
EverythingSurfaces ==
  phase = "closed" => Events(out) = expected

(***************************************************************************)
(* To a consumer that stops at the first terminal item the adapter         *)
(* implements ChatStream.                                                  *)
(***************************************************************************)
Contract == INSTANCE ChatStream WITH
  expected <- expected, delivered <- UpToTerminal(out), status <- Ending(out)

ImplementsChatStream == Contract!Spec

(***************************************************************************)
(* A stream whose response is over, or that has seen [DONE] or an error,   *)
(* comes to its end.                                                       *)
(***************************************************************************)
Ends == (finished \/ conn # "up") ~> (phase = "closed")

(***************************************************************************)
(* "no further events are emitted afterwards" (provider.rs:519-520).  They *)
(* are: see the run OpenAiAfterError.                                      *)
(***************************************************************************)
NothingAfterError ==
  \A k \in DOMAIN out : out[k] = ErrItem => k = Len(out)

================================================================================
