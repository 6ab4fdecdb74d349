-------------------------------- MODULE Tables ---------------------------------
(***************************************************************************)
(* The tables of the database (crates/persistence/migrations/0001, 0002)   *)
(* and what one write of a repository (crates/persistence/src/workspace,   *)
(* session, chat, turn, attachment, permission) does to them: which        *)
(* requests it refuses and which rows its statements change, the cascades  *)
(* of the foreign keys and the triggers of the search index included.      *)
(* Titles, payloads, bytes and timestamps are left out.                    *)
(***************************************************************************)
EXTENDS Integers

CONSTANTS
  Workspaces, Sessions, Chats, Turns, Attachments, Grants,  \* row ids
  None        \* SQL NULL, and the row of an id that is not in its table

--------------------------------------------------------------------------------
(***************************************************************************)
(* Rows.  head_turn_id is no foreign key of the schema; sequence is the    *)
(* turn's place in its chat.  Of grants and recents only the primary key   *)
(* is kept (a grant always has the same tool); the index is a table of     *)
(* (turn_id, chat_id).                                                     *)
(***************************************************************************)
ChatRows == [workspace : Workspaces, head : Turns \cup {None}]
TurnRows == [chat : Chats, parent : Turns \cup {None}, sequence : Nat \ {0}]
GrantRows == [workspace : Workspaces, grant : Grants]
IndexRows == [turn : Turns, chat : Chats]

Databases ==
  [workspaces : SUBSET Workspaces,
   sessions : [Sessions -> Workspaces \cup {None}],
   chats : [Chats -> ChatRows \cup {None}],
   turns : [Turns -> TurnRows \cup {None}],
   attachments : [Attachments -> Turns \cup {None}],
   grants : SUBSET GrantRows,
   recents : SUBSET Workspaces,
   indexed : SUBSET IndexRows]

Empty ==
  [workspaces |-> {},
   sessions |-> [s \in Sessions |-> None],
   chats |-> [c \in Chats |-> None],
   turns |-> [t \in Turns |-> None],
   attachments |-> [a \in Attachments |-> None],
   grants |-> {},
   recents |-> {},
   indexed |-> {}]

Has(table, id) == table[id] # None
SessionsOf(d, w) == {s \in Sessions : d.sessions[s] = w}
ChatsOf(d, w) == {c \in Chats : Has(d.chats, c) /\ d.chats[c].workspace = w}
TurnsOf(d, c) == {t \in Turns : Has(d.turns, t) /\ d.turns[t].chat = c}
TurnsOfAny(d, chats) == UNION {TurnsOf(d, c) : c \in chats}
Without(table, gone) ==
  [id \in DOMAIN table |-> IF id \in gone THEN None ELSE table[id]]

--------------------------------------------------------------------------------
(***************************************************************************)
(* The writes of the repositories.                                         *)
(***************************************************************************)
Requests ==
  [op : {"workspace_upsert", "workspace_delete", "record_opened", "forget"},
   workspace : Workspaces]
    \cup [op : {"session_upsert"}, session : Sessions, workspace : Workspaces]
    \cup [op : {"session_delete"}, session : Sessions]
    \cup [op : {"chat_upsert"}, chat : Chats, workspace : Workspaces]
    \cup [op : {"chat_delete"}, chat : Chats]
    \cup [op : {"set_head_turn"}, chat : Chats, turn : Turns \cup {None}]
    \cup [op : {"append"}, turn : Turns, chat : Chats,
          parent : Turns \cup {None}]
    \cup [op : {"put"}, attachment : Attachments, turn : Turns \cup {None}]
    \cup [op : {"attachment_delete"}, attachment : Attachments]
    \cup [op : {"grant_upsert"}, grant : Grants, workspace : Workspaces,
          decision : {"allow", "deny"}]
    \cup [op : {"grant_delete"}, grant : Grants]

ASSUME NoneAssumption ==
  /\ None \notin Workspaces \cup Turns \cup ChatRows \cup TurnRows
  /\ None \notin Requests /\ None \notin Databases

(***************************************************************************)
(* A foreign key, a primary key or a NOT NULL column the statement would   *)
(* violate; SQLite looks at its end, so that a turn may be its own parent. *)
(***************************************************************************)
Violates(d, r) ==
  \/ /\ r.op \in {"session_upsert", "chat_upsert", "grant_upsert"}
     /\ r.workspace \notin d.workspaces
  \/ /\ r.op = "append"
     /\ \/ Has(d.turns, r.turn)
        \/ ~Has(d.chats, r.chat)
        \/ r.parent \notin {None, r.turn} /\ ~Has(d.turns, r.parent)
  \/ r.op = "put" /\ (r.turn = None \/ ~Has(d.turns, r.turn))

OwnsSessions(d, r) ==
  r.op = "workspace_delete" /\ SessionsOf(d, r.workspace) # {}

(***************************************************************************)
(* Mutation of Conflicts: the head may be moved to another chat's turn.    *)
(***************************************************************************)
ConflictsAnyOwner(d, r) == Violates(d, r) \/ OwnsSessions(d, r)

(***************************************************************************)
(* Mutation of Conflicts: a workspace is deleted with its sessions.        *)
(***************************************************************************)
ConflictsButSessions(d, r) ==
  \/ Violates(d, r)
  \/ /\ r.op = "set_head_turn" /\ r.turn # None
     /\ Has(d.chats, r.chat) /\ Has(d.turns, r.turn)
     /\ d.turns[r.turn].chat # r.chat

(***************************************************************************)
(* ConflictingWrite: a constraint, or a conflict() of the repository.      *)
(***************************************************************************)
Conflicts(d, r) ==
  \/ Violates(d, r)
  \/ OwnsSessions(d, r)
  \/ /\ r.op = "set_head_turn" /\ r.turn # None
     /\ Has(d.chats, r.chat) /\ Has(d.turns, r.turn)
     /\ d.turns[r.turn].chat # r.chat

(***************************************************************************)
(* not_found() of the repositories; forget and the deletes of attachments  *)
(* and grants say nothing of a row that is not there.                      *)
(***************************************************************************)
Missing(d, r) ==
  \/ r.op \in {"workspace_delete", "record_opened"}
       /\ r.workspace \notin d.workspaces
  \/ r.op = "session_delete" /\ ~Has(d.sessions, r.session)
  \/ r.op \in {"chat_delete", "set_head_turn"} /\ ~Has(d.chats, r.chat)
  \/ r.op = "set_head_turn" /\ r.turn # None /\ ~Has(d.turns, r.turn)

Verdict(d, r) ==
  CASE Conflicts(d, r) -> "ConflictingWrite"
    [] ~Conflicts(d, r) /\ Missing(d, r) -> "NotFound"
    [] OTHER -> "Ok"

--------------------------------------------------------------------------------
(***************************************************************************)
(* Mutation of DeleteChats: an attachment has no foreign key to its turn.  *)
(***************************************************************************)
DeleteChatsKeepingAttachments(d, gone) ==
  LET lost == TurnsOfAny(d, gone)
  IN [d EXCEPT
        !.chats = Without(d.chats, gone),
        !.turns =
          [t \in Turns |->
             IF t \in lost THEN None
             ELSE IF Has(d.turns, t) /\ d.turns[t].parent \in lost
               THEN [d.turns[t] EXCEPT !.parent = None]
               ELSE d.turns[t]],
        !.indexed = {row \in @ : row.turn \notin lost}]

(***************************************************************************)
(* Mutation of DeleteChats: the delete trigger of the index is missing.    *)
(***************************************************************************)
DeleteChatsKeepingIndex(d, gone) ==
  LET lost == TurnsOfAny(d, gone)
  IN [d EXCEPT
        !.chats = Without(d.chats, gone),
        !.turns =
          [t \in Turns |->
             IF t \in lost THEN None
             ELSE IF Has(d.turns, t) /\ d.turns[t].parent \in lost
               THEN [d.turns[t] EXCEPT !.parent = None]
               ELSE d.turns[t]],
        !.attachments =
          [a \in Attachments |->
             IF d.attachments[a] \in lost THEN None ELSE d.attachments[a]]]

(***************************************************************************)
(* Deletes.  A chat takes its turns with it (ON DELETE CASCADE), a turn    *)
(* its attachments and, by trigger, its index rows; a turn of another chat *)
(* whose parent goes becomes a root (ON DELETE SET NULL).                  *)
(***************************************************************************)
DeleteChats(d, gone) ==
  LET lost == TurnsOfAny(d, gone)
  IN [d EXCEPT
        !.chats = Without(d.chats, gone),
        !.turns =
          [t \in Turns |->
             IF t \in lost THEN None
             ELSE IF Has(d.turns, t) /\ d.turns[t].parent \in lost
               THEN [d.turns[t] EXCEPT !.parent = None]
               ELSE d.turns[t]],
        !.attachments =
          [a \in Attachments |->
             IF d.attachments[a] \in lost THEN None ELSE d.attachments[a]],
        !.indexed = {row \in @ : row.turn \notin lost}]

DeleteWorkspace(d, w) ==
  [DeleteChats(d, ChatsOf(d, w)) EXCEPT
     !.workspaces = @ \ {w},
     !.sessions = Without(d.sessions, SessionsOf(d, w)),
     !.grants = {row \in @ : row.workspace # w},
     !.recents = @ \ {w}]

(***************************************************************************)
(* Mutation of UpsertChat: INSERT OR REPLACE, which deletes the old row.   *)
(***************************************************************************)
ReplaceChat(d, c, w) ==
  [DeleteChats(d, {c}) EXCEPT !.chats[c] = [workspace |-> w, head |-> None]]

(***************************************************************************)
(* An upsert inserts, or updates the columns its ON CONFLICT names: the    *)
(* head of a chat is not among them.                                       *)
(***************************************************************************)
UpsertChat(d, c, w) ==
  [d EXCEPT !.chats[c] =
     [workspace |-> w,
      head |-> IF Has(d.chats, c) THEN d.chats[c].head ELSE None]]

(***************************************************************************)
(* append: the next free place of the chat, COALESCE(MAX(sequence), 0) + 1;*)
(* the insert trigger mirrors the turn in the index.                       *)
(***************************************************************************)
SequencesOf(d, c) == {d.turns[t].sequence : t \in TurnsOf(d, c)}

NextSequence(d, c) ==
  CHOOSE n \in {1} \cup {s + 1 : s \in SequencesOf(d, c)} :
    \A s \in SequencesOf(d, c) : s < n

AppendTurn(d, t, c, parent) ==
  [d EXCEPT
     !.turns[t] =
       [chat |-> c, parent |-> parent, sequence |-> NextSequence(d, c)],
     !.indexed = @ \cup {[turn |-> t, chat |-> c]}]

(***************************************************************************)
(* The other statements touch one row of one table.                        *)
(***************************************************************************)
UpsertWorkspace(d, w) == [d EXCEPT !.workspaces = @ \cup {w}]
RecordOpened(d, w) == [d EXCEPT !.recents = @ \cup {w}]
Forget(d, w) == [d EXCEPT !.recents = @ \ {w}]
SetSession(d, s, w) == [d EXCEPT !.sessions[s] = w]
SetHeadTurn(d, c, t) == [d EXCEPT !.chats[c].head = t]
SetAttachment(d, a, t) == [d EXCEPT !.attachments[a] = t]
UpsertGrant(d, w, g) ==
  [d EXCEPT !.grants = @ \cup {[workspace |-> w, grant |-> g]}]
DeleteGrant(d, g) == [d EXCEPT !.grants = {row \in @ : row.grant # g}]

Effect(d, r) ==
  CASE r.op = "workspace_upsert" -> UpsertWorkspace(d, r.workspace)
    [] r.op = "workspace_delete" -> DeleteWorkspace(d, r.workspace)
    [] r.op = "record_opened" -> RecordOpened(d, r.workspace)
    [] r.op = "forget" -> Forget(d, r.workspace)
    [] r.op = "session_upsert" -> SetSession(d, r.session, r.workspace)
    [] r.op = "session_delete" -> SetSession(d, r.session, None)
    [] r.op = "chat_upsert" -> UpsertChat(d, r.chat, r.workspace)
    [] r.op = "chat_delete" -> DeleteChats(d, {r.chat})
    [] r.op = "set_head_turn" -> SetHeadTurn(d, r.chat, r.turn)
    [] r.op = "append" -> AppendTurn(d, r.turn, r.chat, r.parent)
    [] r.op = "put" -> SetAttachment(d, r.attachment, r.turn)
    [] r.op = "attachment_delete" -> SetAttachment(d, r.attachment, None)
    [] r.op = "grant_upsert" -> UpsertGrant(d, r.workspace, r.grant)
    [] r.op = "grant_delete" -> DeleteGrant(d, r.grant)

--------------------------------------------------------------------------------
(***************************************************************************)
(* The reads.  A transcript is in the order of sequence; a row of a grant  *)
(* has no column for the decision, and reads back as one that allows.      *)
(***************************************************************************)
Transcript(d, c) ==
  [n \in SequencesOf(d, c) |->
     CHOOSE t \in TurnsOf(d, c) : d.turns[t].sequence = n]

GrantsOfWorkspace(d, w) ==
  {[grant |-> row.grant, decision |-> "allow"] :
     row \in {g \in d.grants : g.workspace = w}}

================================================================================
