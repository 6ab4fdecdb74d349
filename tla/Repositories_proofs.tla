-------------------------- MODULE Repositories_proofs --------------------------
(***************************************************************************)
(* Proofs about Repositories, for any rows, callers, bounds and faults.    *)
(***************************************************************************)
EXTENDS Repositories, TLAPS, WellFoundedInduction

(***************************************************************************)
(* What holds of the database and of every open transaction's draft.  The  *)
(* bound on the sequences is what makes the next one exist; a chat's turns *)
(* are told apart by theirs.                                               *)
(***************************************************************************)
Bounded(d) ==
  \E m \in Nat : \A t \in Turns : Has(d.turns, t) => d.turns[t].sequence < m

Numbered(d) ==
  \A c \in Chats : \A t, u \in TurnsOf(d, c) :
    d.turns[t].sequence = d.turns[u].sequence => t = u

Good(d) ==
  /\ d \in Databases
  /\ Bounded(d)
  /\ Numbered(d)
  /\ Resolved(d)
  /\ HeadsOwned(d)
  /\ Mirrored(d)

(***************************************************************************)
(* Membership of a database, column by column.                             *)
(***************************************************************************)
LEMMA Columns ==
  ASSUME NEW d \in Databases
  PROVE  /\ d.workspaces \subseteq Workspaces
         /\ d.sessions \in [Sessions -> Workspaces \cup {None}]
         /\ d.chats \in [Chats -> ChatRows \cup {None}]
         /\ d.turns \in [Turns -> TurnRows \cup {None}]
         /\ d.attachments \in [Attachments -> Turns \cup {None}]
         /\ d.grants \subseteq GrantRows
         /\ d.recents \subseteq Workspaces
         /\ d.indexed \subseteq IndexRows
  BY DEF Databases

LEMMA ChatRow ==
  ASSUME NEW d \in Databases, NEW c \in Chats, Has(d.chats, c)
  PROVE  d.chats[c].workspace \in Workspaces /\ d.chats[c].head \in Turns \cup {None}
  BY Columns DEF Has, ChatRows

LEMMA TurnRow ==
  ASSUME NEW d \in Databases, NEW t \in Turns, Has(d.turns, t)
  PROVE  /\ d.turns[t].chat \in Chats
         /\ d.turns[t].parent \in Turns \cup {None}
         /\ d.turns[t].sequence \in Nat \ {0}
  BY Columns DEF Has, TurnRows

(***************************************************************************)
(* The least number above the sequences of a chat is 1 or the successor of *)
(* one of them, hence the one NextSequence chooses exists.                 *)
(***************************************************************************)
LEMMA NextSequenceIsNext ==
  ASSUME NEW d \in Databases, NEW c \in Chats, Bounded(d)
  PROVE  /\ NextSequence(d, c) \in Nat \ {0}
         /\ \A t \in TurnsOf(d, c) : d.turns[t].sequence < NextSequence(d, c)
<1> DEFINE S == SequencesOf(d, c)
<1> DEFINE Above == {n \in Nat : n > 0 /\ \A s \in S : s < n}
<1>1. S \subseteq Nat \ {0}
  BY TurnRow DEF SequencesOf, TurnsOf
<1>2. PICK m \in Nat : \A t \in Turns : Has(d.turns, t) => d.turns[t].sequence < m
  BY DEF Bounded
<1>3. m + 1 \in Above
  <2>1. \A s \in S : s < m
    BY <1>2 DEF SequencesOf, TurnsOf
  <2> QED  BY <1>1, <2>1
<1> HIDE DEF S
<1>4. PICK n \in Above : \A k \in Above : n <= k
  <2>1. PICK n \in Above : \A k \in Above : ~(<<k, n>> \in OpToRel(<, Nat))
    BY <1>3, NatLessThanWellFounded, WFMin
  <2>2. \A k \in Above : ~(k < n)
    BY <2>1 DEF OpToRel
  <2> QED  BY <2>2
<1>5. n \in {1} \cup {s + 1 : s \in S}
  <2>1. CASE n = 1
    BY <2>1
  <2>2. CASE n # 1
    <3>1. n - 1 \in Nat /\ n - 1 > 0 /\ n - 1 \notin Above
      BY <1>4, <2>2
    <3>2. PICK s \in S : ~(s < n - 1)
      BY <3>1
    <3>3. s < n /\ s \in Nat
      BY <1>1, <1>4
    <3>4. n = s + 1
      BY <3>2, <3>3, <1>4
    <3> QED  BY <3>4
  <2> QED  BY <2>1, <2>2
<1>6. \A s \in S : s < n
  BY <1>4
<1>7. \E k \in {1} \cup {s + 1 : s \in S} : \A s \in S : s < k
  BY <1>5, <1>6
<1>8. /\ NextSequence(d, c) \in {1} \cup {s + 1 : s \in S}
      /\ \A s \in S : s < NextSequence(d, c)
  BY <1>7 DEF NextSequence, S
<1>9. NextSequence(d, c) \in Nat \ {0}
  BY <1>8, <1>1
<1>10. \A t \in TurnsOf(d, c) : d.turns[t].sequence \in S
  BY DEF S, SequencesOf
<1> QED  BY <1>8, <1>9, <1>10

--------------------------------------------------------------------------------
(***************************************************************************)
(* Each write keeps a good database good.  new is the database after it,   *)
(* given by its columns.                                                   *)
(***************************************************************************)
LEMMA NoneIsNoRow ==
  /\ None \notin Workspaces /\ None \notin Turns
  /\ None \notin ChatRows /\ None \notin TurnRows
  BY NoneAssumption

LEMMA SameTurnsGood ==
  ASSUME NEW d, Good(d), NEW new \in Databases, Resolved(new),
         new.chats = d.chats, new.turns = d.turns, new.indexed = d.indexed
  PROVE  Good(new)
<1>1. \A c : TurnsOf(new, c) = TurnsOf(d, c)
  BY DEF TurnsOf
<1>2. Mirrored(new)
  BY <1>1 DEF Good, Mirrored
<1>3. HeadsOwned(new)
  BY <1>1 DEF Good, HeadsOwned
<1>4. Bounded(new)
  BY DEF Good, Bounded
<1>5. Numbered(new)
  BY <1>1 DEF Good, Numbered
<1> QED  BY <1>2, <1>3, <1>4, <1>5 DEF Good

LEMMA UpsertWorkspaceGood ==
  ASSUME NEW d, Good(d), NEW w \in Workspaces
  PROVE  Good([d EXCEPT !.workspaces = @ \cup {w}])
<1> DEFINE new == [d EXCEPT !.workspaces = @ \cup {w}]
<1>1. d \in Databases /\ new \in Databases
  BY DEF Good, Databases
<1>2. /\ new.workspaces = d.workspaces \cup {w}
      /\ new.sessions = d.sessions /\ new.chats = d.chats
      /\ new.turns = d.turns /\ new.attachments = d.attachments
      /\ new.grants = d.grants /\ new.recents = d.recents
      /\ new.indexed = d.indexed
  BY <1>1 DEF Databases
<1> HIDE DEF new
<1>3. Resolved(new)
  BY <1>1, <1>2, Columns DEF Good, Resolved, Has
<1>4. Good(new)
  BY <1>1, <1>2, <1>3, SameTurnsGood
<1> QED  BY <1>4 DEF new

LEMMA RecentsGood ==
  ASSUME NEW d, Good(d), NEW R \in SUBSET d.workspaces
  PROVE  Good([d EXCEPT !.recents = R])
<1> DEFINE new == [d EXCEPT !.recents = R]
<1>1. d \in Databases /\ new \in Databases
  BY DEF Good, Databases
<1>2. /\ new.workspaces = d.workspaces
      /\ new.sessions = d.sessions /\ new.chats = d.chats
      /\ new.turns = d.turns /\ new.attachments = d.attachments
      /\ new.grants = d.grants /\ new.recents = R
      /\ new.indexed = d.indexed
  BY <1>1 DEF Databases
<1> HIDE DEF new
<1>3. Resolved(new)
  BY <1>1, <1>2, Columns DEF Good, Resolved, Has
<1>4. Good(new)
  BY <1>1, <1>2, <1>3, SameTurnsGood
<1> QED  BY <1>4 DEF new

LEMMA SessionGood ==
  ASSUME NEW d, Good(d), NEW s \in Sessions, NEW w \in d.workspaces \cup {None}
  PROVE  Good([d EXCEPT !.sessions[s] = w])
<1> DEFINE new == [d EXCEPT !.sessions[s] = w]
<1>1. d \in Databases /\ new \in Databases
  BY DEF Good, Databases
<1>2. /\ new.workspaces = d.workspaces
      /\ new.sessions = [d.sessions EXCEPT ![s] = w] /\ new.chats = d.chats
      /\ new.turns = d.turns /\ new.attachments = d.attachments
      /\ new.grants = d.grants /\ new.recents = d.recents
      /\ new.indexed = d.indexed
  BY <1>1 DEF Databases
<1> HIDE DEF new
<1>3. Resolved(new)
  BY <1>1, <1>2, Columns DEF Good, Resolved, Has
<1>4. Good(new)
  BY <1>1, <1>2, <1>3, SameTurnsGood
<1> QED  BY <1>4 DEF new

LEMMA AttachmentGood ==
  ASSUME NEW d, Good(d), NEW a \in Attachments, NEW t \in Turns \cup {None},
         t # None => Has(d.turns, t)
  PROVE  Good([d EXCEPT !.attachments[a] = t])
<1> DEFINE new == [d EXCEPT !.attachments[a] = t]
<1>1. d \in Databases /\ new \in Databases
  BY DEF Good, Databases
<1>2. /\ new.workspaces = d.workspaces
      /\ new.sessions = d.sessions /\ new.chats = d.chats
      /\ new.turns = d.turns
      /\ new.attachments = [d.attachments EXCEPT ![a] = t]
      /\ new.grants = d.grants /\ new.recents = d.recents
      /\ new.indexed = d.indexed
  BY <1>1 DEF Databases
<1> HIDE DEF new
<1>3. Resolved(new)
  BY <1>1, <1>2, Columns DEF Good, Resolved, Has
<1>4. Good(new)
  BY <1>1, <1>2, <1>3, SameTurnsGood
<1> QED  BY <1>4 DEF new

LEMMA GrantsGood ==
  ASSUME NEW d, Good(d), NEW G \in SUBSET GrantRows,
         \A row \in G : row.workspace \in d.workspaces
  PROVE  Good([d EXCEPT !.grants = G])
<1> DEFINE new == [d EXCEPT !.grants = G]
<1>1. d \in Databases /\ new \in Databases
  BY DEF Good, Databases
<1>2. /\ new.workspaces = d.workspaces
      /\ new.sessions = d.sessions /\ new.chats = d.chats
      /\ new.turns = d.turns /\ new.attachments = d.attachments
      /\ new.grants = G /\ new.recents = d.recents
      /\ new.indexed = d.indexed
  BY <1>1 DEF Databases
<1> HIDE DEF new
<1>3. Resolved(new)
  BY <1>1, <1>2, Columns DEF Good, Resolved, Has
<1>4. Good(new)
  BY <1>1, <1>2, <1>3, SameTurnsGood
<1> QED  BY <1>4 DEF new

(***************************************************************************)
(* A chat row is written: an upsert, which keeps the head of a chat that   *)
(* is there, or a new head among the chat's turns.                         *)
(***************************************************************************)
LEMMA ChatGood ==
  ASSUME NEW d, Good(d), NEW c \in Chats, NEW w \in d.workspaces,
         NEW h \in Turns \cup {None}, h # None => h \in TurnsOf(d, c)
  PROVE  Good([d EXCEPT !.chats[c] = [workspace |-> w, head |-> h]])
<1> DEFINE row == [workspace |-> w, head |-> h]
<1> DEFINE new == [d EXCEPT !.chats[c] = row]
<1>1. d \in Databases /\ w \in Workspaces
  BY Columns DEF Good
<1>2. row \in ChatRows /\ row.workspace = w /\ row.head = h
  BY <1>1 DEF ChatRows
<1>3. row # None
  BY <1>2, NoneIsNoRow
<1> HIDE DEF row
<1>4. new \in Databases
  BY <1>1, <1>2 DEF Databases
<1>5. /\ new.workspaces = d.workspaces
      /\ new.sessions = d.sessions /\ new.chats = [d.chats EXCEPT ![c] = row]
      /\ new.turns = d.turns /\ new.attachments = d.attachments
      /\ new.grants = d.grants /\ new.recents = d.recents
      /\ new.indexed = d.indexed
  BY <1>1 DEF Databases
<1>6. d.chats \in [Chats -> ChatRows \cup {None}]
  BY <1>1, Columns
<1> HIDE DEF new
<1>7. Bounded(new)
  BY <1>5 DEF Good, Bounded
<1>8. Resolved(new)
  BY <1>2, <1>3, <1>5, <1>6 DEF Good, Resolved, Has
<1>9. HeadsOwned(new)
  BY <1>2, <1>3, <1>5, <1>6 DEF Good, HeadsOwned, Has, TurnsOf
<1>10. Mirrored(new)
  BY <1>5 DEF Good, Mirrored, TurnsOf, Has
<1>11. Numbered(new)
  BY <1>5 DEF Good, Numbered, TurnsOf, Has
<1> QED
  BY <1>4, <1>7, <1>8, <1>9, <1>10, <1>11 DEF Good, new, row

(***************************************************************************)
(* A turn is appended under the next sequence of its chat.                 *)
(***************************************************************************)
LEMMA AppendGood ==
  ASSUME NEW d, Good(d), NEW t \in Turns, NEW c \in Chats,
         NEW p \in Turns \cup {None},
         ~Has(d.turns, t), Has(d.chats, c),
         p \in {None, t} \/ Has(d.turns, p)
  PROVE  Good(AppendTurn(d, t, c, p))
<1> DEFINE n == NextSequence(d, c)
<1> DEFINE row == [chat |-> c, parent |-> p, sequence |-> n]
<1> DEFINE hit == [turn |-> t, chat |-> c]
<1> DEFINE new == AppendTurn(d, t, c, p)
<1>1. d \in Databases /\ Bounded(d)
  BY DEF Good
<1>2. n \in Nat \ {0} /\ \A u \in TurnsOf(d, c) : d.turns[u].sequence < n
  BY <1>1, NextSequenceIsNext
<1> HIDE DEF n
<1>3. /\ row \in TurnRows /\ row.chat = c /\ row.parent = p /\ row.sequence = n
      /\ hit \in IndexRows /\ hit.turn = t /\ hit.chat = c
  BY <1>2 DEF TurnRows, IndexRows
<1>4. row # None
  BY <1>3, NoneIsNoRow
<1>5. new = [d EXCEPT !.turns[t] = row, !.indexed = @ \cup {hit}]
  BY DEF AppendTurn, n
<1> HIDE DEF row, hit, new
<1>6. new \in Databases
  BY <1>1, <1>3, <1>5 DEF Databases
<1>7. /\ new.workspaces = d.workspaces
      /\ new.sessions = d.sessions /\ new.chats = d.chats
      /\ new.turns = [d.turns EXCEPT ![t] = row]
      /\ new.attachments = d.attachments
      /\ new.grants = d.grants /\ new.recents = d.recents
      /\ new.indexed = d.indexed \cup {hit}
  BY <1>1, <1>5 DEF Databases
<1>8. /\ d.turns \in [Turns -> TurnRows \cup {None}]
      /\ d.indexed \subseteq IndexRows
  BY <1>1, Columns
<1>9. /\ \A u \in Turns : Has(new.turns, u) <=> Has(d.turns, u) \/ u = t
      /\ \A u \in Turns : u # t => new.turns[u] = d.turns[u]
      /\ new.turns[t] = row
  BY <1>4, <1>7, <1>8 DEF Has
<1>10. Bounded(new)
  <2>1. PICK m \in Nat : \A u \in Turns : Has(d.turns, u) => d.turns[u].sequence < m
    BY <1>1 DEF Bounded
  <2>2. PICK k \in Nat : m <= k /\ n < k
    <3>1. m + n + 1 \in Nat /\ m <= m + n + 1 /\ n < m + n + 1
      BY <1>2, <2>1
    <3> QED  BY <3>1
  <2>3. \A u \in Turns : Has(new.turns, u) => new.turns[u].sequence < k
    <3> SUFFICES ASSUME NEW u \in Turns, Has(new.turns, u)
                 PROVE  new.turns[u].sequence < k
      OBVIOUS
    <3>1. CASE u = t
      BY <3>1, <1>3, <1>9, <2>2
    <3>2. CASE u # t
      <4>1. Has(d.turns, u) /\ new.turns[u] = d.turns[u]
        BY <1>9, <3>2
      <4>2. d.turns[u].sequence \in Nat
        BY <4>1, <1>1, TurnRow
      <4> QED  BY <4>1, <4>2, <2>1, <2>2
    <3> QED  BY <3>1, <3>2
  <2> QED  BY <2>3 DEF Bounded
<1>11. Resolved(new)
  <2>1. \A u \in Turns : Has(new.turns, u) =>
          /\ Has(new.chats, new.turns[u].chat)
          /\ new.turns[u].parent # None => Has(new.turns, new.turns[u].parent)
    <3> SUFFICES ASSUME NEW u \in Turns, Has(new.turns, u)
                 PROVE  /\ Has(new.chats, new.turns[u].chat)
                        /\ new.turns[u].parent # None
                             => Has(new.turns, new.turns[u].parent)
      OBVIOUS
    <3>1. CASE u = t
      <4>1. Has(new.chats, c)
        BY <1>7 DEF Has
      <4>2. p # None => Has(new.turns, p)
        BY <1>9
      <4> QED  BY <3>1, <4>1, <4>2, <1>3, <1>9
    <3>2. CASE u # t
      <4>1. Has(d.turns, u) /\ new.turns[u] = d.turns[u]
        BY <1>9, <3>2
      <4>2. d.turns[u].parent \in Turns \cup {None}
        BY <4>1, <1>1, TurnRow
      <4>3. /\ Has(d.chats, d.turns[u].chat)
            /\ d.turns[u].parent # None => Has(d.turns, d.turns[u].parent)
        BY <4>1 DEF Good, Resolved
      <4>4. Has(new.chats, d.turns[u].chat)
        BY <4>3, <1>7
      <4> QED  BY <4>1, <4>2, <4>3, <4>4, <1>9
    <3> QED  BY <3>1, <3>2
  <2>2. \A a \in Attachments :
          Has(new.attachments, a) => Has(new.turns, new.attachments[a])
    BY <1>1, <1>7, <1>9, Columns DEF Good, Resolved, Has
  <2>3. /\ \A s \in Sessions : d.sessions[s] \in d.workspaces \cup {None}
        /\ \A h \in Chats : Has(d.chats, h) => d.chats[h].workspace \in d.workspaces
        /\ \A g \in d.grants : g.workspace \in d.workspaces
        /\ d.recents \subseteq d.workspaces
    BY DEF Good, Resolved
  <2> QED  BY <1>7, <2>1, <2>2, <2>3 DEF Resolved
<1>12. \A h \in Chats :
         TurnsOf(new, h) = IF h = c THEN TurnsOf(d, h) \cup {t} ELSE TurnsOf(d, h)
  BY <1>3, <1>9 DEF TurnsOf
<1>13. HeadsOwned(new)
  BY <1>7, <1>12 DEF Good, HeadsOwned
<1>14. Mirrored(new)
  <2>1. d.indexed = {h \in IndexRows : h.turn \in TurnsOf(d, h.chat)}
    BY DEF Good, Mirrored
  <2>2. \A h \in IndexRows : h.turn \in Turns /\ h.chat \in Chats
                             /\ (h.turn = t /\ h.chat = c => h = hit)
    BY DEF IndexRows, hit
  <2>3. \A h \in IndexRows :
          h.turn \in TurnsOf(new, h.chat) <=> h \in d.indexed \/ h = hit
    BY <1>3, <1>12, <2>1, <2>2
  <2> QED  BY <1>3, <1>7, <1>8, <2>3 DEF Mirrored
<1>15. Numbered(new)
  <2> SUFFICES ASSUME NEW h \in Chats, NEW u \in TurnsOf(new, h),
                      NEW v \in TurnsOf(new, h),
                      new.turns[u].sequence = new.turns[v].sequence
               PROVE  u = v
    BY DEF Numbered
  <2>1. ~Has(d.turns, t) /\ u \in Turns /\ v \in Turns
    BY DEF TurnsOf
  <2>2. ASSUME NEW w \in TurnsOf(d, c)
        PROVE  /\ d.turns[w].sequence \in Nat /\ d.turns[w].sequence < n
               /\ new.turns[w].sequence = d.turns[w].sequence
    <3>1. Has(d.turns, w) /\ w \in Turns /\ w # t
      BY <2>1, <2>2 DEF TurnsOf
    <3> QED  BY <1>1, <1>2, <1>9, <3>1, TurnRow
  <2>3. CASE u \in TurnsOf(d, h) /\ v \in TurnsOf(d, h)
    <3>1. u # t /\ v # t
      BY <2>1, <2>3 DEF TurnsOf
    <3> QED  BY <1>9, <2>1, <2>3, <3>1 DEF Good, Numbered
  <2>4. CASE u \notin TurnsOf(d, h) \/ v \notin TurnsOf(d, h)
    BY <1>2, <1>3, <1>9, <1>12, <2>2, <2>4
  <2> QED  BY <2>3, <2>4
<1>16. Good(new)
  BY <1>6, <1>10, <1>11, <1>13, <1>14, <1>15 DEF Good
<1> QED  BY <1>16 DEF new

(***************************************************************************)
(* Chats are deleted with everything that hangs on their turns.            *)
(***************************************************************************)
LEMMA DeleteChatsColumns ==
  ASSUME NEW d \in Databases, NEW gone \in SUBSET Chats
  PROVE  LET new == DeleteChats(d, gone)
             lost == TurnsOfAny(d, gone)
         IN /\ new \in Databases
            /\ new.workspaces = d.workspaces /\ new.sessions = d.sessions
            /\ new.grants = d.grants /\ new.recents = d.recents
            /\ new.indexed = {row \in d.indexed : row.turn \notin lost}
            /\ \A c \in Chats :
                 new.chats[c] = IF c \in gone THEN None ELSE d.chats[c]
            /\ \A t \in Turns :
                 new.turns[t] =
                   IF t \in lost THEN None
                   ELSE IF Has(d.turns, t) /\ d.turns[t].parent \in lost
                     THEN [d.turns[t] EXCEPT !.parent = None]
                     ELSE d.turns[t]
            /\ \A a \in Attachments :
                 new.attachments[a] =
                   IF d.attachments[a] \in lost THEN None ELSE d.attachments[a]
<1> DEFINE new == DeleteChats(d, gone)
<1> DEFINE lost == TurnsOfAny(d, gone)
<1> DEFINE chats == [c \in Chats |-> IF c \in gone THEN None ELSE d.chats[c]]
<1> DEFINE turns ==
      [t \in Turns |->
         IF t \in lost THEN None
         ELSE IF Has(d.turns, t) /\ d.turns[t].parent \in lost
           THEN [d.turns[t] EXCEPT !.parent = None]
           ELSE d.turns[t]]
<1> DEFINE attachments ==
      [a \in Attachments |->
         IF d.attachments[a] \in lost THEN None ELSE d.attachments[a]]
<1> DEFINE indexed == {row \in d.indexed : row.turn \notin lost}
<1>1. /\ d.chats \in [Chats -> ChatRows \cup {None}]
      /\ d.turns \in [Turns -> TurnRows \cup {None}]
      /\ d.attachments \in [Attachments -> Turns \cup {None}]
      /\ d.indexed \subseteq IndexRows
  BY Columns
<1>2. new = [d EXCEPT !.chats = chats, !.turns = turns,
                      !.attachments = attachments, !.indexed = indexed]
  <2>1. Without(d.chats, gone) = chats
    BY <1>1 DEF Without
  <2> QED  BY <2>1 DEF DeleteChats
<1> HIDE DEF lost, new
<1>3. chats \in [Chats -> ChatRows \cup {None}]
  BY <1>1
<1>4. turns \in [Turns -> TurnRows \cup {None}]
  <2> SUFFICES ASSUME NEW t \in Turns
               PROVE  turns[t] \in TurnRows \cup {None}
    BY Zenon
  <2>1. ASSUME Has(d.turns, t)
        PROVE  [d.turns[t] EXCEPT !.parent = None] \in TurnRows
    BY <1>1, <2>1 DEF Has, TurnRows
  <2> QED  BY <1>1, <2>1
<1>5. attachments \in [Attachments -> Turns \cup {None}]
  BY <1>1
<1>6. indexed \subseteq IndexRows
  BY <1>1
<1> HIDE DEF chats, turns, attachments, indexed
<1>7. new \in Databases
  BY <1>2, <1>3, <1>4, <1>5, <1>6 DEF Databases
<1>8. /\ new.workspaces = d.workspaces /\ new.sessions = d.sessions
      /\ new.grants = d.grants /\ new.recents = d.recents
      /\ new.chats = chats /\ new.turns = turns
      /\ new.attachments = attachments /\ new.indexed = indexed
  BY <1>2 DEF Databases
<1> QED
  BY <1>7, <1>8 DEF chats, turns, attachments, indexed, new, lost

(***************************************************************************)
(* The rows that are left: chats as they were, turns with their chat and   *)
(* their place.                                                            *)
(***************************************************************************)
LEMMA DeleteChatsRows ==
  ASSUME NEW d \in Databases, NEW gone \in SUBSET Chats
  PROVE  LET new == DeleteChats(d, gone)
             lost == TurnsOfAny(d, gone)
         IN /\ \A c \in Chats :
                 /\ Has(new.chats, c) <=> Has(d.chats, c) /\ c \notin gone
                 /\ Has(new.chats, c) => new.chats[c] = d.chats[c]
                 /\ TurnsOf(new, c) = IF c \in gone THEN {} ELSE TurnsOf(d, c)
            /\ \A t \in Turns :
                 /\ Has(new.turns, t) <=> Has(d.turns, t) /\ t \notin lost
                 /\ Has(new.turns, t) =>
                      /\ new.turns[t].chat = d.turns[t].chat
                      /\ new.turns[t].sequence = d.turns[t].sequence
                      /\ new.turns[t].parent =
                           IF d.turns[t].parent \in lost
                             THEN None ELSE d.turns[t].parent
<1> DEFINE new == DeleteChats(d, gone)
<1> DEFINE lost == TurnsOfAny(d, gone)
<1>2. \A t : t \in lost <=> /\ t \in Turns /\ Has(d.turns, t)
                            /\ d.turns[t].chat \in gone
  BY DEF TurnsOf, TurnsOfAny
<1>3. /\ new \in Databases
      /\ new.workspaces = d.workspaces /\ new.sessions = d.sessions
      /\ new.grants = d.grants /\ new.recents = d.recents
      /\ new.indexed = {row \in d.indexed : row.turn \notin lost}
      /\ \A c \in Chats :
           new.chats[c] = IF c \in gone THEN None ELSE d.chats[c]
      /\ \A t \in Turns :
           new.turns[t] =
             IF t \in lost THEN None
             ELSE IF Has(d.turns, t) /\ d.turns[t].parent \in lost
               THEN [d.turns[t] EXCEPT !.parent = None]
               ELSE d.turns[t]
      /\ \A a \in Attachments :
           new.attachments[a] =
             IF d.attachments[a] \in lost THEN None ELSE d.attachments[a]
  BY DeleteChatsColumns
<1> HIDE DEF new, lost
<1>4. /\ \A c \in Chats : Has(new.chats, c) <=> Has(d.chats, c) /\ c \notin gone
      /\ \A c \in Chats : Has(new.chats, c) => new.chats[c] = d.chats[c]
  BY <1>3 DEF Has
<1>5. \A t \in Turns :
        /\ Has(new.turns, t) <=> Has(d.turns, t) /\ t \notin lost
        /\ Has(new.turns, t) =>
             /\ new.turns[t].chat = d.turns[t].chat
             /\ new.turns[t].sequence = d.turns[t].sequence
             /\ new.turns[t].parent =
                  IF d.turns[t].parent \in lost THEN None ELSE d.turns[t].parent
  <2> SUFFICES ASSUME NEW t \in Turns
               PROVE  /\ Has(new.turns, t) <=> Has(d.turns, t) /\ t \notin lost
                      /\ Has(new.turns, t) =>
                           /\ new.turns[t].chat = d.turns[t].chat
                           /\ new.turns[t].sequence = d.turns[t].sequence
                           /\ new.turns[t].parent =
                                IF d.turns[t].parent \in lost
                                  THEN None ELSE d.turns[t].parent
    OBVIOUS
  <2>1. CASE t \in lost \/ ~Has(d.turns, t)
    BY <1>3, <2>1 DEF Has
  <2>2. CASE t \notin lost /\ Has(d.turns, t)
    <3> DEFINE row == [d.turns[t] EXCEPT !.parent = None]
    <3>1. d.turns[t] \in TurnRows
      BY <2>2, Columns DEF Has
    <3>2. /\ row \in TurnRows /\ row.parent = None
          /\ row.chat = d.turns[t].chat /\ row.sequence = d.turns[t].sequence
      BY <3>1 DEF TurnRows
    <3>3. row # None
      BY <3>2, NoneIsNoRow
    <3> HIDE DEF row
    <3>4. new.turns[t] = IF d.turns[t].parent \in lost THEN row ELSE d.turns[t]
      BY <1>3, <2>2 DEF row
    <3> QED  BY <2>2, <3>2, <3>3, <3>4 DEF Has
  <2> QED  BY <2>1, <2>2
<1>6. \A c \in Chats : TurnsOf(new, c) = IF c \in gone THEN {} ELSE TurnsOf(d, c)
  BY <1>2, <1>5 DEF TurnsOf
<1> QED  BY <1>4, <1>5, <1>6 DEF new, lost

LEMMA DeleteChatsGood ==
  ASSUME NEW d, Good(d), NEW gone \in SUBSET Chats
  PROVE  Good(DeleteChats(d, gone))
<1> DEFINE new == DeleteChats(d, gone)
<1> DEFINE lost == TurnsOfAny(d, gone)
<1>1. d \in Databases
  BY DEF Good
<1>2. \A t : t \in lost <=> /\ t \in Turns /\ Has(d.turns, t)
                            /\ d.turns[t].chat \in gone
  BY DEF TurnsOf, TurnsOfAny
<1>3. /\ new \in Databases
      /\ new.workspaces = d.workspaces /\ new.sessions = d.sessions
      /\ new.grants = d.grants /\ new.recents = d.recents
      /\ new.indexed = {row \in d.indexed : row.turn \notin lost}
      /\ \A a \in Attachments :
           new.attachments[a] =
             IF d.attachments[a] \in lost THEN None ELSE d.attachments[a]
  BY <1>1, DeleteChatsColumns
<1>4. \A c \in Chats :
        /\ Has(new.chats, c) <=> Has(d.chats, c) /\ c \notin gone
        /\ Has(new.chats, c) => new.chats[c] = d.chats[c]
        /\ TurnsOf(new, c) = IF c \in gone THEN {} ELSE TurnsOf(d, c)
  BY <1>1, DeleteChatsRows
<1>5. \A t \in Turns :
        /\ Has(new.turns, t) <=> Has(d.turns, t) /\ t \notin lost
        /\ Has(new.turns, t) =>
             /\ new.turns[t].chat = d.turns[t].chat
             /\ new.turns[t].sequence = d.turns[t].sequence
             /\ new.turns[t].parent =
                  IF d.turns[t].parent \in lost THEN None ELSE d.turns[t].parent
  BY <1>1, DeleteChatsRows
<1> HIDE DEF new, lost
<1>6. \A c \in Chats : c \notin gone => TurnsOf(new, c) = TurnsOf(d, c)
  BY <1>4
<1>7. Numbered(new)
  <2> SUFFICES ASSUME NEW c \in Chats, NEW t \in TurnsOf(new, c),
                      NEW u \in TurnsOf(new, c),
                      new.turns[t].sequence = new.turns[u].sequence
               PROVE  t = u
    BY DEF Numbered
  <2>1. /\ t \in Turns /\ Has(new.turns, t) /\ t \in TurnsOf(d, c)
        /\ u \in Turns /\ Has(new.turns, u) /\ u \in TurnsOf(d, c)
    BY <1>4 DEF TurnsOf
  <2> QED  BY <1>5, <2>1 DEF Good, Numbered
<1>8. Bounded(new)
  <2>1. PICK m \in Nat : \A t \in Turns : Has(d.turns, t) => d.turns[t].sequence < m
    BY DEF Good, Bounded
  <2>2. \A t \in Turns : Has(new.turns, t) => new.turns[t].sequence < m
    BY <1>5, <2>1
  <2> QED  BY <2>2 DEF Bounded
<1>9. Resolved(new)
  <2>1. /\ \A s \in Sessions : d.sessions[s] \in d.workspaces \cup {None}
        /\ \A c \in Chats : Has(d.chats, c) => d.chats[c].workspace \in d.workspaces
        /\ \A t \in Turns : Has(d.turns, t) =>
             /\ Has(d.chats, d.turns[t].chat)
             /\ d.turns[t].parent # None => Has(d.turns, d.turns[t].parent)
        /\ \A a \in Attachments :
             Has(d.attachments, a) => Has(d.turns, d.attachments[a])
        /\ \A row \in d.grants : row.workspace \in d.workspaces
        /\ d.recents \subseteq d.workspaces
    BY DEF Good, Resolved
  <2>2. \A c \in Chats : Has(new.chats, c) => new.chats[c].workspace \in d.workspaces
    BY <1>4, <2>1
  <2>3. \A t \in Turns : Has(new.turns, t) =>
          /\ Has(new.chats, new.turns[t].chat)
          /\ new.turns[t].parent # None => Has(new.turns, new.turns[t].parent)
    <3> SUFFICES ASSUME NEW t \in Turns, Has(new.turns, t)
                 PROVE  /\ Has(new.chats, new.turns[t].chat)
                        /\ new.turns[t].parent # None
                             => Has(new.turns, new.turns[t].parent)
      OBVIOUS
    <3>1. Has(d.turns, t) /\ t \notin lost
      BY <1>5
    <3>2. d.turns[t].chat \in Chats /\ d.turns[t].parent \in Turns \cup {None}
      BY <1>1, <3>1, TurnRow
    <3>3. Has(new.chats, new.turns[t].chat)
      BY <1>2, <1>4, <1>5, <2>1, <3>1, <3>2
    <3>4. new.turns[t].parent # None => Has(new.turns, new.turns[t].parent)
      BY <1>5, <2>1, <3>1, <3>2
    <3> QED  BY <3>3, <3>4
  <2>4. \A a \in Attachments :
          Has(new.attachments, a) => Has(new.turns, new.attachments[a])
    <3> SUFFICES ASSUME NEW a \in Attachments, Has(new.attachments, a)
                 PROVE  Has(new.turns, new.attachments[a])
      OBVIOUS
    <3>1. new.attachments[a] = d.attachments[a] /\ d.attachments[a] \notin lost
      BY <1>3 DEF Has
    <3>2. Has(d.attachments, a)
      BY <3>1 DEF Has
    <3>3. Has(d.turns, d.attachments[a])
      BY <2>1, <3>2
    <3>4. d.attachments[a] \in Turns
      BY <1>1, <3>2, Columns DEF Has
    <3> QED  BY <1>5, <3>1, <3>3, <3>4
  <2> QED  BY <1>3, <2>1, <2>2, <2>3, <2>4 DEF Resolved
<1>10. HeadsOwned(new)
  BY <1>4, <1>6 DEF Good, HeadsOwned
<1>11. Mirrored(new)
  <2>1. d.indexed = {row \in IndexRows : row.turn \in TurnsOf(d, row.chat)}
    BY DEF Good, Mirrored
  <2>2. \A row \in IndexRows :
          row.turn \in TurnsOf(new, row.chat)
            <=> row.turn \in TurnsOf(d, row.chat) /\ row.turn \notin lost
    <3> SUFFICES ASSUME NEW row \in IndexRows
                 PROVE  row.turn \in TurnsOf(new, row.chat)
                          <=> /\ row.turn \in TurnsOf(d, row.chat)
                              /\ row.turn \notin lost
      OBVIOUS
    <3>1. row.turn \in Turns
      BY DEF IndexRows
    <3> QED  BY <1>5, <3>1 DEF TurnsOf
  <2> QED  BY <1>3, <2>1, <2>2 DEF Mirrored
<1>12. Good(new)
  BY <1>3, <1>7, <1>8, <1>9, <1>10, <1>11 DEF Good
<1> QED  BY <1>12 DEF new

(***************************************************************************)
(* A workspace is deleted only when it has no sessions.                    *)
(***************************************************************************)
LEMMA DeleteWorkspaceGood ==
  ASSUME NEW d, Good(d), NEW w \in Workspaces, SessionsOf(d, w) = {}
  PROVE  Good(DeleteWorkspace(d, w))
<1> DEFINE mid == DeleteChats(d, ChatsOf(d, w))
<1> DEFINE new == DeleteWorkspace(d, w)
<1>1. Good(mid)
  BY DeleteChatsGood DEF ChatsOf
<1>2. d \in Databases /\ mid \in Databases
  BY <1>1 DEF Good
<1>3. /\ mid.sessions = d.sessions
      /\ \A c \in Chats :
           mid.chats[c] = IF c \in ChatsOf(d, w) THEN None ELSE d.chats[c]
  <2>1. ChatsOf(d, w) \in SUBSET Chats
    BY DEF ChatsOf
  <2> QED  BY <1>2, <2>1, DeleteChatsColumns
<1>4. new = [mid EXCEPT !.workspaces = @ \ {w},
                        !.sessions = Without(d.sessions, SessionsOf(d, w)),
                        !.grants = {row \in @ : row.workspace # w},
                        !.recents = @ \ {w}]
  BY DEF DeleteWorkspace
<1>5. Without(d.sessions, SessionsOf(d, w)) = mid.sessions
  BY <1>2, <1>3, Columns DEF Without
<1> HIDE DEF mid, new
<1>6. new \in Databases
  BY <1>2, <1>4, <1>5 DEF Databases
<1>7. /\ new.workspaces = mid.workspaces \ {w}
      /\ new.sessions = mid.sessions /\ new.chats = mid.chats
      /\ new.turns = mid.turns /\ new.attachments = mid.attachments
      /\ new.grants = {row \in mid.grants : row.workspace # w}
      /\ new.recents = mid.recents \ {w}
      /\ new.indexed = mid.indexed
  BY <1>2, <1>4, <1>5 DEF Databases
<1>8. \A s \in Sessions : mid.sessions[s] # w
  BY <1>3 DEF SessionsOf
<1>9. \A c \in Chats : Has(mid.chats, c) => mid.chats[c].workspace # w
  BY <1>3 DEF ChatsOf, Has
<1>10. Resolved(new)
  BY <1>1, <1>7, <1>8, <1>9 DEF Good, Resolved
<1>11. Good(new)
  BY <1>1, <1>6, <1>7, <1>10, SameTurnsGood
<1> QED  BY <1>11 DEF new

--------------------------------------------------------------------------------
(***************************************************************************)
(* The writes, one by one.                                                 *)
(***************************************************************************)
LEMMA RequestShape ==
  ASSUME NEW r \in Requests
  PROVE  /\ r.op \in {"workspace_upsert", "workspace_delete", "record_opened",
                     "forget", "session_upsert", "session_delete", "chat_upsert",
                     "chat_delete", "set_head_turn", "append", "put",
                     "attachment_delete", "grant_upsert", "grant_delete"}
         /\ r.op \in {"workspace_upsert", "workspace_delete", "record_opened",
                     "forget", "session_upsert", "chat_upsert", "grant_upsert"}
              => r.workspace \in Workspaces
         /\ r.op \in {"session_upsert", "session_delete"} => r.session \in Sessions
         /\ r.op \in {"chat_upsert", "chat_delete", "set_head_turn", "append"}
              => r.chat \in Chats
         /\ r.op \in {"set_head_turn", "put"} => r.turn \in Turns \cup {None}
         /\ r.op = "append"
              => r.turn \in Turns /\ r.parent \in Turns \cup {None}
         /\ r.op \in {"put", "attachment_delete"} => r.attachment \in Attachments
         /\ r.op \in {"grant_upsert", "grant_delete"} => r.grant \in Grants
  BY DEF Requests

LEMMA VerdictOk ==
  ASSUME NEW d, NEW r, Verdict(d, r) = "Ok"
  PROVE  ~Conflicts(d, r) /\ ~Missing(d, r)
  BY DEF Verdict

LEMMA EffectGood ==
  ASSUME NEW d, Good(d), NEW r \in Requests, Verdict(d, r) = "Ok"
  PROVE  Good(Effect(d, r))
<1>1. ~Conflicts(d, r) /\ ~Missing(d, r)
  BY VerdictOk
<1>2. d \in Databases /\ Resolved(d)
  BY DEF Good
<1>3. CASE r.op = "workspace_upsert"
  <2>1. Effect(d, r) = [d EXCEPT !.workspaces = @ \cup {r.workspace}]
    BY <1>3 DEF Effect, UpsertWorkspace
  <2> QED  BY <1>3, <2>1, RequestShape, UpsertWorkspaceGood
<1>4. CASE r.op = "workspace_delete"
  <2>1. Effect(d, r) = DeleteWorkspace(d, r.workspace)
    BY <1>4 DEF Effect
  <2>2. SessionsOf(d, r.workspace) = {}
    BY <1>1, <1>4 DEF Conflicts, OwnsSessions
  <2> QED  BY <1>4, <2>1, <2>2, RequestShape, DeleteWorkspaceGood
<1>5. CASE r.op = "record_opened"
  <2>1. Effect(d, r) = [d EXCEPT !.recents = d.recents \cup {r.workspace}]
    BY <1>2, <1>5 DEF Effect, RecordOpened, Databases
  <2>2. d.recents \cup {r.workspace} \in SUBSET d.workspaces
    BY <1>1, <1>2, <1>5 DEF Missing, Resolved
  <2> QED  BY <2>1, <2>2, RecentsGood
<1>6. CASE r.op = "forget"
  <2>1. Effect(d, r) = [d EXCEPT !.recents = d.recents \ {r.workspace}]
    BY <1>2, <1>6 DEF Effect, Forget, Databases
  <2>2. d.recents \ {r.workspace} \in SUBSET d.workspaces
    BY <1>2 DEF Resolved
  <2> QED  BY <2>1, <2>2, RecentsGood
<1>7. CASE r.op = "session_upsert"
  <2>1. Effect(d, r) = [d EXCEPT !.sessions[r.session] = r.workspace]
    BY <1>7 DEF Effect, SetSession
  <2>2. r.workspace \in d.workspaces
    BY <1>1, <1>7 DEF Conflicts, Violates
  <2> QED  BY <1>7, <2>1, <2>2, RequestShape, SessionGood
<1>8. CASE r.op = "session_delete"
  <2>1. Effect(d, r) = [d EXCEPT !.sessions[r.session] = None]
    BY <1>8 DEF Effect, SetSession
  <2> QED  BY <1>8, <2>1, RequestShape, SessionGood
<1>9. CASE r.op = "chat_upsert"
  <2> DEFINE head == IF Has(d.chats, r.chat) THEN d.chats[r.chat].head ELSE None
  <2>1. Effect(d, r) =
          [d EXCEPT !.chats[r.chat] = [workspace |-> r.workspace, head |-> head]]
    BY <1>9 DEF Effect, UpsertChat
  <2>2. r.workspace \in d.workspaces /\ r.chat \in Chats
    BY <1>1, <1>9, RequestShape DEF Conflicts, Violates
  <2>3. head \in Turns \cup {None}
    BY <1>2, <2>2, ChatRow
  <2>4. head # None => head \in TurnsOf(d, r.chat)
    BY <2>2 DEF Good, HeadsOwned
  <2> HIDE DEF head
  <2> QED  BY <2>1, <2>2, <2>3, <2>4, ChatGood
<1>10. CASE r.op = "chat_delete"
  <2>1. Effect(d, r) = DeleteChats(d, {r.chat})
    BY <1>10 DEF Effect
  <2>2. {r.chat} \in SUBSET Chats
    BY <1>10, RequestShape
  <2> QED  BY <2>1, <2>2, DeleteChatsGood
<1>11. CASE r.op = "set_head_turn"
  <2> DEFINE w == d.chats[r.chat].workspace
  <2>1. r.chat \in Chats /\ r.turn \in Turns \cup {None} /\ Has(d.chats, r.chat)
    BY <1>1, <1>11, RequestShape DEF Missing
  <2>2. d.chats[r.chat] \in ChatRows
    BY <1>2, <2>1, Columns DEF Has
  <2>3. [d.chats[r.chat] EXCEPT !.head = r.turn] = [workspace |-> w, head |-> r.turn]
    BY <2>2 DEF ChatRows
  <2>4. Effect(d, r) =
          [d EXCEPT !.chats[r.chat] = [workspace |-> w, head |-> r.turn]]
    BY <1>2, <1>11, <2>1, <2>3, Columns DEF Effect, SetHeadTurn, Databases
  <2>5. w \in d.workspaces
    BY <1>2, <2>1 DEF Resolved
  <2>6. r.turn # None => r.turn \in TurnsOf(d, r.chat)
    BY <1>1, <1>11, <2>1 DEF Missing, Conflicts, TurnsOf
  <2> HIDE DEF w
  <2> QED  BY <2>1, <2>4, <2>5, <2>6, ChatGood
<1>12. CASE r.op = "append"
  <2>1. Effect(d, r) = AppendTurn(d, r.turn, r.chat, r.parent)
    BY <1>12 DEF Effect
  <2>2. /\ ~Has(d.turns, r.turn) /\ Has(d.chats, r.chat)
        /\ r.parent \in {None, r.turn} \/ Has(d.turns, r.parent)
    BY <1>1, <1>12 DEF Conflicts, Violates
  <2> QED  BY <1>12, <2>1, <2>2, RequestShape, AppendGood
<1>13. CASE r.op = "put"
  <2>1. Effect(d, r) = [d EXCEPT !.attachments[r.attachment] = r.turn]
    BY <1>13 DEF Effect, SetAttachment
  <2>2. Has(d.turns, r.turn)
    BY <1>1, <1>13 DEF Conflicts, Violates
  <2> QED  BY <1>13, <2>1, <2>2, RequestShape, AttachmentGood
<1>14. CASE r.op = "attachment_delete"
  <2>1. Effect(d, r) = [d EXCEPT !.attachments[r.attachment] = None]
    BY <1>14 DEF Effect, SetAttachment
  <2> QED  BY <1>14, <2>1, RequestShape, AttachmentGood
<1>15. CASE r.op = "grant_upsert"
  <2> DEFINE row == [workspace |-> r.workspace, grant |-> r.grant]
  <2>1. Effect(d, r) = [d EXCEPT !.grants = d.grants \cup {row}]
    BY <1>2, <1>15 DEF Effect, UpsertGrant, Databases
  <2>2. row \in GrantRows /\ row.workspace \in d.workspaces
    BY <1>1, <1>15, RequestShape DEF Conflicts, Violates, GrantRows
  <2>3. d.grants \cup {row} \in SUBSET GrantRows
    BY <1>2, <2>2, Columns
  <2>4. \A g \in d.grants \cup {row} : g.workspace \in d.workspaces
    BY <1>2, <2>2 DEF Resolved
  <2> HIDE DEF row
  <2> QED  BY <2>1, <2>3, <2>4, GrantsGood
<1>16. CASE r.op = "grant_delete"
  <2> DEFINE G == {row \in d.grants : row.grant # r.grant}
  <2>1. Effect(d, r) = [d EXCEPT !.grants = G]
    BY <1>2, <1>16 DEF Effect, DeleteGrant, Databases
  <2>2. G \in SUBSET GrantRows /\ \A g \in G : g.workspace \in d.workspaces
    BY <1>2, Columns DEF Resolved
  <2> HIDE DEF G
  <2> QED  BY <2>1, <2>2, GrantsGood
<1> QED
  BY <1>3, <1>4, <1>5, <1>6, <1>7, <1>8, <1>9, <1>10, <1>11, <1>12, <1>13,
     <1>14, <1>15, <1>16, RequestShape

LEMMA EmptyGood == Good(Empty)
<1>1. Empty \in Databases
  BY DEF Empty, Databases
<1>2. /\ Empty.workspaces = {} /\ Empty.grants = {} /\ Empty.recents = {}
      /\ Empty.indexed = {}
      /\ \A s \in Sessions : Empty.sessions[s] = None
      /\ \A c \in Chats : Empty.chats[c] = None
      /\ \A t \in Turns : Empty.turns[t] = None
      /\ \A a \in Attachments : Empty.attachments[a] = None
  BY DEF Empty
<1>3. Bounded(Empty)
  <2>1. \A t \in Turns : Has(Empty.turns, t) => Empty.turns[t].sequence < 0
    BY <1>2 DEF Has
  <2> QED  BY <2>1 DEF Bounded
<1>4. Resolved(Empty) /\ HeadsOwned(Empty)
  BY <1>2 DEF Resolved, HeadsOwned, Has
<1>5. Mirrored(Empty) /\ Numbered(Empty)
  BY <1>2 DEF Mirrored, Numbered, TurnsOf, Has
<1> QED  BY <1>1, <1>3, <1>4, <1>5 DEF Good

--------------------------------------------------------------------------------
(***************************************************************************)
(* The inductive invariant.  The lock makes a draft what the write does to *)
(* the database as it still is when the draft is committed.                *)
(***************************************************************************)
DraftsCurrent ==
  \A c \in Callers :
    At(c, "executed") =>
      /\ Verdict(db, call[c].req) = "Ok"
      /\ call[c].draft = Effect(db, call[c].req)

IInv == TypeOK /\ Good(db) /\ DraftsCurrent

LEMMA IdleShape ==
  ASSUME NEW reply \in Replies \cup {None}
  PROVE  /\ Idle(reply) \in Calls
         /\ Idle(reply).pc = "idle" /\ Idle(reply).req = None
         /\ Idle(reply).draft = None /\ Idle(reply).reply = reply
  BY RetryAssumption DEF Idle, Calls, PCs

(***************************************************************************)
(* The call of one caller is replaced, and the lock changes hands, if at   *)
(* all, between that caller and nobody.                                    *)
(***************************************************************************)
LEMMA StepTypeOK ==
  ASSUME TypeOK, NEW c \in Callers, NEW new \in Calls,
         call' = [call EXCEPT ![c] = new],
         lock' \in {lock, c, None}, lock' = lock \/ lock \in {c, None},
         db' \in Databases, declined' \subseteq db'.grants,
         new.pc = "idle" <=> new.req = None,
         new.pc = "executed" <=> new.draft # None,
         new.pc \in {"begun", "executed"} <=> lock' = c
  PROVE  TypeOK'
<1>1. call \in [Callers -> Calls] /\ lock \in Callers \cup {Outsider, None}
  BY DEF TypeOK
<1>2. call' \in [Callers -> Calls] /\ lock' \in Callers \cup {Outsider, None}
  BY <1>1
<1>3. \A e \in Callers :
        /\ (call'[e].pc = "idle") <=> (call'[e].req = None)
        /\ (call'[e].pc = "executed") <=> (call'[e].draft # None)
        /\ (call'[e].pc \in {"begun", "executed"}) <=> (lock' = e)
  <2> SUFFICES ASSUME NEW e \in Callers
               PROVE  /\ (call'[e].pc = "idle") <=> (call'[e].req = None)
                      /\ (call'[e].pc = "executed") <=> (call'[e].draft # None)
                      /\ (call'[e].pc \in {"begun", "executed"}) <=> (lock' = e)
    OBVIOUS
  <2>1. CASE e = c
    BY <1>1, <2>1
  <2>2. CASE e # c
    <3>1. call'[e] = call[e]
      BY <1>1, <2>2
    <3>2. (lock' = e) <=> (lock = e)
      BY <2>2, CallerAssumption
    <3> QED  BY <3>1, <3>2 DEF TypeOK, At, InTransaction
  <2> QED  BY <2>1, <2>2
<1> QED
  BY <1>2, <1>3 DEF TypeOK, At, InTransaction

LEMMA InitIInv == Init => IInv
<1> SUFFICES ASSUME Init PROVE IInv
  OBVIOUS
<1>1. Idle(None) \in Calls /\ Idle(None).pc = "idle" /\ Idle(None).req = None
      /\ Idle(None).draft = None
  BY IdleShape
<1>2. Good(db)
  BY EmptyGood DEF Init
<1>3. \A c \in Callers : call[c] = Idle(None)
  BY DEF Init
<1>4. TypeOK
  BY <1>1, <1>2, <1>3, CallerAssumption DEF Init, TypeOK, At, InTransaction, Good
<1>5. DraftsCurrent
  BY <1>1, <1>3 DEF DraftsCurrent, At
<1> QED  BY <1>2, <1>4, <1>5 DEF IInv

(***************************************************************************)
(* A caller's call as the invariant knows it.                              *)
(***************************************************************************)
LEMMA CallShape ==
  ASSUME TypeOK, NEW c \in Callers
  PROVE  /\ call[c] \in Calls
         /\ ~At(c, "idle") => call[c].req \in Requests
         /\ call[c].req # None => ~At(c, "idle")
         /\ At(c, "executed") => call[c].draft \in Databases
         /\ InTransaction(c) <=> lock = c
         /\ ~At(c, "executed") => call[c].draft = None
  BY DEF TypeOK, Calls

(***************************************************************************)
(* A step that leaves the database alone and executes nothing keeps good   *)
(* what is good and current what is current.                               *)
(***************************************************************************)
LEMMA QuietStep ==
  ASSUME IInv, TypeOK', NEW c \in Callers, NEW new,
         call' = [call EXCEPT ![c] = new], db' = db, new.pc # "executed"
  PROVE  IInv'
<1>1. call \in [Callers -> Calls]
  BY DEF IInv, TypeOK
<1>2. Good(db')
  BY DEF IInv
<1>3. DraftsCurrent'
  BY <1>1 DEF IInv, DraftsCurrent, At
<1> QED  BY <1>2, <1>3 DEF IInv

(***************************************************************************)
(* A call that ends without a commit.                                      *)
(***************************************************************************)
LEMMA EndsQuietly ==
  ASSUME IInv, NEW c \in Callers, NEW reply \in Replies \cup {None},
         Reply(c, reply), Released(c), UNCHANGED <<db, declined>>
  PROVE  IInv'
<1> DEFINE new == Idle(reply)
<1>1. call' = [call EXCEPT ![c] = new]
  BY DEF Reply
<1>2. /\ new \in Calls /\ new.pc = "idle" /\ new.req = None /\ new.draft = None
  BY IdleShape
<1> HIDE DEF new
<1>3. lock' \in {lock, None} /\ (lock' = lock \/ lock = c) /\ lock' # c
  BY CallerAssumption DEF Released
<1>4. db' \in Databases /\ declined' \subseteq db'.grants /\ TypeOK
  BY DEF IInv, TypeOK
<1>5. TypeOK'
  BY <1>1, <1>2, <1>3, <1>4, StepTypeOK
<1> QED  BY <1>1, <1>2, <1>5, QuietStep

LEMMA NextIInv == IInv /\ [Next]_vars => IInv'
<1> SUFFICES ASSUME IInv, [Next]_vars PROVE IInv'
  OBVIOUS
<1>0. /\ TypeOK /\ Good(db) /\ DraftsCurrent
      /\ call \in [Callers -> Calls] /\ db \in Databases
      /\ declined \subseteq db.grants
  BY DEF IInv, TypeOK
<1>1. ASSUME NEW c \in Callers, NEW r \in Requests, Call(c, r)
      PROVE  IInv'
  <2> DEFINE new == Queued(r)
  <2>1. /\ new \in Calls /\ new.pc = "queued" /\ new.req = r /\ new.draft = None
    <3>1. 0 \in 0..MaxRetries
      BY RetryAssumption
    <3> QED  BY <3>1 DEF Queued, Calls, PCs
  <2>2. call' = [call EXCEPT ![c] = new] /\ UNCHANGED <<db, lock, declined>>
    BY <1>1 DEF Call
  <2>3. r # None
    BY NoneAssumption
  <2>4. lock # c
    BY <1>0, <1>1, CallShape DEF Call, At, InTransaction
  <2> HIDE DEF new
  <2>5. TypeOK'
    BY <1>0, <2>1, <2>2, <2>3, <2>4, StepTypeOK
  <2> QED  BY <2>1, <2>2, <2>5, QuietStep
<1>2. ASSUME NEW c \in Callers, Begin(c)
      PROVE  IInv'
  <2> DEFINE new == [call[c] EXCEPT !.pc = "begun"]
  <2>1. call[c] \in Calls /\ call[c].req # None /\ call[c].draft = None
    BY <1>0, <1>2, CallShape, NoneAssumption DEF Begin, At
  <2>2. /\ new \in Calls /\ new.pc = "begun" /\ new.req = call[c].req
        /\ new.draft = None
    BY <2>1 DEF Calls, PCs
  <2>3. /\ call' = [call EXCEPT ![c] = new] /\ UNCHANGED <<db, declined>>
        /\ lock = None /\ lock' = c
    BY <1>2 DEF Begin
  <2> HIDE DEF new
  <2>4. TypeOK'
    BY <1>0, <2>1, <2>2, <2>3, StepTypeOK
  <2> QED  BY <2>2, <2>3, <2>4, QuietStep
<1>3. ASSUME NEW c \in Callers, Backoff(c)
      PROVE  IInv'
  <2> DEFINE new == [call[c] EXCEPT !.pc = "backoff", !.retries = @ + 1]
  <2>1. /\ call[c] \in Calls /\ call[c].req # None /\ call[c].draft = None
        /\ lock # c
    BY <1>0, <1>3, CallShape, NoneAssumption DEF Backoff, At, InTransaction
  <2>2. /\ new \in Calls /\ new.pc = "backoff" /\ new.req = call[c].req
        /\ new.draft = None
    <3>1. call[c].retries \in 0..MaxRetries /\ call[c].retries < MaxRetries
      BY <1>3, <2>1 DEF Calls, Backoff
    <3>2. call[c].retries + 1 \in 0..MaxRetries
      BY <3>1, RetryAssumption
    <3>3. "backoff" \in PCs
      BY DEF PCs
    <3> QED  BY <2>1, <3>2, <3>3 DEF Calls
  <2>3. call' = [call EXCEPT ![c] = new] /\ UNCHANGED <<db, lock, declined>>
    BY <1>3 DEF Backoff
  <2> HIDE DEF new
  <2>4. TypeOK'
    BY <1>0, <2>1, <2>2, <2>3, StepTypeOK
  <2> QED  BY <2>2, <2>3, <2>4, QuietStep
<1>4. ASSUME NEW c \in Callers, Wake(c)
      PROVE  IInv'
  <2> DEFINE new == [call[c] EXCEPT !.pc = "queued"]
  <2>1. /\ call[c] \in Calls /\ call[c].req # None /\ call[c].draft = None
        /\ lock # c
    BY <1>0, <1>4, CallShape, NoneAssumption DEF Wake, At, InTransaction
  <2>2. /\ new \in Calls /\ new.pc = "queued" /\ new.req = call[c].req
        /\ new.draft = None
    BY <2>1 DEF Calls, PCs
  <2>3. call' = [call EXCEPT ![c] = new] /\ UNCHANGED <<db, lock, declined>>
    BY <1>4 DEF Wake
  <2> HIDE DEF new
  <2>4. TypeOK'
    BY <1>0, <2>1, <2>2, <2>3, StepTypeOK
  <2> QED  BY <2>2, <2>3, <2>4, QuietStep
<1>5. ASSUME NEW c \in Callers, GiveUp(c)
      PROVE  IInv'
  <2>1. lock # c
    BY <1>0, <1>5, CallShape DEF GiveUp, At, InTransaction
  <2>2. Reply(c, "DatabaseLocked") /\ Released(c) /\ UNCHANGED <<db, declined>>
    BY <1>5, <2>1 DEF GiveUp, Released
  <2> QED  BY <2>2, EndsQuietly DEF Replies
<1>6. ASSUME NEW c \in Callers, Execute(c)
      PROVE  IInv'
  <2> DEFINE r == call[c].req
  <2> DEFINE new == [call[c] EXCEPT !.pc = "executed", !.draft = Effect(db, r)]
  <2>1. /\ call[c] \in Calls /\ r \in Requests /\ lock = c /\ Verdict(db, r) = "Ok"
    BY <1>0, <1>6, CallShape DEF Execute, At, InTransaction
  <2>2. Effect(db, r) \in Databases
    BY <1>0, <2>1, EffectGood DEF Good
  <2>3. /\ new \in Calls /\ new.pc = "executed" /\ new.req = r
        /\ new.draft = Effect(db, r)
    BY <2>1, <2>2 DEF Calls, PCs
  <2>4. /\ call' = [call EXCEPT ![c] = new] /\ UNCHANGED <<db, lock, declined>>
    BY <1>6 DEF Execute
  <2>5. r # None /\ Effect(db, r) # None
    BY <2>1, <2>2, NoneAssumption
  <2> HIDE DEF new
  <2>6. TypeOK'
    BY <1>0, <2>1, <2>3, <2>4, <2>5, StepTypeOK
  <2>7. DraftsCurrent'
    BY <1>0, <2>1, <2>3, <2>4 DEF DraftsCurrent, At
  <2> QED  BY <1>0, <2>4, <2>6, <2>7 DEF IInv
<1>7. ASSUME NEW c \in Callers, Refuse(c)
      PROVE  IInv'
  <2>1. lock = c
    BY <1>0, <1>7, CallShape DEF Refuse, At, InTransaction
  <2>2. Verdict(db, call[c].req) \in Replies
    BY DEF Verdict, Replies
  <2>3. /\ Reply(c, Verdict(db, call[c].req)) /\ Released(c)
        /\ UNCHANGED <<db, declined>>
    BY <1>7, <2>1 DEF Refuse, Released
  <2> QED  BY <2>2, <2>3, EndsQuietly
<1>8. ASSUME NEW c \in Callers, Commit(c)
      PROVE  IInv'
  <2> DEFINE r == call[c].req
  <2>0. PICK reply \in {"Ok", None} : Reply(c, reply)
    BY <1>8 DEF Commit
  <2> DEFINE new == Idle(reply)
  <2>1. r \in Requests /\ lock = c /\ At(c, "executed")
    BY <1>0, <1>8, CallShape DEF Commit, At, InTransaction
  <2>2. db' = Effect(db, r) /\ Verdict(db, r) = "Ok"
    BY <1>0, <1>8, <2>1 DEF Commit, DraftsCurrent
  <2>3. Good(db')
    BY <1>0, <2>1, <2>2, EffectGood
  <2>4. /\ call' = [call EXCEPT ![c] = new] /\ lock' = None
        /\ declined' \subseteq db'.grants
    BY <1>8, <2>0 DEF Commit, Reply
  <2>5. /\ new \in Calls /\ new.pc = "idle" /\ new.req = None /\ new.draft = None
    BY IdleShape DEF Replies
  <2> HIDE DEF new
  <2>6. db' \in Databases
    BY <2>3 DEF Good
  <2>7. c # None
    BY CallerAssumption
  <2>8. TypeOK'
    BY <1>0, <2>1, <2>4, <2>5, <2>6, <2>7, StepTypeOK
  <2>9. DraftsCurrent'
    <3> SUFFICES ASSUME NEW e \in Callers, call'[e].pc = "executed"
                 PROVE  FALSE
      BY DEF DraftsCurrent, At
    <3>1. e # c /\ call[e].pc = "executed"
      BY <1>0, <2>4, <2>5
    <3>2. lock = e
      BY <1>0, <3>1, CallShape DEF At, InTransaction
    <3> QED  BY <2>1, <3>1, <3>2
  <2> QED  BY <2>3, <2>8, <2>9 DEF IInv
<1>9. ASSUME NEW c \in Callers, StatementFails(c) \/ Crash(c)
      PROVE  IInv'
  <2>1. PICK reply \in {"IoError", None} : Reply(c, reply)
    BY <1>9 DEF StatementFails, Crash
  <2>2. Released(c) /\ UNCHANGED <<db, declined>>
    BY <1>9 DEF StatementFails, Crash
  <2> QED  BY <2>1, <2>2, EndsQuietly DEF Replies
<1>10. ASSUME OutsiderLocks \/ OutsiderUnlocks
       PROVE  IInv'
  <2>1. /\ lock \in {None, Outsider} /\ lock' \in {None, Outsider}
        /\ UNCHANGED <<db, call, declined>>
    BY <1>10 DEF OutsiderLocks, OutsiderUnlocks
  <2>2. \A c \in Callers : lock # c /\ lock' # c
    BY <2>1, CallerAssumption
  <2>3. TypeOK'
    BY <1>0, <2>1, <2>2 DEF TypeOK, At, InTransaction
  <2>4. DraftsCurrent'
    BY <1>0, <2>1 DEF DraftsCurrent, At
  <2> QED  BY <1>0, <2>1, <2>3, <2>4 DEF IInv
<1>11. CASE UNCHANGED vars
  BY <1>0, <1>11 DEF vars, IInv, TypeOK, DraftsCurrent, At, InTransaction
<1> QED
  BY <1>1, <1>2, <1>3, <1>4, <1>5, <1>6, <1>7, <1>8, <1>9, <1>10, <1>11
  DEF Next, CallerStep, Attempt, InTransactionStep

LEMMA Invariant == Spec => []IInv
  BY InitIInv, NextIInv, PTL DEF Spec

(***************************************************************************)
(* The type invariant, and with it the discipline of SQLite's write lock:  *)
(* a caller of write_transaction holds it exactly while its transaction is *)
(* open, on every path through the checks, the errors and the crashes.     *)
(***************************************************************************)
THEOREM TypeCorrect == Spec => []TypeOK
<1>1. IInv => TypeOK
  BY DEF IInv
<1> QED  BY <1>1, Invariant, PTL

(***************************************************************************)
(* No sequence of writes, by any number of callers, leaves a row that      *)
(* refers to one which is gone (0001_initial.sql's cascades).              *)
(***************************************************************************)
THEOREM ReferencesHold == Spec => []ReferencesResolve
<1>1. IInv => ReferencesResolve
  BY DEF IInv, Good, ReferencesResolve
<1> QED  BY <1>1, Invariant, PTL

(***************************************************************************)
(* The head of a chat, which no foreign key guards, is a turn of that chat *)
(* (set_head_turn of chat.rs and the cascades).                            *)
(***************************************************************************)
THEOREM HeadsAreOwn == Spec => []HeadIsOwnTurn
<1>1. IInv => HeadIsOwnTurn
  BY DEF IInv, Good, HeadIsOwnTurn
<1> QED  BY <1>1, Invariant, PTL

(***************************************************************************)
(* The search index holds the turns there are and no other                 *)
(* (0002_turn_fts.sql).                                                    *)
(***************************************************************************)
THEOREM IndexIsExact == Spec => []IndexMirrors
<1>1. IInv => IndexMirrors
  BY DEF IInv, Good, IndexMirrors
<1> QED  BY <1>1, Invariant, PTL

--------------------------------------------------------------------------------
(***************************************************************************)
(* What a write may do to a transcript and to a session.                   *)
(***************************************************************************)
LEMMA SameTurnsExtend ==
  ASSUME NEW d, NEW new, NEW c, TurnsOf(new, c) = TurnsOf(d, c),
         \A t \in TurnsOf(d, c) : new.turns[t].sequence = d.turns[t].sequence
  PROVE  Extends(Transcript(d, c), Transcript(new, c))
<1>1. SequencesOf(new, c) = SequencesOf(d, c)
  BY DEF SequencesOf
<1>2. ASSUME NEW n \in SequencesOf(d, c)
      PROVE  (CHOOSE t \in TurnsOf(new, c) : new.turns[t].sequence = n)
               = (CHOOSE t \in TurnsOf(d, c) : d.turns[t].sequence = n)
  <2>1. \A t : /\ t \in TurnsOf(new, c) /\ new.turns[t].sequence = n
               <=> t \in TurnsOf(d, c) /\ d.turns[t].sequence = n
    OBVIOUS
  <2> QED  BY <2>1, Zenon
<1>3. Transcript(new, c) = Transcript(d, c)
  BY <1>1, <1>2 DEF Transcript
<1> QED  BY <1>3 DEF Extends

LEMMA AppendExtends ==
  ASSUME NEW d, Good(d), NEW t \in Turns, NEW c \in Chats,
         NEW p \in Turns \cup {None}, ~Has(d.turns, t), NEW e \in Chats
  PROVE  Extends(Transcript(d, e), Transcript(AppendTurn(d, t, c, p), e))
<1> DEFINE n == NextSequence(d, c)
<1> DEFINE row == [chat |-> c, parent |-> p, sequence |-> n]
<1> DEFINE new == AppendTurn(d, t, c, p)
<1>1. d \in Databases /\ Bounded(d)
  BY DEF Good
<1>2. n \in Nat \ {0} /\ \A u \in TurnsOf(d, c) : d.turns[u].sequence < n
  BY <1>1, NextSequenceIsNext
<1> HIDE DEF n
<1>3. row \in TurnRows /\ row.chat = c /\ row.sequence = n
  BY <1>2 DEF TurnRows
<1>4. row # None
  BY <1>3, NoneIsNoRow
<1> HIDE DEF row
<1>5. new.turns = [d.turns EXCEPT ![t] = row]
  BY <1>1 DEF AppendTurn, Databases, row, n
<1> HIDE DEF new
<1>6. /\ new.turns[t] = row
      /\ \A u \in Turns : u # t => new.turns[u] = d.turns[u]
  BY <1>1, <1>5, Columns
<1>7. t \notin TurnsOf(d, e)
  BY DEF TurnsOf
<1>8. TurnsOf(new, e) = IF e = c THEN TurnsOf(d, e) \cup {t} ELSE TurnsOf(d, e)
  BY <1>3, <1>4, <1>6, <1>7 DEF TurnsOf, Has
<1>9. \A u \in TurnsOf(d, e) : /\ u # t
                               /\ new.turns[u].sequence = d.turns[u].sequence
                               /\ d.turns[u].sequence \in Nat
  BY <1>1, <1>6, <1>7, TurnRow DEF TurnsOf
<1>10. CASE e # c
  BY <1>8, <1>9, <1>10, SameTurnsExtend DEF new
<1>11. CASE e = c
  <2>1. \A m \in SequencesOf(d, e) : m \in Nat /\ m < n
    BY <1>2, <1>9, <1>11 DEF SequencesOf
  <2>2. SequencesOf(new, e) = SequencesOf(d, e) \cup {n}
    <3>1. \A u \in TurnsOf(new, e) :
            new.turns[u].sequence = IF u = t THEN n ELSE d.turns[u].sequence
      BY <1>3, <1>6, <1>8, <1>9, <1>11
    <3> QED  BY <1>7, <1>8, <1>9, <1>11, <3>1 DEF SequencesOf
  <2>3. ASSUME NEW m \in SequencesOf(d, e)
        PROVE  (CHOOSE u \in TurnsOf(new, e) : new.turns[u].sequence = m)
                 = (CHOOSE u \in TurnsOf(d, e) : d.turns[u].sequence = m)
    <3>1. new.turns[t].sequence # m
      BY <1>2, <1>3, <1>6, <2>1
    <3>2. \A u : /\ u \in TurnsOf(new, e) /\ new.turns[u].sequence = m
                 <=> u \in TurnsOf(d, e) /\ d.turns[u].sequence = m
      BY <1>8, <1>9, <1>11, <3>1
    <3> QED  BY <3>2, Zenon
  <2>4. \A m \in SequencesOf(d, e) : Transcript(new, e)[m] = Transcript(d, e)[m]
    BY <2>2, <2>3 DEF Transcript
  <2>5. /\ DOMAIN Transcript(d, e) = SequencesOf(d, e)
        /\ DOMAIN Transcript(new, e) = SequencesOf(d, e) \cup {n}
    BY <2>2 DEF Transcript
  <2>6. Extends(Transcript(d, e), Transcript(new, e))
    BY <2>1, <2>4, <2>5 DEF Extends
  <2> QED  BY <2>6 DEF new
<1> QED  BY <1>10, <1>11

(***************************************************************************)
(* A chat that is there before and after a write keeps its turns: other    *)
(* chats go with theirs, and only append writes one.                       *)
(***************************************************************************)
LEMMA EffectExtends ==
  ASSUME NEW d, Good(d), NEW r \in Requests, Verdict(d, r) = "Ok",
         NEW c \in Chats, Has(Effect(d, r).chats, c)
  PROVE  Extends(Transcript(d, c), Transcript(Effect(d, r), c))
<1>1. ~Conflicts(d, r)
  BY VerdictOk
<1>2. d \in Databases
  BY DEF Good
<1>3. ASSUME NEW gone \in SUBSET Chats, NEW new, new.turns = DeleteChats(d, gone).turns,
             c \notin gone
      PROVE  Extends(Transcript(d, c), Transcript(new, c))
  <2> DEFINE mid == DeleteChats(d, gone)
  <2>1. /\ TurnsOf(mid, c) = TurnsOf(d, c)
        /\ \A t \in Turns : Has(mid.turns, t)
             => mid.turns[t].sequence = d.turns[t].sequence
    BY <1>2, <1>3, DeleteChatsRows
  <2> HIDE DEF mid
  <2>2. /\ TurnsOf(new, c) = TurnsOf(mid, c)
        /\ \A t \in TurnsOf(mid, c) : t \in Turns /\ Has(mid.turns, t)
    BY <1>3 DEF TurnsOf, mid
  <2>3. \A t \in TurnsOf(d, c) : new.turns[t].sequence = d.turns[t].sequence
    BY <1>3, <2>1, <2>2 DEF mid
  <2> QED  BY <2>1, <2>2, <2>3, SameTurnsExtend
<1>4. CASE r.op = "append"
  <2>1. Effect(d, r) = AppendTurn(d, r.turn, r.chat, r.parent)
    BY <1>4 DEF Effect
  <2>2. ~Has(d.turns, r.turn)
    BY <1>1, <1>4 DEF Conflicts, Violates
  <2> QED  BY <1>4, <2>1, <2>2, RequestShape, AppendExtends
<1>5. CASE r.op = "chat_delete"
  <2>1. Effect(d, r) = DeleteChats(d, {r.chat}) /\ {r.chat} \in SUBSET Chats
    BY <1>5, RequestShape DEF Effect
  <2>2. c \notin {r.chat}
    BY <1>2, <2>1, DeleteChatsRows
  <2> QED  BY <1>3, <2>1, <2>2
<1>6. CASE r.op = "workspace_delete"
  <2> DEFINE gone == ChatsOf(d, r.workspace)
  <2> DEFINE mid == DeleteChats(d, gone)
  <2>1. /\ Effect(d, r) = DeleteWorkspace(d, r.workspace)
        /\ gone \in SUBSET Chats
    BY <1>6 DEF Effect, ChatsOf
  <2>2. mid \in Databases
    BY <1>2, <2>1, DeleteChatsColumns
  <2>3. /\ Effect(d, r).turns = mid.turns
        /\ Effect(d, r).chats = mid.chats
    BY <2>1, <2>2 DEF DeleteWorkspace, Databases
  <2>4. c \notin gone
    BY <1>2, <2>1, <2>3, DeleteChatsRows
  <2> HIDE DEF gone
  <2> QED  BY <1>3, <2>1, <2>3, <2>4
<1>7. CASE r.op \notin {"append", "chat_delete", "workspace_delete"}
  <2>1. Effect(d, r).turns = d.turns
    BY <1>2, <1>7, RequestShape
    DEF Effect, Databases, UpsertWorkspace, RecordOpened, Forget, SetSession,
        UpsertChat, SetHeadTurn, SetAttachment, UpsertGrant, DeleteGrant
  <2>2. TurnsOf(Effect(d, r), c) = TurnsOf(d, c)
    BY <2>1 DEF TurnsOf
  <2> QED  BY <2>1, <2>2, SameTurnsExtend
<1> QED  BY <1>4, <1>5, <1>6, <1>7

(***************************************************************************)
(* No other write than its own delete takes a session: a workspace that is *)
(* deleted owns none.                                                      *)
(***************************************************************************)
LEMMA EffectKeepsSessions ==
  ASSUME NEW d, Good(d), NEW r \in Requests, Verdict(d, r) = "Ok",
         NEW s \in Sessions, Has(d.sessions, s), ~Has(Effect(d, r).sessions, s)
  PROVE  r = [op |-> "session_delete", session |-> s]
<1>1. ~Conflicts(d, r)
  BY VerdictOk
<1>2. d \in Databases /\ d.sessions \in [Sessions -> Workspaces \cup {None}]
  BY Columns DEF Good
<1>3. CASE r.op = "session_delete"
  <2>1. r \in [op : {"session_delete"}, session : Sessions]
    BY <1>3 DEF Requests
  <2>2. Effect(d, r).sessions = [d.sessions EXCEPT ![r.session] = None]
    BY <1>2, <1>3 DEF Effect, SetSession, Databases
  <2>3. r.session = s
    BY <1>2, <2>2 DEF Has
  <2> QED  BY <2>1, <2>3
<1>4. CASE r.op = "session_upsert"
  <2>1. Effect(d, r).sessions = [d.sessions EXCEPT ![r.session] = r.workspace]
    BY <1>2, <1>4 DEF Effect, SetSession, Databases
  <2>2. r.workspace # None
    BY <1>4, RequestShape, NoneIsNoRow
  <2> QED  BY <1>2, <2>1, <2>2 DEF Has
<1>5. CASE r.op = "workspace_delete"
  <2>1. SessionsOf(d, r.workspace) = {}
    BY <1>1, <1>5 DEF Conflicts, OwnsSessions
  <2> DEFINE mid == DeleteChats(d, ChatsOf(d, r.workspace))
  <2>2. mid \in Databases
    BY <1>2, DeleteChatsColumns DEF ChatsOf
  <2>3. Effect(d, r).sessions = Without(d.sessions, {})
    BY <1>5, <2>1, <2>2 DEF Effect, DeleteWorkspace, Databases
  <2> QED  BY <1>2, <2>3 DEF Without, Has
<1>6. CASE r.op = "chat_delete"
  <2>1. Effect(d, r) = DeleteChats(d, {r.chat}) /\ {r.chat} \in SUBSET Chats
    BY <1>6, RequestShape DEF Effect
  <2>2. Effect(d, r).sessions = d.sessions
    BY <1>2, <2>1, DeleteChatsColumns
  <2> QED  BY <2>2
<1>7. CASE r.op \notin {"session_delete", "session_upsert", "chat_delete",
                        "workspace_delete"}
  <2>1. Effect(d, r).sessions = d.sessions
    BY <1>2, <1>7, RequestShape
    DEF Effect, Databases, UpsertWorkspace, RecordOpened, Forget, UpsertChat,
        SetHeadTurn, AppendTurn, SetAttachment, UpsertGrant, DeleteGrant
  <2> QED  BY <2>1
<1> QED  BY <1>3, <1>4, <1>5, <1>6, <1>7

(***************************************************************************)
(* Only a commit changes the database, by its write.                       *)
(***************************************************************************)
LEMMA OnlyCommits ==
  ASSUME IInv, [Next]_vars, db' # db
  PROVE  \E c \in Callers :
           /\ At(c, "executed") /\ call[c].req \in Requests
           /\ Verdict(db, call[c].req) = "Ok"
           /\ db' = Effect(db, call[c].req)
<1>1. PICK c \in Callers : Commit(c)
  BY DEF Next, CallerStep, Attempt, InTransactionStep, Call, Begin, Backoff,
         Wake, GiveUp, Execute, Refuse, StatementFails, Crash, OutsiderLocks,
         OutsiderUnlocks, vars
<1>2. At(c, "executed") /\ ~At(c, "idle") /\ db' = call[c].draft
  BY <1>1 DEF Commit, At
<1>3. call[c].req \in Requests
  BY <1>2, CallShape DEF IInv
<1> QED  BY <1>2, <1>3 DEF IInv, DraftsCurrent

(***************************************************************************)
(* The places of a chat's turns are all different, so that no turn is      *)
(* missing from its transcript: append takes the number and writes the row *)
(* under one lock (turn.rs).                                               *)
(***************************************************************************)
THEOREM PlacesDiffer == Spec => []Numbered(db)
<1>1. IInv => Numbered(db)
  BY DEF IInv, Good
<1> QED  BY <1>1, Invariant, PTL

(***************************************************************************)
(* Whatever is written around a chat, and whoever appends to it, what its  *)
(* transcript holds stays where it is and new turns come at the end        *)
(* ("Turns are immutable once written", repository.rs).                    *)
(***************************************************************************)
THEOREM TranscriptsGrow == Spec => TranscriptOnlyGrows
<1> DEFINE Grows ==
      \A c \in Chats :
        Has(db.chats, c) /\ Has(db'.chats, c)
          => Extends(Transcript(db, c), Transcript(db', c))
<1>1. ASSUME IInv, [Next]_vars
      PROVE  Grows
  <2> SUFFICES ASSUME NEW c \in Chats, Has(db'.chats, c)
               PROVE  Extends(Transcript(db, c), Transcript(db', c))
    OBVIOUS
  <2>1. CASE db' = db
    BY <2>1, SameTurnsExtend
  <2>2. CASE db' # db
    <3>1. PICK e \in Callers : /\ call[e].req \in Requests
                               /\ Verdict(db, call[e].req) = "Ok"
                               /\ db' = Effect(db, call[e].req)
      BY <1>1, <2>2, OnlyCommits
    <3>2. Good(db)
      BY <1>1 DEF IInv
    <3> QED  BY <3>1, <3>2, EffectExtends
  <2> QED  BY <2>1, <2>2
<1> QED  BY <1>1, Invariant, PTL DEF Spec, TranscriptOnlyGrows

(***************************************************************************)
(* A session goes by its own delete alone, never with its workspace, also  *)
(* when the two race for the lock (workspace.rs delete).                   *)
(***************************************************************************)
THEOREM SessionsStay == Spec => SessionsOutlive
<1> DEFINE Outlive ==
      \A s \in Sessions :
        Has(db.sessions, s) /\ ~Has(db'.sessions, s)
          => \E c \in Callers :
               call[c].req = [op |-> "session_delete", session |-> s]
                 /\ At(c, "executed")
<1>1. ASSUME IInv, [Next]_vars
      PROVE  Outlive
  <2> SUFFICES ASSUME NEW s \in Sessions, Has(db.sessions, s),
                      ~Has(db'.sessions, s)
               PROVE  \E c \in Callers :
                        call[c].req = [op |-> "session_delete", session |-> s]
                          /\ At(c, "executed")
    OBVIOUS
  <2>1. PICK e \in Callers : /\ At(e, "executed") /\ call[e].req \in Requests
                             /\ Verdict(db, call[e].req) = "Ok"
                             /\ db' = Effect(db, call[e].req)
    BY <1>1, OnlyCommits
  <2>2. Good(db)
    BY <1>1 DEF IInv
  <2>3. call[e].req = [op |-> "session_delete", session |-> s]
    BY <2>1, <2>2, EffectKeepsSessions
  <2> QED  BY <2>1, <2>3
<1> QED  BY <1>1, Invariant, PTL DEF Spec, SessionsOutlive

--------------------------------------------------------------------------------
(***************************************************************************)
(* The abstract module's copy of Tables is Tables.                         *)
(***************************************************************************)
LEMMA SameTables ==
  /\ Atomic!Requests = Requests
  /\ Atomic!Empty = Empty
  /\ \A d, r : Atomic!Verdict(d, r) = Verdict(d, r)
  /\ \A d, r : Atomic!Effect(d, r) = Effect(d, r)
<1>1. Atomic!Requests = Requests /\ Atomic!Empty = Empty
  BY DEF Atomic!Requests, Requests, Atomic!Empty, Empty
<1>2. \A table, id : Atomic!Has(table, id) <=> Has(table, id)
  BY DEF Atomic!Has, Has
<1>3. \A d, r : Atomic!Conflicts(d, r) <=> Conflicts(d, r)
  BY DEF Atomic!Conflicts, Conflicts, Atomic!Violates, Violates,
         Atomic!OwnsSessions, OwnsSessions, Atomic!SessionsOf, SessionsOf,
         Atomic!Has, Has
<1>4. \A d, r : Atomic!Missing(d, r) <=> Missing(d, r)
  BY DEF Atomic!Missing, Missing, Atomic!Has, Has
<1>5. \A d, r : Atomic!Verdict(d, r) = Verdict(d, r)
  BY <1>3, <1>4 DEF Atomic!Verdict, Verdict
<1>6. \A d, gone : Atomic!DeleteChats(d, gone) = DeleteChats(d, gone)
  BY DEF Atomic!DeleteChats, DeleteChats, Atomic!TurnsOfAny, TurnsOfAny,
         Atomic!TurnsOf, TurnsOf, Atomic!Without, Without, Atomic!Has, Has
<1>7. \A d, w : Atomic!DeleteWorkspace(d, w) = DeleteWorkspace(d, w)
  BY <1>6 DEF Atomic!DeleteWorkspace, DeleteWorkspace, Atomic!ChatsOf, ChatsOf,
              Atomic!SessionsOf, SessionsOf, Atomic!Without, Without,
              Atomic!Has, Has
<1>8. \A d, c, w : Atomic!UpsertChat(d, c, w) = UpsertChat(d, c, w)
  BY DEF Atomic!UpsertChat, UpsertChat, Atomic!Has, Has
<1>9. \A d, t, c, p : Atomic!AppendTurn(d, t, c, p) = AppendTurn(d, t, c, p)
  BY DEF Atomic!AppendTurn, AppendTurn, Atomic!NextSequence, NextSequence,
         Atomic!SequencesOf, SequencesOf, Atomic!TurnsOf, TurnsOf,
         Atomic!Has, Has
<1>10. \A d, r : Atomic!Effect(d, r) = Effect(d, r)
  BY <1>6, <1>7, <1>8, <1>9
  DEF Atomic!Effect, Effect,
      Atomic!UpsertWorkspace, UpsertWorkspace,
      Atomic!RecordOpened, RecordOpened,
      Atomic!Forget, Forget,
      Atomic!SetSession, SetSession,
      Atomic!SetHeadTurn, SetHeadTurn,
      Atomic!SetAttachment, SetAttachment,
      Atomic!UpsertGrant, UpsertGrant,
      Atomic!DeleteGrant, DeleteGrant
<1> QED  BY <1>1, <1>5, <1>10
--------------------------------------------------------------------------------
(***************************************************************************)
(* A step that replaces one caller's call replaces that caller's operation.*)
(***************************************************************************)
LEMMA OpsStep ==
  ASSUME TypeOK, NEW c \in Callers, NEW new,
         call' = [call EXCEPT ![c] = new]
  PROVE  Ops' = [Ops EXCEPT ![c] = OpOf(new)]
<1>1. call \in [Callers -> Calls]
  BY DEF TypeOK
<1>2. \A e \in Callers : call'[e] = IF e = c THEN new ELSE call[e]
  BY <1>1
<1>3. Ops' = [e \in Callers |-> OpOf(call'[e])]
  BY DEF Ops, OpOf
<1>4. Ops' = [e \in Callers |-> IF e = c THEN OpOf(new) ELSE OpOf(call[e])]
  BY <1>2, <1>3
<1> QED  BY <1>4 DEF Ops

(***************************************************************************)
(* An answer ends the operation of a caller that has one.                  *)
(***************************************************************************)
LEMMA ReplyReturns ==
  ASSUME TypeOK, NEW c \in Callers, NEW reply, ~At(c, "idle"), Reply(c, reply)
  PROVE  /\ Ops[c].pending
         /\ Ops' = [Ops EXCEPT
                      ![c] = [pending |-> FALSE, req |-> None, reply |-> reply]]
<1>1. Ops[c].pending
  BY DEF Ops, OpOf, At
<1>2. Ops' = [Ops EXCEPT ![c] = OpOf(Idle(reply))]
  BY OpsStep DEF Reply
<1>3. OpOf(Idle(reply)) = [pending |-> FALSE, req |-> None, reply |-> reply]
  BY DEF OpOf, Idle
<1> QED  BY <1>1, <1>2, <1>3

(***************************************************************************)
(* A step that leaves the caller in its call, with its request, and the    *)
(* database alone, is nothing to the specification.                        *)
(***************************************************************************)
LEMMA Stutters ==
  ASSUME TypeOK, NEW c \in Callers, NEW new,
         call' = [call EXCEPT ![c] = new], db' = db,
         OpOf(new) = OpOf(call[c])
  PROVE  UNCHANGED <<db, Ops>>
<1>1. Ops' = [Ops EXCEPT ![c] = OpOf(new)]
  BY OpsStep
<1>2. Ops[c] = OpOf(new) /\ Ops = [e \in Callers |-> Ops[e]]
  BY DEF Ops
<1>3. Ops' = Ops
  BY <1>1, <1>2
<1> QED  BY <1>3

(***************************************************************************)
(* The commit of a current draft is the write applied at once; a refusal,  *)
(* a failure and a crash end the operation without a trace.                *)
(***************************************************************************)
LEMMA RefineNext == IInv /\ [Next]_vars => [Atomic!Next]_(Atomic!vars)
<1> SUFFICES ASSUME IInv, [Next]_vars
             PROVE  Atomic!Next \/ UNCHANGED <<db, Ops>>
  BY DEF Atomic!vars
<1>0. /\ TypeOK /\ DraftsCurrent
      /\ call \in [Callers -> Calls]
  BY DEF IInv, TypeOK
<1> USE SameTables
<1>1. ASSUME NEW c \in Callers, NEW r \in Requests, Call(c, r)
      PROVE  Atomic!Next
  <2>1. Ops' = [Ops EXCEPT ![c] = OpOf(Queued(r))] /\ db' = db
    BY <1>0, <1>1, OpsStep DEF Call
  <2>2. OpOf(Queued(r)) = [pending |-> TRUE, req |-> r, reply |-> None]
    BY DEF OpOf, Queued
  <2>3. ~Ops[c].pending
    BY <1>1 DEF Ops, OpOf, Call, At
  <2>4. Atomic!Invoke(c, r)
    BY <2>1, <2>2, <2>3 DEF Atomic!Invoke
  <2> QED  BY <2>4 DEF Atomic!Next
<1>2. ASSUME NEW c \in Callers, Begin(c)
      PROVE  UNCHANGED <<db, Ops>>
  <2> DEFINE new == [call[c] EXCEPT !.pc = "begun"]
  <2>1. call' = [call EXCEPT ![c] = new] /\ db' = db /\ call[c] \in Calls
    BY <1>0, <1>2 DEF Begin
  <2>2. OpOf(new) = OpOf(call[c])
    BY <1>2, <2>1 DEF OpOf, Begin, At, Calls
  <2> QED  BY <1>0, <2>1, <2>2, Stutters
<1>3. ASSUME NEW c \in Callers, Backoff(c)
      PROVE  UNCHANGED <<db, Ops>>
  <2> DEFINE new == [call[c] EXCEPT !.pc = "backoff", !.retries = @ + 1]
  <2>1. call' = [call EXCEPT ![c] = new] /\ db' = db /\ call[c] \in Calls
    BY <1>0, <1>3 DEF Backoff
  <2>2. OpOf(new) = OpOf(call[c])
    BY <1>3, <2>1 DEF OpOf, Backoff, At, Calls
  <2> QED  BY <1>0, <2>1, <2>2, Stutters
<1>4. ASSUME NEW c \in Callers, Wake(c)
      PROVE  UNCHANGED <<db, Ops>>
  <2> DEFINE new == [call[c] EXCEPT !.pc = "queued"]
  <2>1. call' = [call EXCEPT ![c] = new] /\ db' = db /\ call[c] \in Calls
    BY <1>0, <1>4 DEF Wake
  <2>2. OpOf(new) = OpOf(call[c])
    BY <1>4, <2>1 DEF OpOf, Wake, At, Calls
  <2> QED  BY <1>0, <2>1, <2>2, Stutters
<1>5. ASSUME NEW c \in Callers, Execute(c)
      PROVE  UNCHANGED <<db, Ops>>
  <2> DEFINE new == [call[c] EXCEPT !.pc = "executed",
                                    !.draft = Effect(db, call[c].req)]
  <2>1. call' = [call EXCEPT ![c] = new] /\ db' = db /\ call[c] \in Calls
    BY <1>0, <1>5 DEF Execute
  <2>2. OpOf(new) = OpOf(call[c])
    BY <1>5, <2>1 DEF OpOf, Execute, At, Calls
  <2> QED  BY <1>0, <2>1, <2>2, Stutters
<1>6. ASSUME NEW c \in Callers, GiveUp(c) \/ StatementFails(c)
      PROVE  Atomic!Next
  <2>1. PICK reply \in {"DatabaseLocked", "IoError"} : Reply(c, reply)
    BY <1>6 DEF GiveUp, StatementFails
  <2>2. ~At(c, "idle") /\ db' = db
    BY <1>6 DEF GiveUp, StatementFails, At, InTransaction
  <2>3. Atomic!Return(c, reply)
    BY <1>0, <2>1, <2>2, ReplyReturns DEF Atomic!Return, Atomic!Idle
  <2>4. Atomic!Fail(c)
    BY <2>1, <2>2, <2>3 DEF Atomic!Fail
  <2> QED  BY <2>4 DEF Atomic!Next
<1>7. ASSUME NEW c \in Callers, Crash(c)
      PROVE  Atomic!Next
  <2>1. Reply(c, None) /\ ~At(c, "idle") /\ db' = db
    BY <1>7 DEF Crash
  <2>2. Atomic!Return(c, None)
    BY <1>0, <2>1, ReplyReturns DEF Atomic!Return, Atomic!Idle
  <2>3. Atomic!Abandon(c)
    BY <2>1, <2>2 DEF Atomic!Abandon
  <2> QED  BY <2>3 DEF Atomic!Next
<1>8. ASSUME NEW c \in Callers, Refuse(c)
      PROVE  Atomic!Next
  <2> DEFINE reply == Verdict(db, call[c].req)
  <2>1. /\ Reply(c, reply) /\ reply # "Ok" /\ db' = db
        /\ ~At(c, "idle") /\ Ops[c].req = call[c].req
    BY <1>8 DEF Refuse, At, Ops, OpOf
  <2> HIDE DEF reply
  <2>2. Atomic!Return(c, reply)
    BY <1>0, <2>1, ReplyReturns DEF Atomic!Return, Atomic!Idle
  <2>3. Atomic!Verdict(db, Ops[c].req) = reply
    BY <2>1 DEF reply
  <2>4. Atomic!Refuse(c)
    BY <2>1, <2>2, <2>3 DEF Atomic!Refuse
  <2> QED  BY <2>4 DEF Atomic!Next
<1>9. ASSUME NEW c \in Callers, Commit(c)
      PROVE  Atomic!Next
  <2>0. PICK reply \in {"Ok", None} : Reply(c, reply)
    BY <1>9 DEF Commit
  <2>1. /\ db' = call[c].draft /\ ~At(c, "idle")
        /\ Ops[c].req = call[c].req
    BY <1>9 DEF Commit, At, Ops, OpOf
  <2>2. Verdict(db, call[c].req) = "Ok" /\ db' = Effect(db, call[c].req)
    BY <1>0, <1>9 DEF DraftsCurrent, Commit
  <2>3. Atomic!Return(c, reply)
    BY <1>0, <2>0, <2>1, ReplyReturns DEF Atomic!Return, Atomic!Idle
  <2>4. /\ Atomic!Verdict(db, Ops[c].req) = "Ok"
        /\ db' = Atomic!Effect(db, Ops[c].req)
    BY <2>1, <2>2
  <2>5. Atomic!Apply(c)
    BY <2>3, <2>4 DEF Atomic!Apply
  <2> QED  BY <2>5 DEF Atomic!Next
<1>10. ASSUME OutsiderLocks \/ OutsiderUnlocks \/ UNCHANGED vars
       PROVE  UNCHANGED <<db, Ops>>
  BY <1>10 DEF OutsiderLocks, OutsiderUnlocks, vars, Ops, OpOf
<1> QED
  BY <1>1, <1>2, <1>3, <1>4, <1>5, <1>6, <1>7, <1>8, <1>9, <1>10
  DEF Next, CallerStep, Attempt, InTransactionStep

(***************************************************************************)
(* write_transaction is atomic: with any number of callers, failures,      *)
(* crashes and other programs at the lock, a write is applied at one       *)
(* instant or not at all, and a caller told Ok or an error is told which.  *)
(***************************************************************************)
THEOREM WritesAreAtomic == Spec => ImplementsAtomic
<1>1. Init => Atomic!Init
  <2> SUFFICES ASSUME Init PROVE Atomic!Init
    OBVIOUS
  <2>1. Ops = [c \in Callers |-> OpOf(Idle(None))]
    BY DEF Init, Ops
  <2>2. OpOf(Idle(None)) = [pending |-> FALSE, req |-> None, reply |-> None]
    BY DEF OpOf, Idle
  <2> QED  BY <2>1, <2>2, SameTables DEF Init, Atomic!Init, Atomic!Idle
<1> QED
  BY <1>1, RefineNext, Invariant, PTL
  DEF Spec, ImplementsAtomic, Atomic!Spec

================================================================================
