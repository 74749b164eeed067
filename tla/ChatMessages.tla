---------------------------- MODULE ChatMessages ----------------------------
(***************************************************************************)
(* The rows of `chat_messages` and the read side of the chat API           *)
(* (repositories/chat_repository.py, api/v1/routes/chat.py).  A row is     *)
(* identified by its index in the table, which is also its `created_at`:   *)
(* the column is stamped by the application when the row is flushed, and   *)
(* one clock stamps every row.  Row content is abstracted to its length.   *)
(***************************************************************************)
EXTENDS Integers, Sequences, FiniteSets

NoRow == 0                       \* SQL NULL in a `parent_id` column

(***************************************************************************)
(* pending: flushed by a transaction still open, seen by nobody else.      *)
(* live / deleted: committed, `deleted_at` null / stamped.                 *)
(* void: rolled back.  erased: removed with its conversation.              *)
(***************************************************************************)
RowStates == {"pending", "live", "deleted", "void", "erased"}

Largest(S) == CHOOSE i \in S : \A j \in S : j <= i

LiveRows(rows, c) == {i \in DOMAIN rows : rows[i].conv = c /\ rows[i].state = "live"}

LiveUsers(rows, c) == {i \in LiveRows(rows, c) : rows[i].role = "user"}

\* repo.list_messages(limit): the newest `limit` live rows.
ListMessages(rows, c, limit) ==
  {i \in LiveRows(rows, c) :
     Cardinality({j \in LiveRows(rows, c) : j > i}) < limit}

\* repo.list_sibling_map: live replies of every listed user turn that has any.
Replies(rows, u) ==
  {i \in DOMAIN rows : /\ rows[i].role = "assistant"
                       /\ rows[i].parent = u
                       /\ rows[i].state = "live"}

SiblingMap(rows, users) ==
  [u \in {v \in users : Replies(rows, v) # {}} |-> Replies(rows, u)]

\* Mutant: climbs one link only.
OneHopRoot(rows, c) ==
  [i \in LiveUsers(rows, c) |->
     IF rows[i].parent \in LiveUsers(rows, c) THEN rows[i].parent ELSE i]

\* The chain root of every live user row: walk user -> user parent links up
\* while the parent is itself a live user row.
ChainRoot(rows, c) ==
  LET live == LiveUsers(rows, c)
      root[i \in live] == IF rows[i].parent \in live /\ rows[i].parent < i
                            THEN root[rows[i].parent] ELSE i
  IN root

\* repo.list_user_sibling_map: every live variant of the turn a user row is in.
UserSiblingMap(rows, c, users) ==
  LET root == ChainRoot(rows, c)
      live == LiveUsers(rows, c)
  IN [u \in users \cap live |-> {v \in live : root[v] = root[u]}]

(***************************************************************************)
(* routes/chat.py _canonical_messages.  The result is a set of rows and    *)
(* Slot(i), the place of a shown row: a user row and a reply without an    *)
(* anchor keep their own place, an anchored reply sits right after its     *)
(* user turn.  `msgs`, `siblings` and `chains` are three separate reads,   *)
(* so they are parameters here.                                            *)
(***************************************************************************)
Dropped(chains) ==
  UNION {chains[u] \ {Largest(chains[u])} : u \in DOMAIN chains}

\* Mutant: a reply is anchored only under a turn that is shown.
CanonicalLoose(rows, msgs, siblings, chains) ==
  LET users == {i \in msgs : rows[i].role = "user" /\ i \notin Dropped(chains)}
  IN users \cup ({Largest(siblings[u]) : u \in users \cap DOMAIN siblings} \cap msgs)
       \cup {i \in msgs : rows[i].role = "assistant"
                          /\ rows[i].parent \notin users \cap DOMAIN siblings}

\* Mutant: keeps every sibling reply where it is.
CanonicalAll(rows, msgs, siblings, chains) == msgs \ Dropped(chains)

CanonicalMessages(rows, msgs, siblings, chains) ==
  LET anchors == DOMAIN siblings
      users   == {i \in msgs : rows[i].role = "user" /\ i \notin Dropped(chains)}
      anchored == {Largest(siblings[u]) : u \in users \cap anchors} \cap msgs
      loose   == {i \in msgs : rows[i].role = "assistant" /\ rows[i].parent \notin anchors}
  IN users \cup anchored \cup loose

Slot(rows, siblings, i) ==
  IF rows[i].role = "assistant" /\ rows[i].parent \in DOMAIN siblings
    THEN 2 * rows[i].parent + 1 ELSE 2 * i

\* GET /conversations/{id}, all three reads against one state.
Transcript(rows, c, limit) ==
  LET msgs  == ListMessages(rows, c, limit)
      users == {i \in msgs : rows[i].role = "user"}
  IN CanonicalMessages(rows, msgs, SiblingMap(rows, users),
                       UserSiblingMap(rows, c, users))

\* repo.get_messages_for_regenerate: live rows up to and including the cutoff.
RowsUpTo(rows, c, cutoff) == {i \in LiveRows(rows, c) : i <= cutoff}
=============================================================================
