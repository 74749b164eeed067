--------------------------- MODULE ChatInvariant ---------------------------
(***************************************************************************)
(* The inductive invariant of ChatConversation: what holds of the rows,    *)
(* the open transactions and the running streams between any two steps.    *)
(***************************************************************************)
EXTENDS ChatConversation

Committed == {"live", "deleted", "erased"}

\* Row i is a committed user turn of conversation c.
UserTurn(i, c) ==
  /\ i \in DOMAIN rows
  /\ rows[i].conv = c /\ rows[i].role = "user" /\ rows[i].state \in Committed

\* A committed row is erased exactly when its conversation is.
RowsFollowConversation ==
  \A i \in DOMAIN rows :
    /\ rows[i].state \in {"live", "deleted"} => convs[rows[i].conv] = "live"
    /\ rows[i].state = "erased" => convs[rows[i].conv] = "gone"

\* A reply is committed, and answers an earlier turn.
ReplyHasTurn(i) ==
  rows[i].role = "assistant" =>
    /\ rows[i].state \in Committed
    /\ rows[i].parent < i
    /\ UserTurn(rows[i].parent, rows[i].conv)

\* An open transaction owns one pending user row in a conversation that is
\* there, or that it is creating alone.
OwnsARow(r) ==
  pc[r] \in OpenTx =>
    /\ own[r] \in DOMAIN rows
    /\ rows[own[r]].state = "pending" /\ rows[own[r]].role = "user"
    /\ rows[own[r]].by = r /\ rows[own[r]].conv = at[r]
    /\ convs[at[r]] \in {"new", "live"}
    /\ pc[r] = "sendtx" => parent[r] = own[r] /\ rows[own[r]].parent = NoRow
    /\ pc[r] = "edittx" => /\ convs[at[r]] = "live"
                           /\ rows[own[r]].parent = parent[r] /\ parent[r] < own[r]

NewConversationHasOneCreator ==
  \A q, r \in Requests :
    pc[q] \in OpenTx /\ pc[r] \in OpenTx /\ at[q] = at[r] /\ convs[at[q]] = "new" => q = r

\* A stream answers, and an edit forks, a committed turn.
CallHasTurn(r) ==
  pc[r] \in Streaming \cup {"edit0", "edit1", "edittx"} => UserTurn(parent[r], at[r])

\* An edit truncates committed rows after its target.
VictimsDownstream(r) ==
  pc[r] \in {"edit1", "edittx"} =>
    \A i \in victims[r] : /\ i \in DOMAIN rows /\ i > parent[r]
                          /\ rows[i].conv = at[r] /\ rows[i].state \in Committed

\* An edited turn's variant forks an earlier turn of its conversation.
VariantHasTurn(i) ==
  rows[i].role = "user" /\ rows[i].parent # NoRow =>
    rows[i].parent < i /\ UserTurn(rows[i].parent, rows[i].conv)

\* Only an edit selects rows, and once it has committed they stay hidden.
SelectsAsAnEdit(r) ==
  /\ pc[r] \notin {"edit1", "edittx", "end", "aborted"} => victims[r] = {}
  /\ pc[r] = "end" =>
       \A i \in victims[r] : i \in DOMAIN rows /\ rows[i].state \in {"deleted", "erased"}

\* A hidden row was hidden by a committed edit.
HiddenByAnEdit(i) ==
  rows[i].state = "deleted" => \E e \in Requests : pc[e] = "end" /\ i \in victims[e]

\* What edits have taken out of the transcript.
EditsCut ==
  /\ \A r \in Requests : SelectsAsAnEdit(r)
  /\ \A i \in DOMAIN rows : HiddenByAnEdit(i)

\* What holds of the rows and of the transactions on them.
RowInv ==
  /\ TypeOK
  /\ RowsFollowConversation
  /\ \A i \in DOMAIN rows : ReplyHasTurn(i)
  /\ NewConversationHasOneCreator
  /\ \A r \in Requests : OwnsARow(r) /\ CallHasTurn(r) /\ VictimsDownstream(r)

\* How many copies of its reply a request may have stored so far: its own, and
\* the one whose commit reported an error.
Copies(r) ==
  (IF pc[r] \in {"saved", "end", "lost"} THEN 1 ELSE 0)
    + (IF r \in AckMayFail /\ pc[r] \in {"unsaved", "cut", "end", "lost"} THEN 1 ELSE 0)

\* What a request has stored, and what it will have stored at its end.
StoresItsReply(r) ==
  /\ Cardinality(Stored(r)) <= Copies(r)
  /\ pc[r] = "saved" \/ (pc[r] = "end" /\ kept[r] > 0) => Stored(r) # {}
  /\ \A i \in Stored(r) : rows[i].size = kept[r]

\* Only a stream buffers, and it drops tokens only above the cap.
BuffersItsReply(r) ==
  /\ pc[r] \notin Streaming \cup {"end", "lost"} => kept[r] = 0 /\ sent[r] = 0
  /\ kept[r] = sent[r] \/ (kept[r] >= ScanCap /\ kept[r] < sent[r])

\* The invariant the proofs carry from step to step.
IInv ==
  /\ RowInv
  /\ Len(rows) <= MaxRows
  /\ \A i \in DOMAIN rows : VariantHasTurn(i)
  /\ EditsCut
  /\ \A r \in Requests : StoresItsReply(r) /\ BuffersItsReply(r)

(***************************************************************************)
(* What docstrings, comments and tests of the repository say of the chat,  *)
(* and the code does not do.  Each is the property of a run that TLC finds *)
(* violated.                                                               *)
(***************************************************************************)
\* record_assistant_message: "Persist a completed assistant turn", from a
\* buffer whose cap assumes "only the beginning matters for the scan".  What
\* is stored is what the student read.
StoredReplyIsWhole ==
  \A r \in Requests : \A i \in Stored(r) : rows[i].size = sent[r]

\* edit_user_message: "Soft-delete only the *downstream* rows".  What the
\* transcript shows above the edited turn stays.
EditKeepsUpstream ==
  [][\A r \in Requests : pc[r] = "edittx" /\ pc'[r] = "end" =>
       LET c == at[r]
           above(i) == Slot(rows, SiblingMap(rows, ListMessages(rows, c, MessageLimit)), i)
                         < 2 * parent[r]
       IN \A i \in Shown(c) : above(i) => rows'[i].state = "live"]_vars
=============================================================================
