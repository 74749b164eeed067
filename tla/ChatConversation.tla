-------------------------- MODULE ChatConversation --------------------------
(***************************************************************************)
(* The streaming chat of the backend: api/v1/routes/stream.py (send,       *)
(* regenerate and the token generator), services/chat_service.py (edit,    *)
(* delete) and the rows they leave in Postgres (READ COMMITTED).           *)
(*                                                                         *)
(* A request is a one-shot HTTP call.  Requests run concurrently; an       *)
(* action is the code between two points where another request's commit    *)
(* can be observed.                                                        *)
(***************************************************************************)
EXTENDS ChatMessages

CONSTANTS
  Requests,      \* HTTP calls that may be made
  Convs,         \* conversation ids of one student
  Kinds,         \* what each request may be: subset of {"send","regen","edit"}
  ScanCap,       \* _REPLY_SCAN_CAP
  TokenSizes,    \* lengths of the tokens the model may emit
  MaxReply,      \* bound: a reply stops growing at this length
  MaxRows,       \* bound: rows ever inserted
  MessageLimit,  \* message_limit of GET /conversations/{id}
  AckMayFail     \* requests whose commit may land and still report an error

ASSUME ConvsAssumption == Convs # {}
ASSUME KindsAssumption == \A r \in Requests : Kinds[r] \subseteq {"send", "regen", "edit"}
ASSUME SizesAssumption == /\ TokenSizes \subseteq Nat \ {0}
                          /\ {ScanCap, MaxReply, MaxRows, MessageLimit} \subseteq Nat
ASSUME AckAssumption == AckMayFail \subseteq Requests

VARIABLES
  convs,         \* conversations: free, new (uncommitted), live, gone
  rows,          \* chat_messages, in created_at order
  pc,            \* where each request is
  at,            \* its conversation_id
  parent,        \* stream: parent_user_message_id; edit: the edited row
  own,           \* the user row this request inserted
  victims,       \* edit: the rows it selected for soft-deletion
  sent,          \* length streamed to the client
  kept           \* reply_total: length held in reply_chunks

vars == <<convs, rows, pc, at, parent, own, victims, sent, kept>>
call == <<at, parent, own>>
reply == <<sent, kept>>

OpenTx == {"sendtx", "edittx"}
Streaming == {"stream", "failed", "done", "saved", "unsaved", "cut"}
PcStates == {"idle", "edit0", "edit1", "end", "lost", "aborted"}
              \cup OpenTx \cup Streaming
ConvStates == {"free", "new", "live", "gone"}

Row(c, role, par, r, state, size) ==
  [conv |-> c, role |-> role, parent |-> par, by |-> r, state |-> state, size |-> size]

RowType == [conv : Convs, role : {"user", "assistant"}, parent : Nat,
            by : Requests, state : RowStates, size : Nat]

TypeOK ==
  /\ convs \in [Convs -> ConvStates]
  /\ rows \in Seq(RowType)
  /\ pc \in [Requests -> PcStates]
  /\ at \in [Requests -> Convs]
  /\ parent \in [Requests -> Nat]
  /\ own \in [Requests -> Nat]
  /\ victims \in [Requests -> SUBSET Nat]
  /\ sent \in [Requests -> Nat]
  /\ kept \in [Requests -> Nat]

Init ==
  /\ convs = [c \in Convs |-> "free"]
  /\ rows = << >>
  /\ pc = [r \in Requests |-> "idle"]
  /\ at = [r \in Requests |-> CHOOSE c \in Convs : TRUE]
  /\ parent = [r \in Requests |-> NoRow]
  /\ own = [r \in Requests |-> NoRow]
  /\ victims = [r \in Requests |-> {}]
  /\ sent = [r \in Requests |-> 0]
  /\ kept = [r \in Requests |-> 0]

SetState(S, state) ==
  [i \in DOMAIN rows |-> IF i \in S THEN [rows[i] EXCEPT !.state = state] ELSE rows[i]]

Goto(r, from, to) == pc[r] = from /\ pc' = [pc EXCEPT ![r] = to]

\* Soft-deletes and inserts of an open transaction lock these rows.
LockedRows == UNION {victims[q] : q \in {p \in Requests : pc[p] = "edittx"}}

(*************************** conversations ********************************)
\* POST /conversations, without a stream.
CreateConversation(c) ==
  /\ convs[c] = "free"
  /\ convs' = [convs EXCEPT ![c] = "live"]
  /\ UNCHANGED <<rows, pc, call, victims, reply>>

\* Mutant: nothing holds a delete back.
DeleteUnlocked(c) ==
  /\ convs[c] = "live"
  /\ convs' = [convs EXCEPT ![c] = "gone"]
  /\ rows' = SetState({i \in DOMAIN rows : rows[i].conv = c
                         /\ rows[i].state \in {"live", "deleted"}}, "erased")
  /\ UNCHANGED <<pc, call, victims, reply>>

\* Hard delete with its messages.  The row locks of an open transaction in
\* the conversation hold it back.
DeleteConversation(c) ==
  /\ convs[c] = "live"
  /\ \A r \in Requests : pc[r] \in OpenTx => at[r] # c
  /\ convs' = [convs EXCEPT ![c] = "gone"]
  /\ rows' = SetState({i \in DOMAIN rows : rows[i].conv = c
                         /\ rows[i].state \in {"live", "deleted"}}, "erased")
  /\ UNCHANGED <<pc, call, victims, reply>>

(******************************* send *************************************)
\* stream_chat up to the flush of the user turn; the conversation is loaded
\* or created first.
SendOpen(r, c) ==
  /\ "send" \in Kinds[r]
  /\ convs[c] \in {"free", "live"}
  /\ Len(rows) < MaxRows
  /\ Goto(r, "idle", "sendtx")
  /\ convs' = IF convs[c] = "free" THEN [convs EXCEPT ![c] = "new"] ELSE convs
  /\ rows' = Append(rows, Row(c, "user", NoRow, r, "pending", 1))
  /\ at' = [at EXCEPT ![r] = c]
  /\ own' = [own EXCEPT ![r] = Len(rows) + 1]
  /\ parent' = [parent EXCEPT ![r] = Len(rows) + 1]
  /\ UNCHANGED <<victims, reply>>

SendCommit(r) ==
  /\ Goto(r, "sendtx", "stream")
  /\ convs' = [convs EXCEPT ![at[r]] = "live"]
  /\ rows' = SetState({own[r]}, "live")
  /\ UNCHANGED <<call, victims, reply>>

\* A 404 from attachments, the continued message or the context refs, or any
\* other exception, rolls the new conversation and the user turn back.
SendAbort(r) ==
  /\ Goto(r, "sendtx", "aborted")
  /\ convs' = IF convs[at[r]] = "new" THEN [convs EXCEPT ![at[r]] = "gone"] ELSE convs
  /\ rows' = SetState({own[r]}, "void")
  /\ UNCHANGED <<call, victims, reply>>

(***************************** regenerate *********************************)
\* prepare_regenerate: the turn to answer again, if there is one (else 404):
\* the live parent, or the last live user turn before the reply.
RegenerateParent(a) ==
  LET users == {i \in RowsUpTo(rows, rows[a].conv, a) : rows[i].role = "user"}
      direct == users \cap {rows[a].parent}
  IN IF direct # {} THEN direct ELSE {i \in users : \A j \in users : j <= i}

\* The turns handed to the model: stream.py filters out only the parent.
RegenerateHistory(p) == RowsUpTo(rows, rows[p].conv, p) \ {p}

RegenOpen(r, a) ==
  /\ "regen" \in Kinds[r]
  /\ rows[a].role = "assistant" /\ rows[a].state = "live"
  /\ Goto(r, "idle", "stream")
  /\ at' = [at EXCEPT ![r] = rows[a].conv]
  /\ \E p \in RegenerateParent(a) : parent' = [parent EXCEPT ![r] = p]
  /\ UNCHANGED <<convs, rows, own, victims, reply>>

(*************************** token generator ******************************)
\* One token of the model: streamed always, kept only below the cap.
Token(r, n) ==
  /\ pc[r] = "stream"
  /\ sent[r] < MaxReply
  /\ sent' = [sent EXCEPT ![r] = @ + n]
  /\ kept' = IF kept[r] < ScanCap THEN [kept EXCEPT ![r] = @ + n] ELSE kept
  /\ UNCHANGED <<convs, rows, pc, call, victims>>

\* The model ends its reply: done:true is yielded.
StreamDone(r) ==
  /\ Goto(r, "stream", "done")
  /\ UNCHANGED <<convs, rows, call, victims, reply>>

\* The model raises: the error chunk is yielded, then `finally`.
StreamFail(r) ==
  /\ Goto(r, "stream", "failed")
  /\ UNCHANGED <<convs, rows, call, victims, reply>>

\* The client goes away at any yield or await before `_persisted` is set.
Disconnect(r) ==
  /\ pc[r] \in {"stream", "done", "failed", "unsaved"}
  /\ pc' = [pc EXCEPT ![r] = "cut"]
  /\ UNCHANGED <<convs, rows, call, victims, reply>>

HasReply(r) == kept[r] > 0

\* Mutant: no foreign key to the conversation.
InsertReplyUnchecked(r) ==
  /\ Len(rows) < MaxRows
  /\ rows' = Append(rows, Row(at[r], "assistant", parent[r], r, "live", kept[r]))

\* record_assistant_message and its commit; the foreign key needs the
\* conversation, the parent row (soft-deleted or not) goes only with it.
InsertReply(r) ==
  /\ convs[at[r]] = "live"
  /\ Len(rows) < MaxRows
  /\ rows' = Append(rows, Row(at[r], "assistant", parent[r], r, "live", kept[r]))

\* The persist inside the try block, once done:true has shipped.
PersistReply(r) ==
  /\ HasReply(r)
  /\ Goto(r, "done", "saved")
  /\ InsertReply(r)
  /\ UNCHANGED <<convs, call, victims, reply>>

\* ... its commit lands but reports an error, so `_persisted` stays False.
PersistAckLost(r) ==
  /\ r \in AckMayFail
  /\ HasReply(r)
  /\ Goto(r, "done", "unsaved")
  /\ InsertReply(r)
  /\ UNCHANGED <<convs, call, victims, reply>>

\* ... or there is nothing to persist, or the insert fails and is suppressed.
PersistSkip(r) ==
  /\ Goto(r, "done", "unsaved")
  /\ UNCHANGED <<convs, rows, call, victims, reply>>

\* Mutant: `finally` does not look at `_persisted`.
FinallyPersistAlways(r) ==
  /\ pc[r] \in {"failed", "saved", "unsaved", "cut"}
  /\ HasReply(r)
  /\ InsertReply(r)
  /\ pc' = [pc EXCEPT ![r] = "end"]
  /\ UNCHANGED <<convs, call, victims, reply>>

\* The finally block of a stream whose reply is not known to be stored.
FinallyPersist(r) ==
  /\ pc[r] \in {"failed", "unsaved", "cut"}
  /\ HasReply(r)
  /\ InsertReply(r)
  /\ pc' = [pc EXCEPT ![r] = "end"]
  /\ UNCHANGED <<convs, call, victims, reply>>

\* ... its own insert fails, or the cancellation reaches the insert too.
FinallyLost(r) ==
  /\ pc[r] \in {"failed", "unsaved", "cut"}
  /\ HasReply(r)
  /\ pc' = [pc EXCEPT ![r] = "lost"]
  /\ UNCHANGED <<convs, rows, call, victims, reply>>

\* Mutant: `finally` persists nothing after an error.
FinallySkipOnError(r) ==
  /\ \/ pc[r] \in {"saved", "failed"}
     \/ pc[r] \in {"unsaved", "cut"} /\ ~HasReply(r)
  /\ pc' = [pc EXCEPT ![r] = "end"]
  /\ UNCHANGED <<convs, rows, call, victims, reply>>

\* Mutant: an empty reply is waited for.
FinallySkipSavedOnly(r) ==
  /\ Goto(r, "saved", "end")
  /\ UNCHANGED <<convs, rows, call, victims, reply>>

\* Stored already, or nothing to store.
FinallySkip(r) ==
  /\ \/ pc[r] = "saved"
     \/ pc[r] \in {"failed", "unsaved", "cut"} /\ ~HasReply(r)
  /\ pc' = [pc EXCEPT ![r] = "end"]
  /\ UNCHANGED <<convs, rows, call, victims, reply>>

(******************************** edit ************************************)
\* edit_user_message, the live-row and role checks on the target.
EditCheck(r, t) ==
  /\ "edit" \in Kinds[r]
  /\ rows[t].role = "user" /\ rows[t].state = "live"
  /\ Goto(r, "idle", "edit0")
  /\ at' = [at EXCEPT ![r] = rows[t].conv]
  /\ parent' = [parent EXCEPT ![r] = t]
  /\ UNCHANGED <<convs, rows, own, victims, reply>>

\* Mutant: soft_delete_messages_from, which takes the target too.
EditSelectFrom(r) ==
  /\ Goto(r, "edit0", "edit1")
  /\ victims' = [victims EXCEPT ![r] = {i \in LiveRows(rows, at[r]) : i >= parent[r]}]
  /\ UNCHANGED <<convs, rows, call, reply>>

\* soft_delete_messages_after, the SELECT: committed rows after the target.
EditSelect(r) ==
  /\ Goto(r, "edit0", "edit1")
  /\ victims' = [victims EXCEPT ![r] = {i \in LiveRows(rows, at[r]) : i > parent[r]}]
  /\ UNCHANGED <<convs, rows, call, reply>>

\* ... the UPDATEs (which wait for the row locks of another edit), then the
\* insert of the new variant and the touch of the conversation.
EditFlush(r) ==
  /\ Goto(r, "edit1", "edittx")
  /\ convs[at[r]] = "live"
  /\ victims[r] \cap LockedRows = {}
  /\ Len(rows) < MaxRows
  /\ rows' = Append(rows, Row(at[r], "user", parent[r], r, "pending", 1))
  /\ own' = [own EXCEPT ![r] = Len(rows) + 1]
  /\ UNCHANGED <<convs, at, parent, victims, reply>>

\* The commit at the end of the request: victims hidden, the variant shown.
CommitFork(r) ==
  [i \in DOMAIN rows |->
     IF i \in victims[r] THEN [rows[i] EXCEPT !.state = "deleted"]
     ELSE IF i = own[r] THEN [rows[i] EXCEPT !.state = "live"]
     ELSE rows[i]]

EditCommit(r) ==
  /\ Goto(r, "edittx", "end")
  /\ rows' = CommitFork(r)
  /\ UNCHANGED <<convs, call, victims, reply>>

\* Its conversation went away between the SELECT and the flush.
EditConflict(r) ==
  /\ convs[at[r]] = "gone"
  /\ Goto(r, "edit1", "aborted")
  /\ UNCHANGED <<convs, rows, call, victims, reply>>

\* Any other exception: rollback.
EditAbort(r) ==
  /\ pc[r] \in {"edit0", "edit1", "edittx"}
  /\ pc' = [pc EXCEPT ![r] = "aborted"]
  /\ rows' = IF pc[r] = "edittx" THEN SetState({own[r]}, "void") ELSE rows
  /\ UNCHANGED <<convs, call, victims, reply>>

(******************************* behaviour ********************************)
\* What the student's clients do, whenever they like.
Client ==
  \/ \E c \in Convs : CreateConversation(c) \/ DeleteConversation(c)
  \/ \E r \in Requests, c \in Convs : SendOpen(r, c)
  \/ \E r \in Requests, i \in DOMAIN rows : RegenOpen(r, i) \/ EditCheck(r, i)

\* What may go wrong with an accepted request.
Fault(r) == Disconnect(r) \/ SendAbort(r) \/ EditAbort(r)

\* What the server does for an accepted request.
Generate(r) ==
  \/ \E n \in TokenSizes : Token(r, n)
  \/ StreamDone(r) \/ StreamFail(r)
  \/ PersistReply(r) \/ PersistAckLost(r) \/ PersistSkip(r)
  \/ FinallyPersist(r) \/ FinallyLost(r) \/ FinallySkip(r)

Server(r) ==
  \/ SendCommit(r)
  \/ Generate(r)
  \/ EditSelect(r) \/ EditFlush(r) \/ EditConflict(r) \/ EditCommit(r)

Next == Client \/ \E r \in Requests : Server(r) \/ Fault(r)

Spec == Init /\ [][Next]_vars

\* The event loop keeps running an accepted request; a client owes nothing.
FairSpec == Spec /\ \A r \in Requests : WF_vars(Server(r))

(******************************* properties *******************************)
Stored(r) == {i \in DOMAIN rows : rows[i].role = "assistant" /\ rows[i].by = r}

\* A stored reply answers an earlier, committed user turn of its own
\* conversation, and is erased exactly when that turn is: whatever edits,
\* aborts and deletions ran while the model was talking, record_assistant_
\* message never attaches a reply to a turn that was rolled back.
RepliesAnswerATurn ==
  \A i \in DOMAIN rows : rows[i].role = "assistant" =>
    /\ rows[i].parent \in 1 .. i - 1
    /\ LET p == rows[rows[i].parent] IN
         /\ p.role = "user" /\ p.conv = rows[i].conv
         /\ p.state \in {"live", "deleted", "erased"}
         /\ p.state = "erased" <=> rows[i].state = "erased"

\* The `_persisted` guard: the persist inside the try block and the one in
\* `finally` store a reply once.  Only a commit that landed and still
\* reported an error gets a second copy, never a third.
OneReplyPerStream ==
  \A r \in Requests :
    Cardinality(Stored(r)) <= IF r \in AckMayFail THEN 2 ELSE 1

\* "The conversation isn't left asymmetric": a stream that ends without
\* having lost its last insert has stored what it kept, error, partial reply
\* and disconnect included, and what it kept is all it streamed unless the
\* buffer's cap was reached.
NoAsymmetricTurn ==
  \A r \in Requests :
    /\ pc[r] = "end" /\ kept[r] > 0 => Stored(r) # {}
    /\ \A i \in Stored(r) : \/ rows[i].size = sent[r]
                            \/ rows[i].size >= ScanCap /\ rows[i].size < sent[r]

Shown(c) == Transcript(rows, c, MessageLimit)

\* _canonical_messages, "the default transcript shows one user bubble per
\* turn": a variant that was edited again, or has a newer sibling, is not
\* shown, and every turn on the page keeps a bubble, whichever edits committed
\* in whichever order.
OneBubblePerTurn ==
  \A c \in Convs :
    LET live  == LiveUsers(rows, c)
        shown == Shown(c) \cap live
        page  == ListMessages(rows, c, MessageLimit) \cap live
        root  == ChainRoot(rows, c)
    IN /\ \A u \in shown, v \in live :
            /\ rows[v].parent # u
            /\ rows[v].parent = rows[u].parent /\ rows[u].parent \in live => v <= u
       /\ \A u \in page : \E v \in shown : root[v] = root[u]

\* A turn on show has the newest of its replies under it, and no other: a reply to
\* a superseded variant never appears, a regenerated one never floats below later
\* turns.  A reply on show without its turn (a loose one of _canonical_messages) is
\* one whose turn is older than the page, or one that was stored after an edit had
\* taken its turn from the transcript: whatever an edit could see it takes together.
RepliesUnderTheirTurn ==
  \A c \in Convs :
    LET shown == Shown(c)
        page  == ListMessages(rows, c, MessageLimit)
        replies(u) == {i \in shown : rows[i].role = "assistant" /\ rows[i].parent = u}
    IN /\ \A u \in shown \cap LiveUsers(rows, c) :
            replies(u) = IF Replies(rows, u) = {} THEN {}
                         ELSE {Largest(Replies(rows, u))}
       /\ \A i \in shown : rows[i].role = "assistant" /\ rows[i].parent \notin shown =>
            \/ rows[i].parent \in LiveRows(rows, c) \ page
            \/ \E e \in Requests : /\ pc[e] = "end" /\ rows[i].parent \in victims[e]
                                   /\ i \notin victims[e]

\* Every accepted request finishes: no stream hangs between its done event
\* and its finally block, and the edits that wait for the rows of another edit
\* go on when it commits or rolls back.
RequestsSettle ==
  \A r \in Requests : pc[r] # "idle" ~> pc[r] \in {"end", "lost", "aborted"}

(***************************************************************************)
(* The audit log behind the transcript: what was committed stays, hidden   *)
(* at most, until its conversation is deleted.                             *)
(***************************************************************************)
AuditState(i) ==
  IF i \notin DOMAIN rows THEN "absent"
  ELSE CASE rows[i].state \in {"pending", "void"} -> "absent"
         [] rows[i].state = "deleted" -> "hidden"
         [] OTHER -> rows[i].state

Audit == INSTANCE AuditLog WITH
  Ids  <- 1 .. MaxRows,
  Home <- Convs,
  state <- [i \in 1 .. MaxRows |-> AuditState(i)],
  entry <- [i \in 1 .. MaxRows |->
              IF AuditState(i) = "absent" THEN {}
              ELSE {[home |-> rows[i].conv, role |-> rows[i].role,
                     parent |-> rows[i].parent, size |-> rows[i].size]}]

\* The chat store implements the audit log (models/chat_message.py: a soft
\* delete "retains the full transcript + audit trail").
AuditSpec == Audit!Spec
=============================================================================
