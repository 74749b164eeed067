----------------------- MODULE ChatConversationProofs -----------------------
(***************************************************************************)
(* Theorems about ChatConversation for every number of requests,           *)
(* conversations and rows, every cap and every page size.                  *)
(***************************************************************************)
EXTENDS ChatInvariant, TLAPS

(***************************************************************************)
(* The two ways a step rewrites the table: it changes the state of some    *)
(* rows, or it appends one.                                                *)
(***************************************************************************)
LEMMA SetStateKeepsRows ==
  ASSUME NEW S, NEW st \in RowStates, rows \in Seq(RowType)
  PROVE  /\ SetState(S, st) \in Seq(RowType)
         /\ DOMAIN SetState(S, st) = DOMAIN rows
         /\ \A i \in DOMAIN rows :
              SetState(S, st)[i] = IF i \in S THEN [rows[i] EXCEPT !.state = st] ELSE rows[i]
<1> DEFINE e(i) == IF i \in S THEN [rows[i] EXCEPT !.state = st] ELSE rows[i]
<1>1. Len(rows) \in Nat /\ DOMAIN rows = 1 .. Len(rows)
  OBVIOUS
<1>2. ASSUME NEW i \in 1 .. Len(rows) PROVE e(i) \in RowType
  <2>1. rows[i] \in RowType
    BY <1>1
  <2>. QED
    BY <2>1 DEF RowType
<1>3. SetState(S, st) = [i \in 1 .. Len(rows) |-> e(i)]
  BY <1>1 DEF SetState
<1> HIDE DEF e
<1>4. [i \in 1 .. Len(rows) |-> e(i)] \in Seq(RowType)
  BY <1>1, <1>2
<1>. QED
  BY <1>1, <1>3, <1>4 DEF e

LEMMA CommitForkKeepsRows ==
  ASSUME NEW r, rows \in Seq(RowType)
  PROVE  /\ CommitFork(r) \in Seq(RowType)
         /\ DOMAIN CommitFork(r) = DOMAIN rows
         /\ \A i \in DOMAIN rows :
              CommitFork(r)[i] =
                IF i \in victims[r] THEN [rows[i] EXCEPT !.state = "deleted"]
                ELSE IF i = own[r] THEN [rows[i] EXCEPT !.state = "live"] ELSE rows[i]
<1> DEFINE e(i) == IF i \in victims[r] THEN [rows[i] EXCEPT !.state = "deleted"]
                   ELSE IF i = own[r] THEN [rows[i] EXCEPT !.state = "live"] ELSE rows[i]
<1>1. Len(rows) \in Nat /\ DOMAIN rows = 1 .. Len(rows)
  OBVIOUS
<1>2. ASSUME NEW i \in 1 .. Len(rows) PROVE e(i) \in RowType
  <2>1. rows[i] \in RowType
    BY <1>1
  <2>. QED
    BY <2>1 DEF RowType, RowStates
<1>3. CommitFork(r) = [i \in 1 .. Len(rows) |-> e(i)]
  BY <1>1 DEF CommitFork
<1> HIDE DEF e
<1>4. [i \in 1 .. Len(rows) |-> e(i)] \in Seq(RowType)
  BY <1>1, <1>2
<1>. QED
  BY <1>1, <1>3, <1>4 DEF e

LEMMA AppendKeepsRows ==
  ASSUME rows \in Seq(RowType), NEW x \in RowType
  PROVE  /\ Append(rows, x) \in Seq(RowType)
         /\ DOMAIN Append(rows, x) = 1 .. Len(rows) + 1
         /\ DOMAIN rows = 1 .. Len(rows) /\ Len(rows) \in Nat
         /\ Append(rows, x)[Len(rows) + 1] = x
         /\ \A i \in DOMAIN rows : Append(rows, x)[i] = rows[i]
  OBVIOUS

\* One name per disjunct of Next, the quantifiers taken out.
LEMMA NextCases ==
  ASSUME Next
  PROVE  \/ \E c \in Convs : CreateConversation(c)
         \/ \E c \in Convs : DeleteConversation(c)
         \/ \E r \in Requests, c \in Convs : SendOpen(r, c)
         \/ \E r \in Requests, i \in DOMAIN rows : RegenOpen(r, i)
         \/ \E r \in Requests, i \in DOMAIN rows : EditCheck(r, i)
         \/ \E r \in Requests : SendCommit(r)
         \/ \E r \in Requests : SendAbort(r)
         \/ \E r \in Requests, n \in TokenSizes : Token(r, n)
         \/ \E r \in Requests : StreamDone(r) \/ StreamFail(r) \/ Disconnect(r)
         \/ \E r \in Requests : PersistReply(r) \/ PersistAckLost(r) \/ FinallyPersist(r)
         \/ \E r \in Requests : PersistSkip(r) \/ FinallyLost(r) \/ FinallySkip(r)
         \/ \E r \in Requests : EditSelect(r)
         \/ \E r \in Requests : EditFlush(r)
         \/ \E r \in Requests : EditConflict(r)
         \/ \E r \in Requests : EditCommit(r)
         \/ \E r \in Requests : EditAbort(r)
  BY Zenon DEF Next, Client, Server, Fault, Generate

LEMMA RowTyped ==
  ASSUME NEW c \in Convs, NEW role \in {"user", "assistant"}, NEW par \in Nat,
         NEW r \in Requests, NEW st \in RowStates, NEW size \in Nat
  PROVE  Row(c, role, par, r, st, size) \in RowType
  BY DEF Row, RowType

THEOREM TypeStep == TypeOK /\ [Next]_vars => TypeOK'
<1>. SUFFICES ASSUME TypeOK, [Next]_vars PROVE TypeOK'
  OBVIOUS
<1>. USE SizesAssumption
<1>0. CASE UNCHANGED vars
  BY <1>0 DEF TypeOK, vars
<1>1. ASSUME NEW c \in Convs, CreateConversation(c) PROVE TypeOK'
  BY <1>1 DEF CreateConversation, TypeOK, ConvStates, call, reply
<1>2. ASSUME NEW c \in Convs, DeleteConversation(c) PROVE TypeOK'
  <2>1. rows' \in Seq(RowType)
    BY <1>2, SetStateKeepsRows DEF DeleteConversation, TypeOK, RowStates
  <2>. QED
    BY <1>2, <2>1 DEF DeleteConversation, TypeOK, ConvStates, call, reply
<1>3. ASSUME NEW r \in Requests, NEW c \in Convs, SendOpen(r, c) PROVE TypeOK'
  <2>1. Row(c, "user", NoRow, r, "pending", 1) \in RowType
    BY RowTyped DEF RowStates, NoRow
  <2>2. rows' \in Seq(RowType) /\ Len(rows) \in Nat
    BY <1>3, <2>1, AppendKeepsRows DEF SendOpen, TypeOK
  <2>. QED
    BY <1>3, <2>2 DEF SendOpen, Goto, TypeOK, ConvStates, PcStates, OpenTx, reply
<1>4. ASSUME NEW r \in Requests, NEW i \in DOMAIN rows, RegenOpen(r, i) PROVE TypeOK'
  <2>1. rows[i] \in RowType /\ DOMAIN rows \subseteq Nat
    BY DEF TypeOK
  <2>2. RegenerateParent(i) \subseteq Nat /\ rows[i].conv \in Convs
    BY <2>1 DEF RegenerateParent, RowsUpTo, LiveRows, RowType
  <2>. QED
    BY <1>4, <2>2 DEF RegenOpen, Goto, TypeOK, PcStates, Streaming, reply
<1>5. ASSUME NEW r \in Requests, NEW i \in DOMAIN rows, EditCheck(r, i) PROVE TypeOK'
  <2>1. rows[i] \in RowType /\ i \in Nat
    BY DEF TypeOK
  <2>. QED
    BY <1>5, <2>1 DEF EditCheck, Goto, TypeOK, PcStates, RowType, reply
<1>6. ASSUME NEW r \in Requests, SendCommit(r) PROVE TypeOK'
  <2>1. rows' \in Seq(RowType)
    BY <1>6, SetStateKeepsRows DEF SendCommit, TypeOK, RowStates
  <2>. QED
    BY <1>6, <2>1 DEF SendCommit, Goto, TypeOK, ConvStates, PcStates, Streaming, call, reply
<1>7. ASSUME NEW r \in Requests, SendAbort(r) PROVE TypeOK'
  <2>1. rows' \in Seq(RowType)
    BY <1>7, SetStateKeepsRows DEF SendAbort, TypeOK, RowStates
  <2>. QED
    BY <1>7, <2>1 DEF SendAbort, Goto, TypeOK, ConvStates, PcStates, call, reply
<1>8. ASSUME NEW r \in Requests, NEW n \in TokenSizes, Token(r, n) PROVE TypeOK'
  BY <1>8 DEF Token, TypeOK, call
<1>9. ASSUME NEW r \in Requests, StreamDone(r) \/ StreamFail(r) \/ Disconnect(r)
      PROVE TypeOK'
  BY <1>9 DEF StreamDone, StreamFail, Disconnect, Goto, TypeOK, PcStates, Streaming, call, reply
<1>10. ASSUME NEW r \in Requests, PersistReply(r) \/ PersistAckLost(r) \/ FinallyPersist(r)
       PROVE TypeOK'
  <2>1. InsertReply(r)
    BY <1>10 DEF PersistReply, PersistAckLost, FinallyPersist
  <2>2. Row(at[r], "assistant", parent[r], r, "live", kept[r]) \in RowType
    BY RowTyped DEF TypeOK, RowStates
  <2>3. rows' \in Seq(RowType)
    BY <2>1, <2>2, AppendKeepsRows DEF InsertReply, TypeOK
  <2>4. pc' \in [Requests -> PcStates]
    BY <1>10 DEF PersistReply, PersistAckLost, FinallyPersist, Goto, TypeOK, PcStates, Streaming
  <2>. QED
    BY <1>10, <2>3, <2>4 DEF PersistReply, PersistAckLost, FinallyPersist, TypeOK, call, reply
<1>11. ASSUME NEW r \in Requests, PersistSkip(r) \/ FinallyLost(r) \/ FinallySkip(r)
       PROVE TypeOK'
  BY <1>11 DEF PersistSkip, FinallyLost, FinallySkip, Goto, TypeOK, PcStates, Streaming, call, reply
<1>12. ASSUME NEW r \in Requests, EditSelect(r) PROVE TypeOK'
  <2>1. {i \in LiveRows(rows, at[r]) : i > parent[r]} \subseteq Nat
    BY DEF LiveRows, TypeOK
  <2>. QED
    BY <1>12, <2>1 DEF EditSelect, Goto, TypeOK, PcStates, call, reply
<1>13. ASSUME NEW r \in Requests, EditFlush(r) PROVE TypeOK'
  <2>1. Row(at[r], "user", parent[r], r, "pending", 1) \in RowType
    BY RowTyped DEF TypeOK, RowStates
  <2>2. rows' \in Seq(RowType) /\ Len(rows) \in Nat
    BY <1>13, <2>1, AppendKeepsRows DEF EditFlush, TypeOK
  <2>. QED
    BY <1>13, <2>2 DEF EditFlush, Goto, TypeOK, PcStates, OpenTx, reply
<1>14. ASSUME NEW r \in Requests, EditConflict(r) PROVE TypeOK'
  BY <1>14 DEF EditConflict, Goto, TypeOK, PcStates, call, reply
<1>15. ASSUME NEW r \in Requests, EditCommit(r) PROVE TypeOK'
  <2>1. rows' \in Seq(RowType)
    BY <1>15, CommitForkKeepsRows DEF EditCommit, TypeOK
  <2>. QED
    BY <1>15, <2>1 DEF EditCommit, Goto, TypeOK, PcStates, call, reply
<1>16. ASSUME NEW r \in Requests, EditAbort(r) PROVE TypeOK'
  <2>1. rows' \in Seq(RowType)
    BY <1>16, SetStateKeepsRows DEF EditAbort, TypeOK, RowStates
  <2>. QED
    BY <1>16, <2>1 DEF EditAbort, TypeOK, PcStates, call, reply
<1>17. CASE Next
  BY <1>17, <1>1, <1>2, <1>3, <1>4, <1>5, <1>6, <1>7, <1>8, <1>9, <1>10, <1>11,
     <1>12, <1>13, <1>14, <1>15, <1>16, NextCases, Zenon
<1>. QED
  BY <1>0, <1>17

(***************************************************************************)
(* What every step leaves of the rows: they stay, keep what they say and,  *)
(* once committed, stay committed.                                         *)
(***************************************************************************)
RowsGrow ==
  /\ DOMAIN rows \subseteq DOMAIN rows'
  /\ \A i \in DOMAIN rows :
       /\ rows'[i].conv = rows[i].conv /\ rows'[i].role = rows[i].role
       /\ rows'[i].parent = rows[i].parent /\ rows'[i].by = rows[i].by
       /\ rows'[i].size = rows[i].size
       /\ rows[i].state \in Committed => rows'[i].state \in Committed

\* A step that appends a row (a send, an edit's flush, a reply).
LEMMA AppendGrows ==
  ASSUME TypeOK, NEW x \in RowType, rows' = Append(rows, x)
  PROVE  /\ RowsGrow
         /\ DOMAIN rows' = DOMAIN rows \cup {Len(rows) + 1}
         /\ DOMAIN rows = 1 .. Len(rows) /\ Len(rows) \in Nat
         /\ rows'[Len(rows) + 1] = x
         /\ \A i \in DOMAIN rows : rows'[i] = rows[i] /\ i # Len(rows) + 1
  BY AppendKeepsRows DEF TypeOK, RowsGrow

\* A step that sets the state of rows, and of no committed row to an
\* uncommitted one.
LEMMA SetStateGrows ==
  ASSUME TypeOK, NEW S, NEW st \in RowStates, rows' = SetState(S, st),
         st \in Committed \/ \A i \in S \cap DOMAIN rows : rows[i].state \notin Committed
  PROVE  /\ RowsGrow
         /\ DOMAIN rows' = DOMAIN rows
         /\ \A i \in DOMAIN rows :
              rows'[i] = IF i \in S THEN [rows[i] EXCEPT !.state = st] ELSE rows[i]
         /\ \A i \in DOMAIN rows : rows'[i].state = IF i \in S THEN st ELSE rows[i].state
<1>1. \A i \in DOMAIN rows : rows[i] \in RowType
  BY DEF TypeOK
<1>2. /\ DOMAIN rows' = DOMAIN rows
      /\ \A i \in DOMAIN rows :
           rows'[i] = IF i \in S THEN [rows[i] EXCEPT !.state = st] ELSE rows[i]
  <2>1. rows \in Seq(RowType)
    BY DEF TypeOK
  <2>2. /\ DOMAIN SetState(S, st) = DOMAIN rows
        /\ \A i \in DOMAIN rows :
             SetState(S, st)[i] = IF i \in S THEN [rows[i] EXCEPT !.state = st] ELSE rows[i]
    BY <2>1, SetStateKeepsRows
  <2>. QED
    BY <2>2, Zenon
<1>. QED
  BY <1>1, <1>2 DEF RowsGrow, RowType

LEMMA CommitForkGrows ==
  ASSUME TypeOK, NEW r, rows' = CommitFork(r)
  PROVE  /\ RowsGrow
         /\ DOMAIN rows' = DOMAIN rows
         /\ \A i \in DOMAIN rows :
              rows'[i].state = IF i \in victims[r] THEN "deleted"
                               ELSE IF i = own[r] THEN "live" ELSE rows[i].state
<1>1. \A i \in DOMAIN rows : rows[i] \in RowType
  BY DEF TypeOK
<1>2. /\ DOMAIN rows' = DOMAIN rows
      /\ \A i \in DOMAIN rows :
           rows'[i] = IF i \in victims[r] THEN [rows[i] EXCEPT !.state = "deleted"]
                      ELSE IF i = own[r] THEN [rows[i] EXCEPT !.state = "live"] ELSE rows[i]
  BY CommitForkKeepsRows DEF TypeOK
<1>. QED
  BY <1>1, <1>2 DEF RowsGrow, RowType, Committed

\* Turns stay turns.
LEMMA UserTurnsStay ==
  ASSUME RowsGrow, NEW i, NEW c, UserTurn(i, c)
  PROVE  UserTurn(i, c)'
  BY DEF RowsGrow, UserTurn

\* A reply keeps its turn.
LEMMA RepliesStay ==
  ASSUME RowsGrow, NEW i \in DOMAIN rows, ReplyHasTurn(i)
  PROVE  ReplyHasTurn(i)'
  BY DEF ReplyHasTurn, UserTurn, RowsGrow

\* A step of request r leaves the others' transactions, turns and victims
\* alone unless it rolls their rows or their conversation away.
OthersStay(r) ==
  \A q \in Requests \ {r} :
    /\ pc'[q] = pc[q] /\ at'[q] = at[q] /\ parent'[q] = parent[q]
    /\ own'[q] = own[q] /\ victims'[q] = victims[q]
    /\ pc[q] \in OpenTx => /\ rows'[own[q]].state = rows[own[q]].state
                           /\ convs'[at[q]] \in {convs[at[q]], "live"}

LEMMA OthersKeepInvariant ==
  ASSUME RowInv, RowsGrow, NEW r \in Requests, OthersStay(r), NEW q \in Requests \ {r}
  PROVE  OwnsARow(q)' /\ CallHasTurn(q)' /\ VictimsDownstream(q)'
<1>1. OwnsARow(q) /\ CallHasTurn(q) /\ VictimsDownstream(q)
  BY DEF RowInv
<1>2. OwnsARow(q)'
  BY <1>1 DEF OthersStay, OwnsARow, RowsGrow
<1>3. CallHasTurn(q)'
  BY <1>1 DEF OthersStay, CallHasTurn, UserTurn, RowsGrow
<1>4. VictimsDownstream(q)'
  BY <1>1 DEF OthersStay, VictimsDownstream, RowsGrow
<1>. QED
  BY <1>2, <1>3, <1>4

LEMMA RequestStep ==
  ASSUME RowInv, TypeOK', RowsGrow, NEW r \in Requests, OthersStay(r),
         OwnsARow(r)', CallHasTurn(r)', VictimsDownstream(r)',
         RowsFollowConversation', NewConversationHasOneCreator',
         \A i \in DOMAIN rows' : i \notin DOMAIN rows => ReplyHasTurn(i)'
  PROVE  RowInv'
<1>1. ASSUME NEW q \in Requests
      PROVE  OwnsARow(q)' /\ CallHasTurn(q)' /\ VictimsDownstream(q)'
  <2>1. CASE q = r
    BY <2>1
  <2>2. CASE q \in Requests \ {r}
    BY <2>2, OthersKeepInvariant
  <2>. QED
    BY <2>1, <2>2
<1>2. ASSUME NEW i \in DOMAIN rows' PROVE ReplyHasTurn(i)'
  <2>1. CASE i \in DOMAIN rows
    BY <2>1, RepliesStay DEF RowInv
  <2>2. CASE i \notin DOMAIN rows
    BY <2>2
  <2>. QED
    BY <2>1, <2>2
<1>. QED
  BY <1>1, <1>2 DEF RowInv

\* A step that writes nothing to the database and opens no transaction.
Quiet(r) ==
  /\ UNCHANGED <<convs, rows, own>>
  /\ pc[r] \notin OpenTx /\ pc'[r] \notin OpenTx
  /\ \A q \in Requests \ {r} : /\ pc'[q] = pc[q] /\ at'[q] = at[q]
                               /\ parent'[q] = parent[q] /\ victims'[q] = victims[q]

LEMMA QuietStep ==
  ASSUME RowInv, TypeOK', NEW r \in Requests, Quiet(r),
         CallHasTurn(r)', VictimsDownstream(r)'
  PROVE  RowInv'
<1>1. RowsGrow
  BY DEF Quiet, RowsGrow
<1>2. OthersStay(r)
  BY DEF Quiet, OthersStay
<1>3. OwnsARow(r)'
  BY DEF Quiet, OwnsARow
<1>4. RowsFollowConversation'
  BY DEF Quiet, RowInv, RowsFollowConversation
<1>5. NewConversationHasOneCreator'
  BY DEF Quiet, RowInv, NewConversationHasOneCreator
<1>6. \A i \in DOMAIN rows' : i \notin DOMAIN rows => ReplyHasTurn(i)'
  BY DEF Quiet
<1>. QED
  BY <1>1, <1>2, <1>3, <1>4, <1>5, <1>6, RequestStep

\* The steps of a stream before it writes its reply.
LEMMA StreamQuiet ==
  ASSUME RowInv, TypeOK', NEW r \in Requests,
         StreamDone(r) \/ StreamFail(r) \/ Disconnect(r)
           \/ PersistSkip(r) \/ FinallyLost(r) \/ FinallySkip(r)
  PROVE  RowInv'
<1>1. /\ UNCHANGED <<convs, rows, at, parent, own, victims>>
      /\ pc[r] \in Streaming /\ pc' = [pc EXCEPT ![r] = pc'[r]]
      /\ pc'[r] \in Streaming \cup {"end", "lost"}
  BY DEF StreamDone, StreamFail, Disconnect, PersistSkip, FinallyLost, FinallySkip,
         Goto, call, Streaming, RowInv, TypeOK
<1>2. Quiet(r)
  BY <1>1 DEF Quiet, RowInv, TypeOK, OpenTx, Streaming
<1>3. CallHasTurn(r)'
  BY <1>1 DEF RowInv, CallHasTurn, UserTurn, Streaming
<1>4. VictimsDownstream(r)'
  BY <1>1 DEF VictimsDownstream, Streaming
<1>. QED
  BY <1>2, <1>3, <1>4, QuietStep

LEMMA TokenQuiet ==
  ASSUME RowInv, TypeOK', NEW r \in Requests, NEW n \in TokenSizes, Token(r, n)
  PROVE  RowInv'
<1>1. UNCHANGED <<convs, rows, pc, at, parent, own, victims>> /\ pc[r] = "stream"
  BY DEF Token, call
<1>2. Quiet(r)
  BY <1>1 DEF Quiet, OpenTx
<1>3. CallHasTurn(r)' /\ VictimsDownstream(r)'
  BY <1>1 DEF RowInv, CallHasTurn, VictimsDownstream, UserTurn
<1>. QED
  BY <1>2, <1>3, QuietStep

LEMMA RegenOpenQuiet ==
  ASSUME RowInv, TypeOK', NEW r \in Requests, NEW a \in DOMAIN rows, RegenOpen(r, a)
  PROVE  RowInv'
<1>1. PICK p \in RegenerateParent(a) : parent' = [parent EXCEPT ![r] = p]
  BY DEF RegenOpen
<1>2. /\ UNCHANGED <<convs, rows, own, victims>>
      /\ pc[r] = "idle" /\ pc' = [pc EXCEPT ![r] = "stream"]
      /\ at' = [at EXCEPT ![r] = rows[a].conv]
  BY DEF RegenOpen, Goto
<1>3. UserTurn(p, rows[a].conv)
  BY <1>1 DEF RegenerateParent, RowsUpTo, LiveRows, UserTurn, Committed
<1>4. pc'[r] = "stream" /\ at'[r] = rows[a].conv /\ parent'[r] = p
  BY <1>1, <1>2 DEF RowInv, TypeOK
<1>5. Quiet(r)
  BY <1>1, <1>2, <1>4 DEF Quiet, OpenTx
<1>6. CallHasTurn(r)' /\ VictimsDownstream(r)'
  BY <1>2, <1>3, <1>4 DEF CallHasTurn, VictimsDownstream, UserTurn
<1>. QED
  BY <1>5, <1>6, QuietStep

LEMMA EditReadsQuiet ==
  ASSUME RowInv, TypeOK', NEW r \in Requests,
         \/ \E t \in DOMAIN rows : EditCheck(r, t)
         \/ EditSelect(r) \/ EditConflict(r)
  PROVE  RowInv'
<1>1. ASSUME NEW t \in DOMAIN rows, EditCheck(r, t) PROVE RowInv'
  <2>1. /\ UNCHANGED <<convs, rows, own, victims>>
        /\ pc[r] = "idle" /\ pc' = [pc EXCEPT ![r] = "edit0"]
        /\ at' = [at EXCEPT ![r] = rows[t].conv] /\ parent' = [parent EXCEPT ![r] = t]
    BY <1>1 DEF EditCheck, Goto
  <2>2. pc'[r] = "edit0" /\ at'[r] = rows[t].conv /\ parent'[r] = t
    BY <2>1 DEF RowInv, TypeOK
  <2>3. Quiet(r)
    BY <2>1, <2>2 DEF Quiet, OpenTx
  <2>4. CallHasTurn(r)' /\ VictimsDownstream(r)'
    BY <1>1, <2>1, <2>2 DEF EditCheck, CallHasTurn, VictimsDownstream, UserTurn, Committed
  <2>. QED
    BY <2>3, <2>4, QuietStep
<1>2. ASSUME EditSelect(r) PROVE RowInv'
  <2>1. /\ UNCHANGED <<convs, rows, own, at, parent>>
        /\ pc[r] = "edit0" /\ pc' = [pc EXCEPT ![r] = "edit1"]
        /\ victims' = [victims EXCEPT ![r] = {i \in LiveRows(rows, at[r]) : i > parent[r]}]
    BY <1>2 DEF EditSelect, Goto, call
  <2>2. pc'[r] = "edit1" /\ victims'[r] = {i \in LiveRows(rows, at[r]) : i > parent[r]}
    BY <2>1 DEF RowInv, TypeOK
  <2>3. Quiet(r)
    BY <2>1, <2>2 DEF Quiet, OpenTx
  <2>4. CallHasTurn(r)'
    BY <2>1, <2>2 DEF RowInv, CallHasTurn, UserTurn
  <2>5. VictimsDownstream(r)'
    BY <2>1, <2>2 DEF VictimsDownstream, LiveRows, Committed
  <2>. QED
    BY <2>3, <2>4, <2>5, QuietStep
<1>3. ASSUME EditConflict(r) PROVE RowInv'
  <2>1. /\ UNCHANGED <<convs, rows, own, at, parent, victims>>
        /\ pc[r] = "edit1" /\ pc' = [pc EXCEPT ![r] = "aborted"]
    BY <1>3 DEF EditConflict, Goto, call
  <2>2. pc'[r] = "aborted"
    BY <2>1 DEF RowInv, TypeOK
  <2>3. Quiet(r)
    BY <2>1, <2>2 DEF Quiet, OpenTx
  <2>4. CallHasTurn(r)' /\ VictimsDownstream(r)'
    BY <2>2 DEF CallHasTurn, VictimsDownstream, Streaming
  <2>. QED
    BY <2>3, <2>4, QuietStep
<1>. QED
  BY <1>1, <1>2, <1>3

LEMMA CreateConversationStep ==
  ASSUME RowInv, TypeOK', NEW c \in Convs, CreateConversation(c)
  PROVE  RowInv'
<1>1. /\ UNCHANGED <<rows, pc, at, parent, own, victims>>
      /\ convs[c] = "free" /\ convs' = [convs EXCEPT ![c] = "live"]
  BY DEF CreateConversation, call
<1>2. convs'[c] = "live" /\ \A d \in Convs \ {c} : convs'[d] = convs[d]
  BY <1>1 DEF RowInv, TypeOK
<1>3. ASSUME NEW r \in Requests PROVE OwnsARow(r)' /\ CallHasTurn(r)' /\ VictimsDownstream(r)'
  <2>1. at[r] \in Convs
    BY DEF RowInv, TypeOK
  <2>2. OwnsARow(r)'
    BY <1>1, <1>2, <2>1 DEF RowInv, OwnsARow
  <2>3. CallHasTurn(r)' /\ VictimsDownstream(r)'
    BY <1>1 DEF RowInv, CallHasTurn, VictimsDownstream, UserTurn
  <2>. QED
    BY <2>2, <2>3
<1>4. RowsFollowConversation'
  <2>1. \A i \in DOMAIN rows : rows[i] \in RowType
    BY DEF RowInv, TypeOK
  <2>. QED
    BY <1>1, <1>2, <2>1 DEF RowInv, RowsFollowConversation, RowType
<1>5. NewConversationHasOneCreator'
  <2>1. \A r \in Requests : at[r] \in Convs
    BY DEF RowInv, TypeOK
  <2>. QED
    BY <1>1, <1>2, <2>1 DEF RowInv, NewConversationHasOneCreator
<1>6. \A i \in DOMAIN rows' : ReplyHasTurn(i)'
  BY <1>1 DEF RowInv, ReplyHasTurn, UserTurn
<1>. QED
  BY <1>3, <1>4, <1>5, <1>6 DEF RowInv

LEMMA DeleteConversationStep ==
  ASSUME RowInv, TypeOK', NEW c \in Convs, DeleteConversation(c)
  PROVE  RowInv'
<1> DEFINE S == {i \in DOMAIN rows : rows[i].conv = c /\ rows[i].state \in {"live", "deleted"}}
<1>1. /\ UNCHANGED <<pc, at, parent, own, victims>>
      /\ convs[c] = "live" /\ convs' = [convs EXCEPT ![c] = "gone"]
      /\ \A r \in Requests : pc[r] \in OpenTx => at[r] # c
      /\ rows' = SetState(S, "erased")
  BY DEF DeleteConversation, call
<1>2. convs'[c] = "gone" /\ \A d \in Convs \ {c} : convs'[d] = convs[d]
  BY <1>1 DEF RowInv, TypeOK
<1>3. "erased" \in RowStates /\ "erased" \in Committed /\ TypeOK
  BY DEF RowStates, Committed, RowInv
<1> HIDE DEF S
<1>4. /\ RowsGrow
      /\ DOMAIN rows' = DOMAIN rows
      /\ \A i \in DOMAIN rows :
           rows'[i].state = IF i \in S THEN "erased" ELSE rows[i].state
  BY <1>1, <1>3, SetStateGrows
<1>5. ASSUME NEW r \in Requests PROVE OwnsARow(r)' /\ CallHasTurn(r)' /\ VictimsDownstream(r)'
  <2>1. at[r] \in Convs
    BY DEF RowInv, TypeOK
  <2>2. OwnsARow(r)'
    BY <1>1, <1>2, <1>4, <2>1 DEF RowInv, OwnsARow, RowsGrow, S
  <2>3. CallHasTurn(r)' /\ VictimsDownstream(r)'
    BY <1>1, <1>4 DEF RowInv, CallHasTurn, VictimsDownstream, UserTurn, RowsGrow
  <2>. QED
    BY <2>2, <2>3
<1>6. RowsFollowConversation'
  <2>1. \A i \in DOMAIN rows : rows[i] \in RowType
    BY DEF RowInv, TypeOK
  <2>. QED
    BY <1>1, <1>2, <1>4, <2>1 DEF RowInv, RowsFollowConversation, RowType, RowsGrow, S
<1>7. NewConversationHasOneCreator'
  <2>1. \A r \in Requests : at[r] \in Convs
    BY DEF RowInv, TypeOK
  <2>. QED
    BY <1>1, <1>2, <2>1 DEF RowInv, NewConversationHasOneCreator
<1>8. \A i \in DOMAIN rows' : ReplyHasTurn(i)'
  BY <1>4, RepliesStay DEF RowInv
<1>. QED
  BY <1>5, <1>6, <1>7, <1>8 DEF RowInv

LEMMA SendOpenStep ==
  ASSUME RowInv, TypeOK', NEW r \in Requests, NEW c \in Convs, SendOpen(r, c)
  PROVE  RowInv'
<1> DEFINE new == Row(c, "user", NoRow, r, "pending", 1)
           n   == Len(rows) + 1
<1>1. /\ convs[c] \in {"free", "live"} /\ pc[r] = "idle"
      /\ convs' = IF convs[c] = "free" THEN [convs EXCEPT ![c] = "new"] ELSE convs
      /\ rows' = Append(rows, new)
      /\ UNCHANGED victims
  BY DEF SendOpen, Goto
<1>2. /\ pc'[r] = "sendtx" /\ at'[r] = c /\ own'[r] = n /\ parent'[r] = n
      /\ \A q \in Requests \ {r} : /\ pc'[q] = pc[q] /\ at'[q] = at[q]
                                   /\ own'[q] = own[q] /\ parent'[q] = parent[q]
  BY DEF SendOpen, Goto, RowInv, TypeOK
<1>3. convs'[c] \in {"new", "live"} /\ \A d \in Convs \ {c} : convs'[d] = convs[d]
  BY <1>1 DEF RowInv, TypeOK
<1>4. new \in RowType /\ TypeOK
  BY RowTyped DEF RowStates, NoRow, RowInv
<1>5. new.conv = c /\ new.role = "user" /\ new.parent = NoRow /\ new.by = r
      /\ new.state = "pending"
  BY DEF Row
<1> HIDE DEF new
<1>6. /\ RowsGrow
      /\ DOMAIN rows' = DOMAIN rows \cup {n}
      /\ rows'[n] = new
      /\ \A i \in DOMAIN rows : rows'[i] = rows[i] /\ i # n
  BY <1>1, <1>4, AppendGrows
<1> HIDE DEF n
<1>7. ASSUME NEW q \in Requests, pc[q] \in OpenTx
      PROVE  /\ own[q] \in DOMAIN rows /\ at[q] \in Convs
             /\ convs'[at[q]] = convs[at[q]]
             /\ at[q] = c => convs'[c] = "live"
  BY <1>1, <1>3, <1>7 DEF RowInv, OwnsARow, TypeOK
<1>8. OthersStay(r)
  BY <1>1, <1>2, <1>6, <1>7 DEF OthersStay
<1>9. OwnsARow(r)' /\ CallHasTurn(r)' /\ VictimsDownstream(r)'
  BY <1>2, <1>3, <1>5, <1>6
     DEF OwnsARow, CallHasTurn, VictimsDownstream, OpenTx, Streaming
<1>10. RowsFollowConversation'
  <2>1. \A i \in DOMAIN rows : rows[i] \in RowType
    BY <1>4 DEF TypeOK
  <2>. QED
    BY <1>1, <1>3, <1>5, <1>6, <2>1 DEF RowInv, RowsFollowConversation, RowType
<1>11. NewConversationHasOneCreator'
  <2> SUFFICES ASSUME NEW p \in Requests, NEW q \in Requests, pc'[p] \in OpenTx, pc'[q] \in OpenTx,
                      at'[p] = at'[q], convs'[at'[p]] = "new"
               PROVE  p = q
    BY DEF NewConversationHasOneCreator
  <2>1. CASE p # r /\ q # r
    BY <2>1, <1>2, <1>7 DEF RowInv, NewConversationHasOneCreator
  <2>2. CASE p = r /\ q # r
    BY <2>2, <1>2, <1>7
  <2>3. CASE p # r /\ q = r
    BY <2>3, <1>2, <1>7
  <2>. QED
    BY <2>1, <2>2, <2>3
<1>12. \A i \in DOMAIN rows' : i \notin DOMAIN rows => ReplyHasTurn(i)'
  BY <1>5, <1>6 DEF ReplyHasTurn
<1>. QED
  BY <1>6, <1>8, <1>9, <1>10, <1>11, <1>12, RequestStep

LEMMA RowsInConvs ==
  ASSUME TypeOK
  PROVE  \A i \in DOMAIN rows : rows[i].conv \in Convs
<1>1. \A i \in DOMAIN rows : rows[i] \in RowType
  BY DEF TypeOK
<1>. QED
  BY <1>1 DEF RowType

\* Two open transactions own different rows.
LEMMA OwnRowsDiffer ==
  ASSUME RowInv, NEW q \in Requests, NEW r \in Requests, q # r,
         pc[q] \in OpenTx, pc[r] \in OpenTx
  PROVE  own[q] # own[r]
  BY DEF RowInv, OwnsARow

\* A send that ends: its row and its new conversation are kept or dropped.
LEMMA SendCommitStep ==
  ASSUME RowInv, TypeOK', NEW r \in Requests, SendCommit(r)
  PROVE  RowInv'
<1>1. /\ UNCHANGED <<at, parent, own, victims>>
      /\ pc[r] = "sendtx" /\ pc' = [pc EXCEPT ![r] = "stream"]
      /\ convs' = [convs EXCEPT ![at[r]] = "live"]
      /\ rows' = SetState({own[r]}, "live")
  BY DEF SendCommit, Goto, call
<1>2. /\ pc'[r] = "stream" /\ at[r] \in Convs /\ convs'[at[r]] = "live"
      /\ \A q \in Requests \ {r} : pc'[q] = pc[q]
      /\ \A d \in Convs \ {at[r]} : convs'[d] = convs[d]
  BY <1>1 DEF RowInv, TypeOK
<1>3. "live" \in RowStates /\ "live" \in Committed /\ TypeOK
  BY DEF RowStates, Committed, RowInv
<1>4. /\ RowsGrow /\ DOMAIN rows' = DOMAIN rows
      /\ \A i \in DOMAIN rows : rows'[i].state = IF i \in {own[r]} THEN "live" ELSE rows[i].state
  <2> DEFINE S == {own[r]}
  <2>1. rows' = SetState(S, "live")
    BY <1>1
  <2> HIDE DEF S
  <2>2. /\ RowsGrow /\ DOMAIN rows' = DOMAIN rows
        /\ \A i \in DOMAIN rows : rows'[i].state = IF i \in S THEN "live" ELSE rows[i].state
    BY <2>1, <1>3, SetStateGrows
  <2>. QED
    BY <2>2 DEF S
<1>5. OwnsARow(r) /\ pc[r] \in OpenTx
  BY <1>1 DEF RowInv, OpenTx
<1>6. OthersStay(r)
  <2> SUFFICES ASSUME NEW q \in Requests \ {r}, pc[q] \in OpenTx
               PROVE  /\ rows'[own[q]].state = rows[own[q]].state
                      /\ convs'[at[q]] \in {convs[at[q]], "live"}
    BY <1>1, <1>2 DEF OthersStay
  <2>1. own[q] # own[r] /\ own[q] \in DOMAIN rows /\ at[q] \in Convs
    BY SMTT(30), <1>5, OwnRowsDiffer DEF RowInv, OwnsARow, TypeOK
  <2>. QED
    BY <2>1, <1>2, <1>4
<1>7. OwnsARow(r)' /\ CallHasTurn(r)' /\ VictimsDownstream(r)'
  <2>1. OwnsARow(r)' /\ VictimsDownstream(r)'
    BY <1>2 DEF OwnsARow, VictimsDownstream, OpenTx
  <2>2. /\ own[r] \in DOMAIN rows /\ parent[r] = own[r]
        /\ rows[own[r]].role = "user" /\ rows[own[r]].conv = at[r]
        /\ parent'[r] = own[r] /\ at'[r] = at[r]
    BY <1>1, <1>5 DEF OwnsARow
  <2>4. /\ own[r] \in DOMAIN rows' /\ rows'[own[r]].state \in Committed
        /\ rows'[own[r]].role = "user" /\ rows'[own[r]].conv = at[r]
    BY <1>4, <2>2 DEF RowsGrow, Committed
  <2>3. UserTurn(parent[r], at[r])'
    BY <2>2, <2>4 DEF UserTurn
  <2>5. CallHasTurn(r)'
    BY <2>3 DEF CallHasTurn
  <2>. QED
    BY <2>1, <2>5
<1>8. RowsFollowConversation'
  <2>1. \A i \in DOMAIN rows : rows[i].conv \in Convs
    BY <1>3, RowsInConvs
  <2>. QED
    BY <1>2, <1>4, <1>5, <2>1 DEF RowInv, RowsFollowConversation, RowsGrow, OwnsARow
<1>9. NewConversationHasOneCreator'
  <2>1. \A q \in Requests : at[q] \in Convs
    BY <1>3 DEF TypeOK
  <2>2. pc'[r] \notin OpenTx
    BY <1>2 DEF OpenTx
  <2>. QED
    BY <1>1, <1>2, <2>1, <2>2 DEF RowInv, NewConversationHasOneCreator
<1>. QED
  BY <1>4, <1>6, <1>7, <1>8, <1>9, RequestStep

LEMMA SendAbortStep ==
  ASSUME RowInv, TypeOK', NEW r \in Requests, SendAbort(r)
  PROVE  RowInv'
<1>1. /\ UNCHANGED <<at, parent, own, victims>>
      /\ pc[r] = "sendtx" /\ pc' = [pc EXCEPT ![r] = "aborted"]
      /\ convs' = IF convs[at[r]] = "new" THEN [convs EXCEPT ![at[r]] = "gone"] ELSE convs
      /\ rows' = SetState({own[r]}, "void")
  BY DEF SendAbort, Goto, call
<1>2. /\ pc'[r] = "aborted" /\ at[r] \in Convs
      /\ convs'[at[r]] = IF convs[at[r]] = "new" THEN "gone" ELSE convs[at[r]]
      /\ \A q \in Requests \ {r} : pc'[q] = pc[q]
      /\ \A d \in Convs \ {at[r]} : convs'[d] = convs[d]
  BY <1>1 DEF RowInv, TypeOK
<1>3. OwnsARow(r) /\ pc[r] \in OpenTx /\ TypeOK /\ "void" \in RowStates
  BY <1>1 DEF RowInv, OpenTx, RowStates
<1>4. /\ RowsGrow /\ DOMAIN rows' = DOMAIN rows
      /\ \A i \in DOMAIN rows : rows'[i].state = IF i \in {own[r]} THEN "void" ELSE rows[i].state
  <2> DEFINE S == {own[r]}
  <2>1. rows' = SetState(S, "void") /\ \A i \in S \cap DOMAIN rows : rows[i].state \notin Committed
    BY <1>1, <1>3 DEF OwnsARow, Committed
  <2> HIDE DEF S
  <2>2. /\ RowsGrow /\ DOMAIN rows' = DOMAIN rows
        /\ \A i \in DOMAIN rows : rows'[i].state = IF i \in S THEN "void" ELSE rows[i].state
    BY <2>1, <1>3, SetStateGrows
  <2>. QED
    BY <2>2 DEF S
<1>5. OthersStay(r)
  <2> SUFFICES ASSUME NEW q \in Requests \ {r}, pc[q] \in OpenTx
               PROVE  /\ rows'[own[q]].state = rows[own[q]].state
                      /\ convs'[at[q]] = convs[at[q]]
    BY <1>1, <1>2 DEF OthersStay
  <2>1. own[q] # own[r] /\ own[q] \in DOMAIN rows /\ at[q] \in Convs
    BY SMTT(30), <1>3, OwnRowsDiffer DEF RowInv, OwnsARow, TypeOK
  <2>2. at[q] = at[r] => convs[at[r]] # "new"
    BY <1>3 DEF RowInv, NewConversationHasOneCreator
  <2>. QED
    BY <2>1, <2>2, <1>2, <1>4
<1>6. OwnsARow(r)' /\ CallHasTurn(r)' /\ VictimsDownstream(r)'
  BY <1>2 DEF OwnsARow, CallHasTurn, VictimsDownstream, OpenTx, Streaming
<1>7. RowsFollowConversation'
  <2>1. \A i \in DOMAIN rows : rows[i].conv \in Convs
    BY <1>3, RowsInConvs
  <2>. QED
    BY <1>2, <1>4, <2>1 DEF RowInv, RowsFollowConversation, RowsGrow
<1>8. NewConversationHasOneCreator'
  <2>1. \A q \in Requests : at[q] \in Convs
    BY <1>3 DEF TypeOK
  <2>2. pc'[r] \notin OpenTx
    BY <1>2 DEF OpenTx
  <2>. QED
    BY <1>1, <1>2, <2>1, <2>2 DEF RowInv, NewConversationHasOneCreator
<1>. QED
  BY <1>4, <1>5, <1>6, <1>7, <1>8, RequestStep

\* A stream that stores its reply.
LEMMA InsertReplyStep ==
  ASSUME RowInv, TypeOK', NEW r \in Requests,
         PersistReply(r) \/ PersistAckLost(r) \/ FinallyPersist(r)
  PROVE  RowInv'
<1> DEFINE new == Row(at[r], "assistant", parent[r], r, "live", kept[r])
           n   == Len(rows) + 1
<1>1. /\ UNCHANGED <<convs, at, parent, own, victims>>
      /\ convs[at[r]] = "live" /\ rows' = Append(rows, new)
      /\ pc[r] \in {"done", "failed", "unsaved", "cut"}
      /\ pc' = [pc EXCEPT ![r] = pc'[r]] /\ pc'[r] \in {"saved", "unsaved", "end"}
  BY DEF PersistReply, PersistAckLost, FinallyPersist, InsertReply, Goto, call, RowInv, TypeOK
<1>2. \A q \in Requests \ {r} : pc'[q] = pc[q]
  BY <1>1 DEF RowInv, TypeOK
<1>3. new \in RowType /\ TypeOK
  BY RowTyped DEF RowStates, RowInv, TypeOK
<1>4. new.conv = at[r] /\ new.role = "assistant" /\ new.parent = parent[r] /\ new.state = "live"
  BY DEF Row
<1> HIDE DEF new
<1>5. /\ RowsGrow
      /\ DOMAIN rows' = DOMAIN rows \cup {n}
      /\ DOMAIN rows = 1 .. Len(rows) /\ Len(rows) \in Nat
      /\ rows'[n] = new
      /\ \A i \in DOMAIN rows : rows'[i] = rows[i] /\ i # n
  BY <1>1, <1>3, AppendGrows
<1>6. UserTurn(parent[r], at[r]) /\ parent[r] < n
  BY <1>1, <1>5 DEF RowInv, CallHasTurn, Streaming, UserTurn
<1> HIDE DEF n
<1>7. OthersStay(r)
  BY <1>1, <1>2, <1>5 DEF OthersStay, RowInv, OwnsARow
<1>8. OwnsARow(r)' /\ CallHasTurn(r)' /\ VictimsDownstream(r)'
  <2>1. OwnsARow(r)' /\ VictimsDownstream(r)'
    BY <1>1 DEF OwnsARow, VictimsDownstream, OpenTx
  <2>2. CallHasTurn(r)'
    BY <1>1, <1>5, <1>6 DEF CallHasTurn, UserTurn, RowsGrow
  <2>. QED
    BY <2>1, <2>2
<1>9. RowsFollowConversation'
  BY <1>1, <1>4, <1>5 DEF RowInv, RowsFollowConversation
<1>10. NewConversationHasOneCreator'
  <2>1. pc'[r] \notin OpenTx
    BY <1>1 DEF OpenTx
  <2>. QED
    BY <1>1, <1>2, <2>1 DEF RowInv, NewConversationHasOneCreator
<1>11. ASSUME NEW i \in DOMAIN rows', i \notin DOMAIN rows PROVE ReplyHasTurn(i)'
  <2>1. i = n
    BY <1>5, <1>11
  <2>. QED
    BY <2>1, <1>4, <1>5, <1>6 DEF ReplyHasTurn, UserTurn, RowsGrow, Committed
<1>. QED
  BY <1>5, <1>7, <1>8, <1>9, <1>10, <1>11, RequestStep

\* The three ends of an edit's transaction.
LEMMA EditFlushStep ==
  ASSUME RowInv, TypeOK', NEW r \in Requests, EditFlush(r)
  PROVE  RowInv'
<1> DEFINE new == Row(at[r], "user", parent[r], r, "pending", 1)
           n   == Len(rows) + 1
<1>1. /\ UNCHANGED <<convs, at, parent, victims>>
      /\ convs[at[r]] = "live" /\ rows' = Append(rows, new)
      /\ pc[r] = "edit1" /\ pc' = [pc EXCEPT ![r] = "edittx"]
      /\ own' = [own EXCEPT ![r] = n]
  BY DEF EditFlush, Goto
<1>2. /\ pc'[r] = "edittx" /\ own'[r] = n
      /\ \A q \in Requests \ {r} : pc'[q] = pc[q] /\ own'[q] = own[q]
  BY <1>1 DEF RowInv, TypeOK
<1>3. new \in RowType /\ TypeOK
  BY RowTyped DEF RowStates, RowInv, TypeOK
<1>4. /\ new.conv = at[r] /\ new.role = "user" /\ new.parent = parent[r]
      /\ new.state = "pending" /\ new.by = r
  BY DEF Row
<1> HIDE DEF new
<1>5. /\ RowsGrow
      /\ DOMAIN rows' = DOMAIN rows \cup {n}
      /\ DOMAIN rows = 1 .. Len(rows) /\ Len(rows) \in Nat
      /\ rows'[n] = new
      /\ \A i \in DOMAIN rows : rows'[i] = rows[i] /\ i # n
  BY <1>1, <1>3, AppendGrows
<1>6. UserTurn(parent[r], at[r]) /\ parent[r] < n
  BY <1>1, <1>5 DEF RowInv, CallHasTurn, UserTurn
<1> HIDE DEF n
<1>7. OthersStay(r)
  BY <1>1, <1>2, <1>5 DEF OthersStay, RowInv, OwnsARow
<1>8. OwnsARow(r)'
  BY <1>1, <1>2, <1>4, <1>5, <1>6 DEF OwnsARow
<1>9. CallHasTurn(r)' /\ VictimsDownstream(r)'
  BY <1>1, <1>5, <1>6 DEF RowInv, CallHasTurn, VictimsDownstream, UserTurn, RowsGrow
<1>10. RowsFollowConversation'
  BY <1>1, <1>4, <1>5 DEF RowInv, RowsFollowConversation
<1>11. NewConversationHasOneCreator'
  BY <1>1, <1>2 DEF RowInv, NewConversationHasOneCreator
<1>12. \A i \in DOMAIN rows' : i \notin DOMAIN rows => ReplyHasTurn(i)'
  BY <1>4, <1>5 DEF ReplyHasTurn
<1>. QED
  BY <1>5, <1>7, <1>8, <1>9, <1>10, <1>11, <1>12, RequestStep

LEMMA EditCommitStep ==
  ASSUME RowInv, TypeOK', NEW r \in Requests, EditCommit(r)
  PROVE  RowInv'
<1>1. /\ UNCHANGED <<convs, at, parent, own, victims>>
      /\ pc[r] = "edittx" /\ pc' = [pc EXCEPT ![r] = "end"] /\ rows' = CommitFork(r)
  BY DEF EditCommit, Goto, call
<1>2. pc'[r] = "end" /\ \A q \in Requests \ {r} : pc'[q] = pc[q]
  BY <1>1 DEF RowInv, TypeOK
<1>3. OwnsARow(r) /\ VictimsDownstream(r) /\ pc[r] \in OpenTx /\ TypeOK
  BY <1>1 DEF RowInv, OpenTx
<1>4. /\ RowsGrow /\ DOMAIN rows' = DOMAIN rows
      /\ \A i \in DOMAIN rows :
           rows'[i].state = IF i \in victims[r] THEN "deleted"
                            ELSE IF i = own[r] THEN "live" ELSE rows[i].state
  BY <1>1, <1>3, CommitForkGrows
<1>5. OthersStay(r)
  <2> SUFFICES ASSUME NEW q \in Requests \ {r}, pc[q] \in OpenTx
               PROVE  rows'[own[q]].state = rows[own[q]].state
    BY <1>1, <1>2 DEF OthersStay
  <2>1. own[q] # own[r] /\ own[q] \in DOMAIN rows /\ rows[own[q]].state = "pending"
    BY <1>3, OwnRowsDiffer DEF RowInv, OwnsARow
  <2>2. own[q] \notin victims[r]
    BY <1>1, <1>3, <2>1 DEF VictimsDownstream, Committed
  <2>. QED
    BY <2>1, <2>2, <1>4
<1>6. OwnsARow(r)' /\ CallHasTurn(r)' /\ VictimsDownstream(r)'
  BY <1>2 DEF OwnsARow, CallHasTurn, VictimsDownstream, OpenTx, Streaming
<1>7. convs[at[r]] = "live" /\ own[r] \in DOMAIN rows /\ rows[own[r]].conv = at[r]
      /\ \A i \in victims[r] : i \in DOMAIN rows /\ rows[i].conv = at[r]
  BY <1>1, <1>3 DEF OwnsARow, VictimsDownstream
<1>8. RowsFollowConversation'
  BY <1>1, <1>4, <1>7 DEF RowInv, RowsFollowConversation, RowsGrow
<1>9. NewConversationHasOneCreator'
  <2>1. pc'[r] \notin OpenTx
    BY <1>2 DEF OpenTx
  <2>. QED
    BY <1>1, <1>2, <2>1 DEF RowInv, NewConversationHasOneCreator
<1>. QED
  BY <1>4, <1>5, <1>6, <1>8, <1>9, RequestStep

LEMMA EditAbortStep ==
  ASSUME RowInv, TypeOK', NEW r \in Requests, EditAbort(r)
  PROVE  RowInv'
<1>1. /\ UNCHANGED <<convs, at, parent, own, victims>>
      /\ pc[r] \in {"edit0", "edit1", "edittx"} /\ pc' = [pc EXCEPT ![r] = "aborted"]
      /\ rows' = IF pc[r] = "edittx" THEN SetState({own[r]}, "void") ELSE rows
  BY DEF EditAbort, call
<1>2. pc'[r] = "aborted" /\ \A q \in Requests \ {r} : pc'[q] = pc[q]
  BY <1>1 DEF RowInv, TypeOK
<1>3. CallHasTurn(r)' /\ VictimsDownstream(r)' /\ OwnsARow(r)'
  BY <1>2 DEF CallHasTurn, VictimsDownstream, OwnsARow, Streaming, OpenTx
<1>4. CASE pc[r] # "edittx"
  <2>1. Quiet(r)
    BY <1>1, <1>2, <1>4 DEF Quiet, OpenTx
  <2>. QED
    BY <2>1, <1>3, QuietStep
<1>5. CASE pc[r] = "edittx"
  <2>1. OwnsARow(r) /\ pc[r] \in OpenTx /\ TypeOK /\ "void" \in RowStates
    BY <1>5 DEF RowInv, OpenTx, RowStates
  <2>2. /\ RowsGrow /\ DOMAIN rows' = DOMAIN rows
        /\ \A i \in DOMAIN rows : rows'[i].state = IF i = own[r] THEN "void" ELSE rows[i].state
    <3> DEFINE S == {own[r]}
    <3>1. rows' = SetState(S, "void") /\ \A i \in S \cap DOMAIN rows : rows[i].state \notin Committed
      BY <1>1, <1>5, <2>1 DEF OwnsARow, Committed
    <3> HIDE DEF S
    <3>2. /\ RowsGrow /\ DOMAIN rows' = DOMAIN rows
          /\ \A i \in DOMAIN rows : rows'[i].state = IF i \in S THEN "void" ELSE rows[i].state
      BY <2>1, <3>1, SetStateGrows
    <3>. QED
      BY <3>2 DEF S
  <2>3. OthersStay(r)
    <3> SUFFICES ASSUME NEW q \in Requests \ {r}, pc[q] \in OpenTx
                 PROVE  rows'[own[q]].state = rows[own[q]].state
      BY <1>1, <1>2 DEF OthersStay
    <3>1. own[q] # own[r] /\ own[q] \in DOMAIN rows
      BY <2>1, OwnRowsDiffer DEF RowInv, OwnsARow
    <3>. QED
      BY <3>1, <2>2
  <2>4. RowsFollowConversation'
    <3>1. convs' = convs /\ RowsFollowConversation
      BY <1>1 DEF RowInv
    <3>. QED
      BY <2>2, <3>1 DEF RowsFollowConversation, RowsGrow
  <2>5. NewConversationHasOneCreator'
    <3>1. pc'[r] \notin OpenTx
      BY <1>2 DEF OpenTx
    <3>. QED
      BY <1>1, <1>2, <3>1 DEF RowInv, NewConversationHasOneCreator
  <2>. QED
    BY <1>3, <2>2, <2>3, <2>4, <2>5, RequestStep
<1>. QED
  BY <1>4, <1>5

(***************************************************************************)
(* The invariant and what follows from it.                                 *)
(***************************************************************************)
THEOREM InitRowInvariant == Init => RowInv
<1>. SUFFICES ASSUME Init PROVE RowInv
  OBVIOUS
<1>1. (CHOOSE c \in Convs : TRUE) \in Convs
  BY ConvsAssumption
<1>2. TypeOK
  BY <1>1 DEF Init, TypeOK, ConvStates, PcStates, NoRow
<1>3. /\ RowsFollowConversation /\ NewConversationHasOneCreator
      /\ \A i \in DOMAIN rows : ReplyHasTurn(i)
  BY DEF Init, RowsFollowConversation, NewConversationHasOneCreator, ReplyHasTurn, OpenTx
<1>4. \A r \in Requests : OwnsARow(r) /\ CallHasTurn(r) /\ VictimsDownstream(r)
  BY DEF Init, OwnsARow, CallHasTurn, VictimsDownstream, OpenTx, Streaming
<1>. QED
  BY <1>2, <1>3, <1>4 DEF RowInv

THEOREM StepRowInvariant == RowInv /\ [Next]_vars => RowInv'
<1>. SUFFICES ASSUME RowInv, [Next]_vars PROVE RowInv'
  OBVIOUS
<1>1. TypeOK'
  BY TypeStep DEF RowInv
<1>2. CASE UNCHANGED vars
  BY <1>2 DEF vars, RowInv, TypeOK, RowsFollowConversation, ReplyHasTurn, UserTurn, OwnsARow,
              NewConversationHasOneCreator, CallHasTurn, VictimsDownstream
<1>3. CASE Next
  BY <1>1, <1>3, NextCases, CreateConversationStep, DeleteConversationStep, SendOpenStep,
     RegenOpenQuiet, EditReadsQuiet, SendCommitStep, SendAbortStep, TokenQuiet, StreamQuiet,
     InsertReplyStep, EditFlushStep, EditCommitStep, EditAbortStep, ZenonT(60)
<1>. QED
  BY <1>2, <1>3

\* The invariant holds in every reachable state, for all constants.
THEOREM RowInvariant == Spec => []RowInv
  BY InitRowInvariant, StepRowInvariant, PTL DEF Spec

\* Every variable keeps its type.
THEOREM TypeCorrect == Spec => []TypeOK
<1>1. RowInv => TypeOK
  BY DEF RowInv
<1>. QED
  BY <1>1, RowInvariant, PTL

\* No reply is ever attached to a turn that is not committed or not of its
\* conversation, and the two are erased together.
THEOREM RepliesCorrect == Spec => []RepliesAnswerATurn
<1>1. RowInv => RepliesAnswerATurn
  <2> SUFFICES ASSUME RowInv, NEW i \in DOMAIN rows, rows[i].role = "assistant"
               PROVE  /\ rows[i].parent \in 1 .. i - 1
                      /\ LET p == rows[rows[i].parent] IN
                           /\ p.role = "user" /\ p.conv = rows[i].conv
                           /\ p.state \in {"live", "deleted", "erased"}
                           /\ p.state = "erased" <=> rows[i].state = "erased"
    BY DEF RepliesAnswerATurn
  <2>1. rows \in Seq(RowType) /\ DOMAIN rows = 1 .. Len(rows) /\ Len(rows) \in Nat
    BY DEF RowInv, TypeOK
  <2>2. /\ rows[i].state \in Committed /\ rows[i].parent < i
        /\ UserTurn(rows[i].parent, rows[i].conv)
    BY DEF RowInv, ReplyHasTurn
  <2>3. rows[i].parent \in 1 .. i - 1
    BY <2>1, <2>2 DEF UserTurn
  <2>. QED
    BY <2>2, <2>3 DEF RowInv, RowsFollowConversation, UserTurn, Committed
<1>. QED
  BY <1>1, RowInvariant, PTL
=============================================================================
