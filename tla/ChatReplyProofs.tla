--------------------------- MODULE ChatReplyProofs ---------------------------
(***************************************************************************)
(* What a stream stores: the second half of the invariant of the chat, on  *)
(* top of what ChatConversationProofs shows of the rows, the properties    *)
(* that follow from it, the refinement of the audit log, and what a reader *)
(* of a conversation sees.                                                 *)
(***************************************************************************)
EXTENDS ChatConversationProofs, FiniteSetTheorems, WellFoundedInduction

LEMMA RowNumbers ==
  ASSUME TypeOK
  PROVE  /\ DOMAIN rows = 1 .. Len(rows) /\ Len(rows) \in Nat
         /\ DOMAIN rows \subseteq Nat /\ \A i \in DOMAIN rows : rows[i] \in RowType
  BY DEF TypeOK

LEMMA StoredFinite ==
  ASSUME TypeOK, NEW r \in Requests
  PROVE  IsFiniteSet(Stored(r)) /\ Cardinality(Stored(r)) \in Nat
<1>1. IsFiniteSet(1 .. Len(rows))
  BY RowNumbers, FS_Interval
<1>2. Stored(r) \subseteq 1 .. Len(rows)
  BY RowNumbers DEF Stored
<1>. QED
  BY <1>1, <1>2, FS_Subset, FS_CardinalityType

(***************************************************************************)
(* What a step does to the table.                                          *)
(***************************************************************************)
SameRows == RowsGrow /\ DOMAIN rows' = DOMAIN rows

\* Row n is appended.
NewRow(n) ==
  /\ RowsGrow
  /\ n = Len(rows) + 1 /\ n <= MaxRows
  /\ n \notin DOMAIN rows /\ DOMAIN rows' = DOMAIN rows \cup {n}

NewTurn(n) ==
  /\ NewRow(n) /\ rows'[n].role = "user"
  /\ rows'[n].parent # NoRow =>
       rows'[n].parent < n /\ UserTurn(rows'[n].parent, rows'[n].conv)

NewReply(n, r) ==
  /\ NewRow(n) /\ rows'[n].role = "assistant"
  /\ rows'[n].by = r /\ rows'[n].size = kept[r]

LEMMA AppendIsNewRow ==
  ASSUME TypeOK, NEW x \in RowType, rows' = Append(rows, x), Len(rows) < MaxRows
  PROVE  NewRow(Len(rows) + 1) /\ rows'[Len(rows) + 1] = x
<1>1. /\ RowsGrow
      /\ DOMAIN rows' = DOMAIN rows \cup {Len(rows) + 1}
      /\ DOMAIN rows = 1 .. Len(rows) /\ Len(rows) \in Nat
      /\ rows'[Len(rows) + 1] = x
      /\ \A i \in DOMAIN rows : rows'[i] = rows[i] /\ i # Len(rows) + 1
  BY AppendGrows
<1>. QED
  BY <1>1, SizesAssumption DEF NewRow

LEMMA UnchangedRows ==
  ASSUME rows' = rows
  PROVE  SameRows
  BY DEF SameRows, RowsGrow

\* Steps that set the state of rows: no committed row is taken back.
LEMMA StatesOnly ==
  ASSUME RowInv,
         \/ \E c \in Convs : DeleteConversation(c)
         \/ \E r \in Requests : SendCommit(r) \/ SendAbort(r) \/ EditCommit(r) \/ EditAbort(r)
  PROVE  SameRows
<1>1. TypeOK
  BY DEF RowInv
<1>2. ASSUME NEW S, NEW st \in RowStates, rows' = SetState(S, st),
             st \in Committed \/ \A i \in S \cap DOMAIN rows : rows[i].state \notin Committed
      PROVE  SameRows
  BY <1>1, <1>2, SetStateGrows DEF SameRows
<1>3. ASSUME NEW c \in Convs, DeleteConversation(c) PROVE SameRows
  BY <1>2, <1>3 DEF DeleteConversation, RowStates, Committed
<1>4. ASSUME NEW r \in Requests, pc[r] \in OpenTx
      PROVE  \A i \in {own[r]} \cap DOMAIN rows : rows[i].state \notin Committed
  BY <1>4 DEF RowInv, OwnsARow, Committed
<1>5. ASSUME NEW r \in Requests, SendCommit(r) PROVE SameRows
  BY <1>2, <1>5 DEF SendCommit, RowStates, Committed
<1>6. ASSUME NEW r \in Requests, SendAbort(r) PROVE SameRows
  <2>1. rows' = SetState({own[r]}, "void") /\ pc[r] \in OpenTx
    BY <1>6 DEF SendAbort, Goto, OpenTx
  <2>. QED
    BY <2>1, <1>2, <1>4 DEF RowStates
<1>7. ASSUME NEW r \in Requests, EditCommit(r) PROVE SameRows
  BY <1>1, <1>7, CommitForkGrows DEF EditCommit, SameRows
<1>8. ASSUME NEW r \in Requests, EditAbort(r) PROVE SameRows
  <2>1. CASE pc[r] = "edittx"
    <3>1. rows' = SetState({own[r]}, "void") /\ pc[r] \in OpenTx
      BY <1>8, <2>1 DEF EditAbort, OpenTx
    <3>. QED
      BY <3>1, <1>2, <1>4 DEF RowStates
  <2>2. CASE pc[r] # "edittx"
    BY <1>8, <2>2, UnchangedRows DEF EditAbort
  <2>. QED
    BY <2>1, <2>2
<1>. QED
  BY <1>3, <1>5, <1>6, <1>7, <1>8

LEMMA SendOpenAddsATurn ==
  ASSUME RowInv, NEW r \in Requests, NEW c \in Convs, SendOpen(r, c)
  PROVE  NewTurn(Len(rows) + 1)
<1> DEFINE new == Row(c, "user", NoRow, r, "pending", 1)
<1>1. new \in RowType /\ TypeOK
  BY RowTyped DEF RowStates, NoRow, RowInv
<1>2. new.role = "user" /\ new.parent = NoRow
  BY DEF Row
<1>3. rows' = Append(rows, new) /\ Len(rows) < MaxRows
  BY DEF SendOpen
<1> HIDE DEF new
<1>. QED
  BY <1>1, <1>2, <1>3, AppendIsNewRow DEF NewTurn

LEMMA EditFlushAddsAVariant ==
  ASSUME RowInv, NEW r \in Requests, EditFlush(r)
  PROVE  NewTurn(Len(rows) + 1)
<1> DEFINE new == Row(at[r], "user", parent[r], r, "pending", 1)
<1>1. new \in RowType /\ TypeOK
  BY RowTyped DEF RowStates, RowInv, TypeOK
<1>2. new.role = "user" /\ new.parent = parent[r] /\ new.conv = at[r]
  BY DEF Row
<1>3. rows' = Append(rows, new) /\ Len(rows) < MaxRows /\ pc[r] = "edit1"
  BY DEF EditFlush, Goto
<1> HIDE DEF new
<1>4. NewRow(Len(rows) + 1) /\ rows'[Len(rows) + 1] = new
  BY <1>1, <1>3, AppendIsNewRow
<1>5. UserTurn(parent[r], at[r]) /\ parent[r] < Len(rows) + 1
  BY <1>1, <1>3, RowNumbers DEF RowInv, CallHasTurn, UserTurn
<1>. QED
  BY <1>2, <1>4, <1>5 DEF NewTurn

LEMMA InsertAddsAReply ==
  ASSUME RowInv, NEW r \in Requests, InsertReply(r)
  PROVE  NewReply(Len(rows) + 1, r)
<1> DEFINE new == Row(at[r], "assistant", parent[r], r, "live", kept[r])
<1>1. new \in RowType /\ TypeOK
  BY RowTyped DEF RowStates, RowInv, TypeOK
<1>2. new.role = "assistant" /\ new.by = r /\ new.size = kept[r]
  BY DEF Row
<1>3. rows' = Append(rows, new) /\ Len(rows) < MaxRows
  BY DEF InsertReply
<1> HIDE DEF new
<1>. QED
  BY <1>1, <1>2, <1>3, AppendIsNewRow DEF NewReply

(***************************************************************************)
(* What that means for the replies a request has stored.                   *)
(***************************************************************************)
StoresTheSame(q) ==
  Stored(q)' = Stored(q) /\ \A i \in Stored(q) : rows'[i].size = rows[i].size

LEMMA NoReplyAdded ==
  ASSUME SameRows \/ \E n : NewTurn(n)
  PROVE  \A q \in Requests : StoresTheSame(q)
  BY DEF SameRows, NewTurn, NewRow, RowsGrow, StoresTheSame, Stored

LEMMA ReplyAdded ==
  ASSUME NEW n, NEW r \in Requests, NewReply(n, r)
  PROVE  /\ \A q \in Requests \ {r} : StoresTheSame(q)
         /\ Stored(r)' = Stored(r) \cup {n} /\ n \notin Stored(r)
         /\ \A i \in Stored(r) : rows'[i].size = rows[i].size
  BY DEF NewReply, NewRow, RowsGrow, StoresTheSame, Stored

\* A request that the step does not move keeps its part of the invariant, and
\* so does one that stores nothing and may have stored as much.
Buffers(q) == kept'[q] = kept[q] /\ sent'[q] = sent[q]

LEMMA OthersStoreTheSame ==
  ASSUME NEW q \in Requests, StoresItsReply(q), BuffersItsReply(q),
         StoresTheSame(q), Buffers(q), pc'[q] = pc[q]
  PROVE  StoresItsReply(q)' /\ BuffersItsReply(q)'
<1>1. Copies(q)' = Copies(q)
  BY DEF Copies
<1>2. StoresItsReply(q)'
  BY <1>1 DEF StoresItsReply, StoresTheSame, Buffers, Stored
<1>. QED
  BY <1>2 DEF BuffersItsReply, Buffers

\* A request that moves on and stores nothing.
LEMMA MovesWithoutStoring ==
  ASSUME TypeOK, NEW r \in Requests, StoresItsReply(r), BuffersItsReply(r),
         StoresTheSame(r), Buffers(r),
         Copies(r) <= Copies(r)', pc'[r] # "saved",
         pc'[r] = "end" /\ kept[r] > 0 => pc[r] = "saved",
         pc'[r] \notin Streaming \cup {"end", "lost"} => pc[r] \notin Streaming \cup {"end", "lost"}
  PROVE  StoresItsReply(r)' /\ BuffersItsReply(r)'
<1>1. Stored(r)' = Stored(r) /\ Cardinality(Stored(r)) \in Nat
  BY StoredFinite DEF StoresTheSame
<1>2. Copies(r) \in Nat /\ Copies(r)' \in Nat
  BY DEF Copies
<1>3. Cardinality(Stored(r)') <= Copies(r)'
  BY <1>1, <1>2 DEF StoresItsReply
<1>4. pc'[r] = "end" /\ kept'[r] > 0 => Stored(r)' # {}
  BY <1>1 DEF StoresItsReply, Buffers
<1>5. \A i \in Stored(r)' : rows'[i].size = kept'[r]
  BY <1>1 DEF StoresItsReply, StoresTheSame, Buffers
<1>6. StoresItsReply(r)'
  BY <1>3, <1>4, <1>5 DEF StoresItsReply
<1>7. BuffersItsReply(r)'
  BY DEF BuffersItsReply, Buffers
<1>. QED
  BY <1>6, <1>7

\* A request that stores a reply.
LEMMA MovesAndStores ==
  ASSUME TypeOK, NEW r \in Requests, NEW n, StoresItsReply(r), BuffersItsReply(r),
         NewReply(n, r), Buffers(r),
         Copies(r) + 1 <= Copies(r)', pc'[r] \in Streaming \cup {"end", "lost"}
  PROVE  StoresItsReply(r)' /\ BuffersItsReply(r)'
<1>1. /\ Stored(r)' = Stored(r) \cup {n} /\ n \notin Stored(r)
      /\ \A i \in Stored(r) : rows'[i].size = rows[i].size
  BY ReplyAdded
<1>2. IsFiniteSet(Stored(r)) /\ Cardinality(Stored(r)) \in Nat
  BY StoredFinite
<1>3. Cardinality(Stored(r)') = Cardinality(Stored(r)) + 1
  BY <1>1, <1>2, FS_AddElement
<1>4. Copies(r) \in Nat /\ Copies(r)' \in Nat
  BY DEF Copies
<1>5. Cardinality(Stored(r)') <= Copies(r)'
  BY <1>2, <1>3, <1>4 DEF StoresItsReply
<1>6. \A i \in Stored(r)' : rows'[i].size = kept'[r]
  BY <1>1 DEF StoresItsReply, Buffers, NewReply
<1>7. StoresItsReply(r)'
  BY <1>1, <1>5, <1>6 DEF StoresItsReply
<1>8. BuffersItsReply(r)'
  BY DEF BuffersItsReply, Buffers
<1>. QED
  BY <1>7, <1>8

\* A stream that receives a token has stored nothing yet.
LEMMA BuffersAToken ==
  ASSUME TypeOK, NEW r \in Requests, NEW n \in TokenSizes,
         StoresItsReply(r), BuffersItsReply(r), Token(r, n)
  PROVE  StoresItsReply(r)' /\ BuffersItsReply(r)'
<1>1. /\ UNCHANGED <<rows, pc>> /\ pc[r] = "stream"
      /\ sent'[r] = sent[r] + n
      /\ kept'[r] = IF kept[r] < ScanCap THEN kept[r] + n ELSE kept[r]
  BY DEF Token, TypeOK
<1>2. {sent[r], kept[r], ScanCap, n} \subseteq Nat /\ n > 0
  BY SizesAssumption DEF TypeOK
<1>3. Stored(r) = {}
  <2>1. Copies(r) = 0
    BY <1>1 DEF Copies
  <2>2. IsFiniteSet(Stored(r)) /\ Cardinality(Stored(r)) = 0
    BY <2>1, StoredFinite DEF StoresItsReply
  <2>. QED
    BY <2>2, FS_EmptySet
<1>4. Stored(r)' = {} /\ Copies(r)' = Copies(r)
  BY <1>1, <1>3 DEF Stored, Copies
<1>5. StoresItsReply(r)'
  BY <1>1, <1>3, <1>4 DEF StoresItsReply
<1>6. BuffersItsReply(r)'
  BY <1>1, <1>2 DEF BuffersItsReply, Streaming
<1>. QED
  BY <1>5, <1>6

(***************************************************************************)
(* The step.                                                               *)
(***************************************************************************)
ReplyInv == \A q \in Requests : StoresItsReply(q) /\ BuffersItsReply(q)

Variants == \A i \in DOMAIN rows : VariantHasTurn(i)

LEMMA VariantsStay ==
  ASSUME TypeOK, Variants, SameRows \/ \E n : NewTurn(n) \/ \E r : NewReply(n, r)
  PROVE  Variants'
<1>1. RowsGrow /\ \A i \in DOMAIN rows : VariantHasTurn(i)
  BY DEF SameRows, NewTurn, NewReply, NewRow, Variants
<1>2. ASSUME NEW i \in DOMAIN rows PROVE VariantHasTurn(i)'
  BY <1>1 DEF VariantHasTurn, RowsGrow, UserTurn
<1>3. ASSUME NEW n, NewTurn(n) PROVE VariantHasTurn(n)'
  BY <1>1, <1>3 DEF VariantHasTurn, NewTurn, UserTurn, RowsGrow
<1>4. ASSUME NEW n, NEW r, NewReply(n, r) PROVE VariantHasTurn(n)'
  BY <1>4 DEF VariantHasTurn, NewReply
<1>. QED
  BY <1>2, <1>3, <1>4 DEF SameRows, NewTurn, NewReply, NewRow, Variants

LEMMA TableFits ==
  ASSUME TypeOK, TypeOK', Len(rows) <= MaxRows,
         SameRows \/ \E n : NewTurn(n) \/ \E r : NewReply(n, r)
  PROVE  Len(rows') <= MaxRows
<1>1. /\ DOMAIN rows = 1 .. Len(rows) /\ Len(rows) \in Nat
      /\ DOMAIN rows' = 1 .. Len(rows') /\ Len(rows') \in Nat
  BY DEF TypeOK
<1>2. MaxRows \in Nat /\ (Len(rows') > 0 => Len(rows') \in DOMAIN rows')
  BY <1>1, SizesAssumption
<1> DEFINE last == Len(rows')
<1>3. CASE SameRows
  <2>1. last > 0 => last \in 1 .. Len(rows)
    BY <1>1, <1>2, <1>3 DEF SameRows
  <2> HIDE DEF last
  <2>2. last \in Nat => last <= MaxRows
    BY <1>1, <1>2, <2>1
  <2>. QED
    BY <1>1, <2>2 DEF last
<1>4. ASSUME NEW n, NewRow(n) PROVE last <= MaxRows
  <2>1. last > 0 => last \in (1 .. Len(rows)) \cup {Len(rows) + 1}
    BY <1>1, <1>2, <1>4 DEF NewRow
  <2>2. Len(rows) + 1 <= MaxRows
    BY <1>4 DEF NewRow
  <2> HIDE DEF last
  <2>3. last \in Nat => last <= MaxRows
    BY <1>1, <1>2, <2>1, <2>2
  <2>. QED
    BY <1>1, <2>3 DEF last
<1>. QED
  BY <1>3, <1>4 DEF NewTurn, NewReply

\* Request r moves; the others, and what they stored, are left alone.
Moves(r) ==
  \A q \in Requests \ {r} : pc'[q] = pc[q] /\ Buffers(q) /\ StoresTheSame(q)

LEMMA MoveKeepsReplies ==
  ASSUME ReplyInv, NEW r \in Requests, Moves(r),
         StoresItsReply(r)' /\ BuffersItsReply(r)'
  PROVE  ReplyInv'
<1>1. ASSUME NEW q \in Requests \ {r} PROVE StoresItsReply(q)' /\ BuffersItsReply(q)'
  BY OthersStoreTheSame DEF ReplyInv, Moves
<1>. QED
  BY <1>1 DEF ReplyInv

\* The conversation steps move no request.
LEMMA ConversationKeepsReplies ==
  ASSUME RowInv, ReplyInv, NEW c \in Convs, CreateConversation(c) \/ DeleteConversation(c)
  PROVE  SameRows /\ ReplyInv'
<1>1. SameRows
  BY UnchangedRows, StatesOnly DEF CreateConversation
<1>2. UNCHANGED <<pc, sent, kept>>
  BY DEF CreateConversation, DeleteConversation, reply
<1>3. ASSUME NEW q \in Requests PROVE StoresItsReply(q)' /\ BuffersItsReply(q)'
  BY <1>1, <1>2, NoReplyAdded, OthersStoreTheSame DEF ReplyInv, Buffers
<1>. QED
  BY <1>1, <1>3 DEF ReplyInv

\* What the other steps do to the request they move: nothing it has buffered or
\* stored changes, and it goes from one place of its program to another.
Goes(r, from, to) ==
  /\ pc[r] \in from /\ pc' = [pc EXCEPT ![r] = pc'[r]] /\ pc'[r] \in to
  /\ UNCHANGED reply

LEMMA GoesKeepsReplies ==
  ASSUME RowInv, ReplyInv, NEW r \in Requests,
         SameRows \/ \E n : NewTurn(n),
         \/ Goes(r, {"idle", "edit0", "edit1", "sendtx", "edittx"},
                    {"edit0", "edit1", "sendtx", "edittx", "stream", "aborted", "end"})
         \/ Goes(r, {"stream"}, {"done", "failed"})
         \/ Goes(r, {"stream", "done", "failed", "unsaved"}, {"cut"})
         \/ Goes(r, {"done"}, {"unsaved"})
         \/ Goes(r, {"failed", "unsaved", "cut"}, {"lost"})
         \/ Goes(r, {"saved"}, {"end"})
         \/ Goes(r, {"failed", "unsaved", "cut"}, {"end"}) /\ ~HasReply(r)
  PROVE  ReplyInv'
<1>1. /\ \A q \in Requests : StoresTheSame(q)
      /\ \A q \in Requests : Buffers(q)
  BY NoReplyAdded DEF Goes, Buffers, reply
<1>2. Moves(r)
  BY <1>1 DEF Moves, Goes, RowInv, TypeOK
<1>3. StoresItsReply(r) /\ BuffersItsReply(r) /\ TypeOK
  BY DEF ReplyInv, RowInv
<1>4. pc[r] \notin Streaming \cup {"end", "lost"} => ~(kept[r] > 0)
  BY <1>3 DEF BuffersItsReply
<1>5. Copies(r) <= Copies(r)'
  BY DEF Copies, Goes
<1>6. /\ pc'[r] # "saved"
      /\ pc'[r] = "end" /\ kept[r] > 0 => pc[r] = "saved"
      /\ pc'[r] \notin Streaming \cup {"end", "lost"} => pc[r] \notin Streaming \cup {"end", "lost"}
  BY <1>4 DEF Goes, Streaming, HasReply
<1>. QED
  BY <1>1, <1>2, <1>3, <1>5, <1>6, MovesWithoutStoring, MoveKeepsReplies

Extends == SameRows \/ (\E n : NewTurn(n) \/ \E r : NewReply(n, r))

LEMMA CallsExtend ==
  ASSUME RowInv, ReplyInv, NEW r \in Requests,
         \/ \E c \in Convs : SendOpen(r, c)
         \/ \E i \in DOMAIN rows : RegenOpen(r, i) \/ EditCheck(r, i)
         \/ SendCommit(r) \/ SendAbort(r)
         \/ StreamDone(r) \/ StreamFail(r) \/ Disconnect(r)
         \/ PersistSkip(r) \/ FinallyLost(r) \/ FinallySkip(r)
         \/ EditSelect(r) \/ EditFlush(r) \/ EditConflict(r)
         \/ EditCommit(r) \/ EditAbort(r)
  PROVE  Extends /\ ReplyInv'
<1> DEFINE from == {"idle", "edit0", "edit1", "sendtx", "edittx"}
           to   == {"edit0", "edit1", "sendtx", "edittx", "stream", "aborted", "end"}
<1>0. pc \in [Requests -> PcStates]
  BY DEF RowInv, TypeOK
<1>1. ASSUME SameRows \/ \E n : NewTurn(n), Goes(r, from, to) PROVE Extends /\ ReplyInv'
  BY <1>1, GoesKeepsReplies DEF Extends
<1>2. ASSUME NEW c \in Convs, SendOpen(r, c) PROVE Extends /\ ReplyInv'
  <2>1. Goes(r, from, to)
    BY <1>0, <1>2 DEF SendOpen, Goto, Goes
  <2>. QED
    BY <1>1, <1>2, <2>1, SendOpenAddsATurn
<1>3. ASSUME EditFlush(r) PROVE Extends /\ ReplyInv'
  <2>1. Goes(r, from, to)
    BY <1>0, <1>3 DEF EditFlush, Goto, Goes
  <2>. QED
    BY <1>1, <1>3, <2>1, EditFlushAddsAVariant
<1>4. ASSUME NEW i \in DOMAIN rows, RegenOpen(r, i) \/ EditCheck(r, i)
      PROVE  Extends /\ ReplyInv'
  <2>1. Goes(r, from, to) /\ rows' = rows
    BY <1>0, <1>4 DEF RegenOpen, EditCheck, Goto, Goes
  <2>. QED
    BY <1>1, <2>1, UnchangedRows
<1>5. ASSUME EditSelect(r) \/ EditConflict(r) PROVE Extends /\ ReplyInv'
  <2>1. Goes(r, from, to) /\ rows' = rows
    BY <1>0, <1>5 DEF EditSelect, EditConflict, Goto, Goes
  <2>. QED
    BY <1>1, <2>1, UnchangedRows
<1>6. ASSUME SendCommit(r) \/ SendAbort(r) \/ EditCommit(r) \/ EditAbort(r)
      PROVE  Extends /\ ReplyInv'
  <2>1. Goes(r, from, to)
    BY <1>0, <1>6 DEF SendCommit, SendAbort, EditCommit, EditAbort, Goto, Goes
  <2>. QED
    BY <1>1, <1>6, <2>1, StatesOnly
<1>7. ASSUME \/ StreamDone(r) \/ StreamFail(r) \/ Disconnect(r)
             \/ PersistSkip(r) \/ FinallyLost(r) \/ FinallySkip(r)
      PROVE  Extends /\ ReplyInv'
  <2>1. /\ rows' = rows
        /\ \/ Goes(r, {"stream"}, {"done", "failed"})
           \/ Goes(r, {"stream", "done", "failed", "unsaved"}, {"cut"})
           \/ Goes(r, {"done"}, {"unsaved"})
           \/ Goes(r, {"failed", "unsaved", "cut"}, {"lost"})
           \/ Goes(r, {"saved"}, {"end"})
           \/ Goes(r, {"failed", "unsaved", "cut"}, {"end"}) /\ ~HasReply(r)
    BY <1>0, <1>7 DEF StreamDone, StreamFail, Disconnect, PersistSkip, FinallyLost,
                      FinallySkip, Goto, Goes
  <2>2. SameRows
    BY <2>1, UnchangedRows
  <2>. QED
    BY <2>1, <2>2, GoesKeepsReplies DEF Extends
<1>. QED
  BY <1>2, <1>3, <1>4, <1>5, <1>6, <1>7

LEMMA InsertsExtend ==
  ASSUME RowInv, ReplyInv, NEW r \in Requests,
         PersistReply(r) \/ PersistAckLost(r) \/ FinallyPersist(r)
  PROVE  Extends /\ ReplyInv'
<1>1. /\ pc' = [pc EXCEPT ![r] = pc'[r]] /\ UNCHANGED reply /\ InsertReply(r)
      /\ \/ pc[r] = "done" /\ pc'[r] = "saved"
         \/ pc[r] = "done" /\ pc'[r] = "unsaved" /\ r \in AckMayFail
         \/ pc[r] \in {"failed", "unsaved", "cut"} /\ pc'[r] = "end"
  BY DEF PersistReply, PersistAckLost, FinallyPersist, Goto, RowInv, TypeOK
<1> DEFINE n == Len(rows) + 1
<1>2. NewReply(n, r)
  BY <1>1, InsertAddsAReply
<1> HIDE DEF n
<1>3. Moves(r) /\ Buffers(r)
  BY <1>1, <1>2, ReplyAdded DEF Moves, Buffers, reply, RowInv, TypeOK
<1>4. Copies(r) + 1 <= Copies(r)' /\ pc'[r] \in Streaming \cup {"end", "lost"}
  BY <1>1 DEF Copies, Streaming
<1>5. StoresItsReply(r) /\ BuffersItsReply(r) /\ TypeOK
  BY DEF ReplyInv, RowInv
<1>6. StoresItsReply(r)' /\ BuffersItsReply(r)'
  BY <1>2, <1>3, <1>4, <1>5, MovesAndStores
<1>. QED
  BY <1>2, <1>3, <1>6, MoveKeepsReplies DEF Extends

LEMMA TokensExtend ==
  ASSUME RowInv, ReplyInv, NEW r \in Requests, NEW n \in TokenSizes, Token(r, n)
  PROVE  Extends /\ ReplyInv'
<1>1. /\ UNCHANGED <<rows, pc>>
      /\ \A q \in Requests \ {r} : Buffers(q)
  BY DEF Token, Buffers, RowInv, TypeOK
<1>2. SameRows
  BY <1>1, UnchangedRows
<1>3. Moves(r)
  BY <1>1, <1>2, NoReplyAdded DEF Moves
<1>4. StoresItsReply(r)' /\ BuffersItsReply(r)'
  BY BuffersAToken DEF ReplyInv, RowInv
<1>. QED
  BY <1>2, <1>3, <1>4, MoveKeepsReplies DEF Extends

(***************************************************************************)
(* What edits have hidden stays hidden, and nothing else is.               *)
(***************************************************************************)
Hidden == {"deleted", "erased"}

\* The step hides no row and shows no hidden one.
KeepsHidden ==
  /\ \A i \in DOMAIN rows :
       i \in DOMAIN rows' /\ (rows[i].state \in Hidden => rows'[i].state \in Hidden)
  /\ \A i \in DOMAIN rows' :
       rows'[i].state = "deleted" => i \in DOMAIN rows /\ rows[i].state = "deleted"

\* Where a request goes that ends no edit.
KeepsPlaces ==
  \A q \in Requests :
    \/ pc'[q] = pc[q]
    \/ pc[q] # "end" /\ (pc'[q] \in {"edittx", "aborted"} \/ victims[q] = {})

LEMMA NothingIsHidden ==
  ASSUME EditsCut, KeepsHidden, KeepsPlaces, victims' = victims
  PROVE  EditsCut'
<1>1. ASSUME NEW q \in Requests PROVE SelectsAsAnEdit(q)'
  BY DEF EditsCut, SelectsAsAnEdit, KeepsHidden, KeepsPlaces, Hidden
<1>2. ASSUME NEW i \in DOMAIN rows' PROVE HiddenByAnEdit(i)'
  <2>. SUFFICES ASSUME rows'[i].state = "deleted"
                PROVE  \E e \in Requests : pc'[e] = "end" /\ i \in victims[e]
    BY DEF HiddenByAnEdit
  <2>1. PICK e \in Requests : pc[e] = "end" /\ i \in victims[e]
    BY DEF EditsCut, HiddenByAnEdit, KeepsHidden
  <2>. QED
    BY <2>1 DEF KeepsPlaces
<1>. QED
  BY <1>1, <1>2 DEF EditsCut

LEMMA SameRowsHide ==
  ASSUME rows' = rows
  PROVE  KeepsHidden
  BY DEF KeepsHidden

LEMMA AppendHidesNothing ==
  ASSUME TypeOK, NEW x \in RowType, rows' = Append(rows, x), x.state # "deleted"
  PROVE  KeepsHidden
<1>1. /\ DOMAIN rows' = DOMAIN rows \cup {Len(rows) + 1}
      /\ rows'[Len(rows) + 1] = x
      /\ \A i \in DOMAIN rows : rows'[i] = rows[i]
  BY AppendGrows
<1>. QED
  BY <1>1 DEF KeepsHidden

LEMMA SetStateHidesNothing ==
  ASSUME TypeOK, NEW S, NEW st \in RowStates \ {"deleted"}, rows' = SetState(S, st),
         st = "erased" \/ \A i \in S \cap DOMAIN rows : rows[i].state \notin Committed
  PROVE  KeepsHidden
<1>1. st \in Committed \/ \A i \in S \cap DOMAIN rows : rows[i].state \notin Committed
  BY DEF Committed
<1>2. /\ DOMAIN rows' = DOMAIN rows
      /\ \A i \in DOMAIN rows : rows'[i].state = IF i \in S THEN st ELSE rows[i].state
  BY <1>1, SetStateGrows
<1>. QED
  BY <1>2 DEF KeepsHidden, Hidden, Committed

LEMMA ConversationKeepsCut ==
  ASSUME RowInv, EditsCut, NEW c \in Convs, CreateConversation(c) \/ DeleteConversation(c)
  PROVE  EditsCut'
<1>1. UNCHANGED <<pc, victims>> /\ TypeOK
  BY DEF CreateConversation, DeleteConversation, RowInv
<1>2. KeepsHidden
  BY <1>1, SameRowsHide, SetStateHidesNothing DEF CreateConversation, DeleteConversation, RowStates
<1>. QED
  BY <1>1, <1>2, NothingIsHidden DEF KeepsPlaces

\* The places a request may leave without having selected a row.
LEMMA SelectedNothing ==
  ASSUME EditsCut, NEW r \in Requests, pc[r] \notin {"edit1", "edittx", "end", "aborted"}
  PROVE  victims[r] = {}
  BY DEF EditsCut, SelectsAsAnEdit

LEMMA OpenRowsUncommitted ==
  ASSUME RowInv, NEW r \in Requests, pc[r] \in OpenTx
  PROVE  \A i \in {own[r]} \cap DOMAIN rows : rows[i].state \notin Committed
  BY DEF RowInv, OwnsARow, Committed

LEMMA CallsKeepCut ==
  ASSUME RowInv, EditsCut, NEW r \in Requests,
         \/ \E c \in Convs : SendOpen(r, c)
         \/ \E i \in DOMAIN rows : RegenOpen(r, i) \/ EditCheck(r, i)
         \/ SendCommit(r) \/ SendAbort(r)
         \/ \E n \in TokenSizes : Token(r, n)
         \/ StreamDone(r) \/ StreamFail(r) \/ Disconnect(r)
         \/ PersistSkip(r) \/ FinallyLost(r) \/ FinallySkip(r)
         \/ PersistReply(r) \/ PersistAckLost(r) \/ FinallyPersist(r)
         \/ EditFlush(r) \/ EditConflict(r) \/ EditAbort(r)
  PROVE  EditsCut'
<1>1. TypeOK
  BY DEF RowInv
<1>2. ASSUME pc' = pc \/ pc' = [pc EXCEPT ![r] = pc'[r]], victims' = victims, KeepsHidden,
             \/ pc' = pc
             \/ pc[r] \notin {"edit1", "edittx", "end", "aborted"}
             \/ pc[r] \in {"edit1", "edittx"} /\ pc'[r] \in {"edittx", "aborted"}
      PROVE  EditsCut'
  <2>1. KeepsPlaces
    BY <1>1, <1>2, SelectedNothing DEF KeepsPlaces, TypeOK
  <2>. QED
    BY <1>2, <2>1, NothingIsHidden
<1>3. ASSUME NEW c \in Convs, SendOpen(r, c) PROVE EditsCut'
  <2> DEFINE new == Row(c, "user", NoRow, r, "pending", 1)
  <2>1. new \in RowType /\ new.state # "deleted"
    BY RowTyped DEF RowStates, NoRow, Row
  <2>2. rows' = Append(rows, new)
    BY <1>3 DEF SendOpen
  <2> HIDE DEF new
  <2>3. KeepsHidden
    BY <1>1, <2>1, <2>2, AppendHidesNothing
  <2>. QED
    BY <1>1, <1>2, <1>3, <2>3 DEF SendOpen, Goto, reply, TypeOK
<1>4. ASSUME EditFlush(r) PROVE EditsCut'
  <2> DEFINE new == Row(at[r], "user", parent[r], r, "pending", 1)
  <2>1. new \in RowType /\ new.state # "deleted"
    BY <1>1, RowTyped DEF RowStates, Row, TypeOK
  <2>2. rows' = Append(rows, new)
    BY <1>4 DEF EditFlush
  <2> HIDE DEF new
  <2>3. KeepsHidden
    BY <1>1, <2>1, <2>2, AppendHidesNothing
  <2>. QED
    BY <1>1, <1>2, <1>4, <2>3 DEF EditFlush, Goto, TypeOK
<1>5. ASSUME PersistReply(r) \/ PersistAckLost(r) \/ FinallyPersist(r) PROVE EditsCut'
  <2> DEFINE new == Row(at[r], "assistant", parent[r], r, "live", kept[r])
  <2>1. new \in RowType /\ new.state # "deleted"
    BY <1>1, RowTyped DEF RowStates, Row, TypeOK
  <2>2. rows' = Append(rows, new)
    BY <1>5 DEF PersistReply, PersistAckLost, FinallyPersist, InsertReply
  <2> HIDE DEF new
  <2>3. KeepsHidden
    BY <1>1, <2>1, <2>2, AppendHidesNothing
  <2>4. /\ pc' = [pc EXCEPT ![r] = pc'[r]] /\ victims' = victims
        /\ pc[r] \in {"done", "failed", "unsaved", "cut"}
    BY <1>1, <1>5 DEF PersistReply, PersistAckLost, FinallyPersist, Goto, TypeOK
  <2>. QED
    BY <1>2, <2>3, <2>4
<1>6. ASSUME SendCommit(r) \/ SendAbort(r) PROVE EditsCut'
  <2>1. /\ pc[r] = "sendtx" /\ victims' = victims /\ pc' = [pc EXCEPT ![r] = pc'[r]]
        /\ rows' = SetState({own[r]}, "live") \/ rows' = SetState({own[r]}, "void")
    BY <1>1, <1>6 DEF SendCommit, SendAbort, Goto, TypeOK
  <2>2. KeepsHidden
    BY <1>1, <2>1, OpenRowsUncommitted, SetStateHidesNothing DEF OpenTx, RowStates
  <2>. QED
    BY <1>2, <2>1, <2>2
<1>7. ASSUME EditAbort(r) PROVE EditsCut'
  <2>1. /\ pc[r] \in {"edit0", "edit1", "edittx"} /\ victims' = victims
        /\ pc' = [pc EXCEPT ![r] = pc'[r]] /\ pc'[r] = "aborted"
        /\ rows' = IF pc[r] = "edittx" THEN SetState({own[r]}, "void") ELSE rows
    BY <1>1, <1>7 DEF EditAbort, TypeOK
  <2>2. KeepsHidden
    BY <1>1, <2>1, OpenRowsUncommitted, SetStateHidesNothing, SameRowsHide DEF OpenTx, RowStates
  <2>. QED
    BY <1>2, <2>1, <2>2
<1>8. ASSUME \/ \E i \in DOMAIN rows : RegenOpen(r, i) \/ EditCheck(r, i)
             \/ StreamDone(r) \/ StreamFail(r) \/ Disconnect(r)
             \/ PersistSkip(r) \/ FinallyLost(r) \/ FinallySkip(r) \/ EditConflict(r)
      PROVE  EditsCut'
  <2>1. /\ rows' = rows /\ victims' = victims /\ pc' = [pc EXCEPT ![r] = pc'[r]]
        /\ \/ pc[r] \notin {"edit1", "edittx", "end", "aborted"}
           \/ pc[r] = "edit1" /\ pc'[r] = "aborted"
    BY <1>1, <1>8 DEF RegenOpen, EditCheck, StreamDone, StreamFail, Disconnect, PersistSkip,
                      FinallyLost, FinallySkip, EditConflict, Goto, TypeOK
  <2>. QED
    BY <1>2, <2>1, SameRowsHide
<1>9. ASSUME NEW n \in TokenSizes, Token(r, n) PROVE EditsCut'
  BY <1>2, <1>9, SameRowsHide DEF Token
<1>. QED
  BY <1>3, <1>4, <1>5, <1>6, <1>7, <1>8, <1>9

\* An edit selects committed rows, and hides them with its commit.
LEMMA SelectionsKeepCut ==
  ASSUME RowInv, EditsCut, NEW r \in Requests, EditSelect(r)
  PROVE  EditsCut'
<1>1. /\ pc[r] = "edit0" /\ pc' = [pc EXCEPT ![r] = "edit1"] /\ rows' = rows
      /\ \A q \in Requests \ {r} : victims'[q] = victims[q]
  BY DEF EditSelect, Goto, RowInv, TypeOK
<1>2. pc \in [Requests -> PcStates]
  BY DEF RowInv, TypeOK
<1>3. ASSUME NEW q \in Requests PROVE SelectsAsAnEdit(q)'
  BY <1>1, <1>2 DEF EditsCut, SelectsAsAnEdit
<1>4. ASSUME NEW i \in DOMAIN rows' PROVE HiddenByAnEdit(i)'
  BY <1>1, <1>2 DEF EditsCut, HiddenByAnEdit
<1>. QED
  BY <1>3, <1>4 DEF EditsCut

LEMMA ForksKeepCut ==
  ASSUME RowInv, EditsCut, NEW r \in Requests, EditCommit(r)
  PROVE  EditsCut'
<1>1. /\ pc[r] = "edittx" /\ pc' = [pc EXCEPT ![r] = "end"] /\ victims' = victims
      /\ rows' = CommitFork(r) /\ TypeOK
  BY DEF EditCommit, Goto, RowInv
<1>2. pc \in [Requests -> PcStates]
  BY DEF RowInv, TypeOK
<1>3. /\ DOMAIN rows' = DOMAIN rows
      /\ \A i \in DOMAIN rows :
           rows'[i].state = IF i \in victims[r] THEN "deleted"
                            ELSE IF i = own[r] THEN "live" ELSE rows[i].state
  BY <1>1, CommitForkGrows
<1>4. victims[r] \subseteq DOMAIN rows /\ rows[own[r]].state = "pending"
  BY <1>1 DEF RowInv, VictimsDownstream, OwnsARow, OpenTx
<1>5. ASSUME NEW q \in Requests PROVE SelectsAsAnEdit(q)'
  <2>1. CASE q = r
    BY <1>1, <1>2, <1>3, <1>4, <2>1 DEF SelectsAsAnEdit
  <2>2. CASE q # r
    BY <1>1, <1>2, <1>3, <1>4, <2>2 DEF EditsCut, SelectsAsAnEdit
  <2>. QED
    BY <2>1, <2>2
<1>6. ASSUME NEW i \in DOMAIN rows' PROVE HiddenByAnEdit(i)'
  <2>1. CASE i \in victims[r]
    BY <1>1, <1>2, <2>1 DEF HiddenByAnEdit
  <2>2. CASE i \notin victims[r]
    BY <1>1, <1>2, <1>3, <2>2 DEF EditsCut, HiddenByAnEdit
  <2>. QED
    BY <2>1, <2>2
<1>. QED
  BY <1>5, <1>6 DEF EditsCut

LEMMA EditsStayCut ==
  ASSUME RowInv, EditsCut, [Next]_vars
  PROVE  EditsCut'
<1>1. CASE UNCHANGED vars
  BY <1>1, SameRowsHide, NothingIsHidden DEF vars, KeepsPlaces
<1>2. CASE Next
  BY <1>2, NextCases, ConversationKeepsCut, CallsKeepCut, SelectionsKeepCut, ForksKeepCut,
     ZenonT(60)
<1>. QED
  BY <1>1, <1>2

\* No row is stored and nothing is buffered before the first request.
THEOREM InitInvariant == Init => IInv
<1>. SUFFICES ASSUME Init PROVE IInv
  OBVIOUS
<1>1. RowInv
  BY InitRowInvariant
<1>2. Len(rows) <= MaxRows /\ (\A i \in DOMAIN rows : VariantHasTurn(i)) /\ EditsCut
  BY SizesAssumption DEF Init, EditsCut, SelectsAsAnEdit
<1>3. ASSUME NEW r \in Requests PROVE StoresItsReply(r) /\ BuffersItsReply(r)
  <2>1. /\ Stored(r) = {} /\ Copies(r) = 0 /\ pc[r] = "idle"
        /\ kept[r] = 0 /\ sent[r] = 0
    BY DEF Init, Stored, Copies
  <2>2. Cardinality(Stored(r)) = 0
    BY <2>1, FS_EmptySet
  <2>. QED
    BY <2>1, <2>2 DEF StoresItsReply, BuffersItsReply
<1>. QED
  BY <1>1, <1>2, <1>3 DEF IInv

\* Every step keeps the invariant: the rows by StepRowInvariant, what the streams
\* store and buffer one kind of step at a time.
THEOREM StepInvariant == IInv /\ [Next]_vars => IInv'
<1>. SUFFICES ASSUME IInv, [Next]_vars PROVE IInv'
  OBVIOUS
<1>1. RowInv /\ RowInv' /\ TypeOK /\ TypeOK'
  BY StepRowInvariant DEF IInv, RowInv
<1>2. ReplyInv /\ Variants /\ Len(rows) <= MaxRows
  BY DEF IInv, ReplyInv, Variants
<1>3. Extends /\ ReplyInv'
  <2>1. CASE UNCHANGED vars
    <3>1. SameRows /\ UNCHANGED <<rows, pc, sent, kept>>
      BY <2>1, UnchangedRows DEF vars
    <3>2. ASSUME NEW q \in Requests PROVE StoresItsReply(q)' /\ BuffersItsReply(q)'
      BY <1>2, <3>1, NoReplyAdded, OthersStoreTheSame DEF ReplyInv, Buffers
    <3>. QED
      BY <3>1, <3>2 DEF Extends, ReplyInv
  <2>2. ASSUME NEW c \in Convs, CreateConversation(c) \/ DeleteConversation(c)
        PROVE  Extends /\ ReplyInv'
    BY <1>1, <1>2, <2>2, ConversationKeepsReplies DEF Extends
  <2>3. CASE Next
    BY <1>1, <1>2, <2>2, <2>3, NextCases, CallsExtend, InsertsExtend, TokensExtend, ZenonT(60)
  <2>. QED
    BY <2>1, <2>3
<1>4. Variants' /\ Len(rows') <= MaxRows
  BY <1>1, <1>2, <1>3, VariantsStay, TableFits DEF Extends
<1>5. EditsCut'
  BY <1>1, EditsStayCut DEF IInv
<1>. QED
  BY <1>1, <1>3, <1>4, <1>5 DEF IInv, ReplyInv, Variants

\* The invariant holds in every reachable state, for all constants.
THEOREM Invariant == Spec => []IInv
  BY InitInvariant, StepInvariant, PTL DEF Spec

\* A stream stores its reply once; only a commit that landed and reported an
\* error is followed by a second copy.
THEOREM StoredOnce == Spec => []OneReplyPerStream
<1>1. IInv => OneReplyPerStream
  <2> SUFFICES ASSUME IInv, NEW r \in Requests
               PROVE  Cardinality(Stored(r)) <= IF r \in AckMayFail THEN 2 ELSE 1
    BY DEF OneReplyPerStream
  <2>1. Cardinality(Stored(r)) <= Copies(r) /\ Cardinality(Stored(r)) \in Nat
    BY StoredFinite DEF IInv, RowInv, StoresItsReply
  <2>. QED
    BY <2>1 DEF Copies
<1>. QED
  BY <1>1, Invariant, PTL

\* A stream that ended without losing its last insert has stored what it kept,
\* and it kept all it streamed below the cap.
THEOREM TurnIsAnswered == Spec => []NoAsymmetricTurn
<1>1. IInv => NoAsymmetricTurn
  BY DEF IInv, NoAsymmetricTurn, StoresItsReply, BuffersItsReply
<1>. QED
  BY <1>1, Invariant, PTL

(***************************************************************************)
(* The chat store implements the audit log: the initial table is an empty  *)
(* log, a commit of a turn or a reply is a Post, the commit of an edit is  *)
(* a Fork, the deletion of a conversation is an Erase, and every other     *)
(* step leaves the log alone.                                              *)
(***************************************************************************)
Entry(i) ==
  IF AuditState(i) = "absent" THEN {}
  ELSE {[home |-> rows[i].conv, role |-> rows[i].role,
         parent |-> rows[i].parent, size |-> rows[i].size]}

Log == [i \in 1 .. MaxRows |-> AuditState(i)]
Entries == [i \in 1 .. MaxRows |-> Entry(i)]

\* What the log shows of a row.
LogShows(i) ==
  /\ AuditState(i) \in {"absent", "live", "hidden", "erased"}
  /\ AuditState(i) = "absent" <=> ~(i \in DOMAIN rows /\ rows[i].state \in Committed)
  /\ AuditState(i) = "live" <=> (i \in DOMAIN rows /\ rows[i].state = "live")
  /\ AuditState(i) = "hidden" <=> (i \in DOMAIN rows /\ rows[i].state = "deleted")
  /\ AuditState(i) = "erased" <=> (i \in DOMAIN rows /\ rows[i].state = "erased")

LogShowsRows == \A i \in 1 .. MaxRows : LogShows(i)

LEMMA AuditStates == TypeOK => LogShowsRows
<1>. SUFFICES ASSUME TypeOK, NEW i \in 1 .. MaxRows PROVE LogShows(i)
  BY DEF LogShowsRows
<1>1. CASE i \notin DOMAIN rows
  BY <1>1 DEF AuditState, LogShows
<1>2. CASE i \in DOMAIN rows
  <2>1. rows[i] \in RowType
    BY <1>2 DEF TypeOK
  <2>2. rows[i].state \in {"pending", "live", "deleted", "void", "erased"}
    BY <2>1 DEF RowType, RowStates
  <2>3. AuditState(i) = CASE rows[i].state \in {"pending", "void"} -> "absent"
                          [] rows[i].state = "deleted" -> "hidden"
                          [] OTHER -> rows[i].state
    BY <1>2 DEF AuditState
  <2>4. CASE rows[i].state \in {"pending", "void"}
    BY <1>2, <2>3, <2>4 DEF Committed, LogShows
  <2>5. CASE rows[i].state = "deleted"
    BY <1>2, <2>3, <2>5 DEF Committed, LogShows
  <2>6. CASE rows[i].state \in {"live", "erased"}
    BY <1>2, <2>3, <2>6 DEF Committed, LogShows
  <2>. QED
    BY <2>2, <2>4, <2>5, <2>6
<1>. QED
  BY <1>1, <1>2

LEMMA AuditStatesNext == TypeOK' => LogShowsRows'
  BY AuditStates, PTL

\* A committed row keeps its entry.
LEMMA EntryStays ==
  ASSUME TypeOK, TypeOK', RowsGrow, NEW i \in 1 .. MaxRows, AuditState(i) # "absent"
  PROVE  Entry(i)' = Entry(i) /\ AuditState(i)' # "absent"
<1>1. i \in DOMAIN rows /\ rows[i].state \in Committed
  BY AuditStates DEF LogShowsRows, LogShows
<1>2. i \in DOMAIN rows' /\ rows'[i].state \in Committed
  BY <1>1 DEF RowsGrow
<1>3. AuditState(i)' # "absent"
  BY <1>2, AuditStatesNext DEF LogShowsRows, LogShows
<1>. QED
  BY <1>1, <1>3 DEF Entry, RowsGrow

\* A step that changes no row's place in the log is a stutter of the log.
LEMMA LogStutters ==
  ASSUME TypeOK, TypeOK', RowsGrow, \A i \in 1 .. MaxRows : AuditState(i)' = AuditState(i)
  PROVE  UNCHANGED Audit!log
<1>1. \A i \in 1 .. MaxRows : Entry(i)' = Entry(i)
  BY EntryStays DEF Entry
<1>. QED
  BY <1>1 DEF Audit!log, Entry

LEMMA EmptyLog == Init => Audit!Init
<1>. SUFFICES ASSUME Init PROVE Audit!Init
  OBVIOUS
<1>1. \A i \in 1 .. MaxRows : AuditState(i) = "absent"
  BY DEF Init, AuditState
<1>. QED
  BY <1>1 DEF Audit!Init

\* Row i is committed, alone.
Posted(i) ==
  /\ AuditState(i) = "absent" /\ AuditState(i)' = "live"
  /\ \A j \in (1 .. MaxRows) \ {i} : AuditState(j)' = AuditState(j)

LEMMA PostedIsWritten ==
  ASSUME TypeOK, TypeOK', RowsGrow, NEW i \in 1 .. MaxRows,
         AuditState(i) = "absent", AuditState(i)' = "live",
         \A j \in (1 .. MaxRows) \ {i} :
           AuditState(j) = "absent" => AuditState(j)' = "absent"
  PROVE  Audit!Write(i, rows'[i].conv)
<1>1. \A j \in (1 .. MaxRows) \ {i} : Entry(j)' = Entry(j)
  BY EntryStays DEF Entry
<1>2. Entry(i)' = {[home |-> rows'[i].conv, role |-> rows'[i].role,
                    parent |-> rows'[i].parent, size |-> rows'[i].size]}
  BY DEF Entry
<1>3. Entries' = [j \in 1 .. MaxRows |-> Entry(j)']
  BY DEF Entries
<1>. QED
  BY <1>1, <1>2, <1>3 DEF Audit!Write, Entries, Entry

LEMMA PostedIsPosted ==
  ASSUME TypeOK, TypeOK', RowsGrow, NEW i \in 1 .. MaxRows, Posted(i)
  PROVE  Audit!Post(i, rows'[i].conv)
<1>1. Audit!Write(i, rows'[i].conv)
  BY PostedIsWritten DEF Posted
<1>. QED
  BY <1>1 DEF Audit!Post, Posted

\* Appended rows and rows whose state is set, as the log shows them.
LEMMA LogKeepsOthers ==
  ASSUME TypeOK, TypeOK', NEW j \in 1 .. MaxRows,
         j \in DOMAIN rows <=> j \in DOMAIN rows',
         j \in DOMAIN rows => rows'[j].state = rows[j].state
  PROVE  AuditState(j)' = AuditState(j)
  BY DEF AuditState

LEMMA UncommittedIsAbsent ==
  ASSUME TypeOK', NEW j \in 1 .. MaxRows,
         j \in DOMAIN rows' => rows'[j].state \notin Committed
  PROVE  AuditState(j)' = "absent"
  BY AuditStatesNext DEF LogShowsRows, LogShows

LEMMA UnchangedLog ==
  ASSUME TypeOK, TypeOK', rows' = rows
  PROVE  UNCHANGED Audit!log
<1>1. RowsGrow
  BY DEF RowsGrow
<1>2. \A j \in 1 .. MaxRows : AuditState(j)' = AuditState(j)
  BY DEF AuditState
<1>. QED
  BY <1>1, <1>2, LogStutters

\* A turn that is only flushed is not in the log yet.
LEMMA FlushStutters ==
  ASSUME IInv, TypeOK',
         \/ \E r \in Requests, c \in Convs : SendOpen(r, c)
         \/ \E r \in Requests : EditFlush(r)
  PROVE  UNCHANGED Audit!log
<1>1. TypeOK
  BY DEF IInv, RowInv
<1>2. PICK x \in RowType : rows' = Append(rows, x) /\ x.state = "pending"
  <2>1. ASSUME NEW r \in Requests, NEW c \in Convs, SendOpen(r, c)
        PROVE  \E x \in RowType : rows' = Append(rows, x) /\ x.state = "pending"
    <3>1. Row(c, "user", NoRow, r, "pending", 1) \in RowType
      BY RowTyped DEF RowStates, NoRow
    <3>. QED
      BY <2>1, <3>1 DEF SendOpen, Row
  <2>2. ASSUME NEW r \in Requests, EditFlush(r)
        PROVE  \E x \in RowType : rows' = Append(rows, x) /\ x.state = "pending"
    <3>1. Row(at[r], "user", parent[r], r, "pending", 1) \in RowType
      BY <1>1, RowTyped DEF RowStates, TypeOK
    <3>. QED
      BY <2>2, <3>1 DEF EditFlush, Row
  <2>. QED
    BY <2>1, <2>2
<1> DEFINE n == Len(rows) + 1
<1>3. /\ RowsGrow /\ DOMAIN rows' = DOMAIN rows \cup {n} /\ rows'[n] = x
      /\ \A i \in DOMAIN rows : rows'[i] = rows[i] /\ i # n
  BY <1>1, <1>2, AppendGrows
<1> HIDE DEF n
<1>4. ASSUME NEW j \in 1 .. MaxRows PROVE AuditState(j)' = AuditState(j)
  <2>1. CASE j = n
    <3>1. AuditState(j)' = "absent"
      BY <2>1, <1>2, <1>3, UncommittedIsAbsent DEF Committed
    <3>. QED
      BY <3>1, <2>1, <1>3 DEF AuditState
  <2>2. CASE j # n
    BY <1>1, <1>3, <2>2, LogKeepsOthers
  <2>. QED
    BY <2>1, <2>2
<1>. QED
  BY <1>1, <1>3, <1>4, LogStutters

\* A turn that is rolled back was not in the log.
LEMMA RollbackStutters ==
  ASSUME IInv, TypeOK', NEW r \in Requests, SendAbort(r) \/ EditAbort(r)
  PROVE  UNCHANGED Audit!log
<1>1. TypeOK
  BY DEF IInv, RowInv
<1>2. CASE pc[r] \notin OpenTx
  <2>1. rows' = rows
    BY <1>2 DEF SendAbort, EditAbort, Goto, OpenTx
  <2>. QED
    BY <1>1, <2>1, UnchangedLog
<1>3. CASE pc[r] \in OpenTx
  <2> DEFINE S == {own[r]}
  <2>1. own[r] \in DOMAIN rows /\ rows[own[r]].state = "pending"
    BY <1>3 DEF IInv, RowInv, OwnsARow
  <2>2. rows' = SetState(S, "void") /\ \A i \in S \cap DOMAIN rows : rows[i].state \notin Committed
    BY <1>3, <2>1 DEF SendAbort, EditAbort, Goto, OpenTx, Committed
  <2> HIDE DEF S
  <2>3. /\ RowsGrow /\ DOMAIN rows' = DOMAIN rows
        /\ \A i \in DOMAIN rows : rows'[i].state = IF i \in S THEN "void" ELSE rows[i].state
    BY <1>1, <2>2, SetStateGrows DEF RowStates
  <2>4. ASSUME NEW j \in 1 .. MaxRows PROVE AuditState(j)' = AuditState(j)
    <3>1. CASE j = own[r]
      <4>1. AuditState(j) = "absent"
        BY <1>1, <2>1, <3>1, AuditStates DEF LogShowsRows, LogShows, Committed
      <4>2. AuditState(j)' = "absent"
        BY <2>1, <2>3, <3>1, UncommittedIsAbsent DEF S, Committed
      <4>. QED
        BY <4>1, <4>2
    <3>2. CASE j # own[r]
      BY <1>1, <2>3, <3>2, LogKeepsOthers DEF S
    <3>. QED
      BY <3>1, <3>2
  <2>. QED
    BY <1>1, <2>3, <2>4, LogStutters
<1>. QED
  BY <1>2, <1>3

\* The commit of a send posts its turn.
LEMMA SendCommitPosts ==
  ASSUME IInv, TypeOK', NEW r \in Requests, SendCommit(r)
  PROVE  \E i \in 1 .. MaxRows, c \in Convs : Audit!Post(i, c)
<1>1. TypeOK /\ at[r] \in Convs
  BY DEF IInv, RowInv, TypeOK
<1>2. PICK i \in 1 .. MaxRows : /\ i = own[r] /\ i \in DOMAIN rows
                               /\ rows[i].state = "pending" /\ rows[i].conv = at[r]
  <2>1. /\ own[r] \in DOMAIN rows
        /\ rows[own[r]].state = "pending" /\ rows[own[r]].conv = at[r]
    BY DEF SendCommit, Goto, OpenTx, IInv, RowInv, OwnsARow
  <2>. QED
    BY <1>1, <2>1, RowNumbers, SizesAssumption DEF IInv
<1> DEFINE S == {i}
<1>3. rows' = SetState(S, "live")
  BY <1>2 DEF SendCommit
<1> HIDE DEF S
<1>4. /\ RowsGrow /\ DOMAIN rows' = DOMAIN rows
      /\ \A j \in DOMAIN rows : rows'[j].state = IF j \in S THEN "live" ELSE rows[j].state
  BY <1>1, <1>3, SetStateGrows DEF RowStates, Committed
<1>5. AuditState(i) = "absent"
  BY <1>1, <1>2, AuditStates DEF LogShowsRows, LogShows, Committed
<1>6. AuditState(i)' = "live"
  BY <1>2, <1>4, AuditStatesNext DEF LogShowsRows, LogShows, S
<1>7. \A j \in (1 .. MaxRows) \ {i} : AuditState(j)' = AuditState(j)
  BY <1>1, <1>4, LogKeepsOthers DEF S
<1>8. rows'[i].conv = at[r]
  BY <1>2, <1>4 DEF RowsGrow
<1>. QED
  BY <1>1, <1>4, <1>5, <1>6, <1>7, <1>8, PostedIsPosted DEF Posted

\* A stored reply is posted.
LEMMA InsertPosts ==
  ASSUME IInv, TypeOK', NEW r \in Requests, InsertReply(r)
  PROVE  \E i \in 1 .. MaxRows, c \in Convs : Audit!Post(i, c)
<1>1. TypeOK /\ at[r] \in Convs
  BY DEF IInv, RowInv, TypeOK
<1>2. PICK x \in RowType : /\ rows' = Append(rows, x)
                           /\ x.state = "live" /\ x.conv = at[r]
  <2>1. Row(at[r], "assistant", parent[r], r, "live", kept[r]) \in RowType
    BY <1>1, RowTyped DEF TypeOK, RowStates
  <2>. QED
    BY <2>1 DEF InsertReply, Row
<1>3. PICK i \in 1 .. MaxRows : i = Len(rows) + 1
  BY <1>1, RowNumbers, SizesAssumption DEF InsertReply
<1>4. /\ RowsGrow /\ DOMAIN rows' = DOMAIN rows \cup {i} /\ rows'[i] = x
      /\ \A j \in DOMAIN rows : rows'[j] = rows[j] /\ j # i
  BY <1>1, <1>2, <1>3, AppendGrows
<1>5. AuditState(i) = "absent"
  BY <1>4 DEF AuditState
<1>6. AuditState(i)' = "live"
  BY <1>2, <1>4, AuditStatesNext DEF LogShowsRows, LogShows
<1>7. \A j \in (1 .. MaxRows) \ {i} : AuditState(j)' = AuditState(j)
  BY <1>1, <1>4, LogKeepsOthers
<1>8. Audit!Post(i, rows'[i].conv)
  BY <1>1, <1>4, <1>5, <1>6, <1>7, PostedIsPosted DEF Posted
<1>. QED
  BY <1>1, <1>2, <1>4, <1>8

\* The commit of an edit writes the variant and hides what came after the
\* edited turn, in one step.
LEMMA EditCommitForks ==
  ASSUME IInv, TypeOK', NEW r \in Requests, EditCommit(r)
  PROVE  \E i, t \in 1 .. MaxRows, c \in Convs : Audit!Fork(i, t, c)
<1>1. TypeOK /\ pc[r] = "edittx" /\ rows' = CommitFork(r)
  BY DEF IInv, RowInv, EditCommit, Goto
<1>2. DOMAIN rows \subseteq 1 .. MaxRows
  BY <1>1, RowNumbers, SizesAssumption DEF IInv
<1>3. PICK i \in 1 .. MaxRows, t \in 1 .. MaxRows, c \in Convs :
        /\ i = own[r] /\ t = parent[r] /\ c = at[r]
        /\ i \in DOMAIN rows /\ rows[i].state = "pending" /\ rows[i].conv = c
        /\ rows[i].parent = t /\ t < i /\ UserTurn(t, c) /\ convs[c] = "live"
  <2>1. OwnsARow(r) /\ CallHasTurn(r) /\ at[r] \in Convs
    BY <1>1 DEF IInv, RowInv, TypeOK
  <2>2. /\ own[r] \in DOMAIN rows /\ rows[own[r]].state = "pending"
        /\ rows[own[r]].conv = at[r] /\ rows[own[r]].parent = parent[r]
        /\ parent[r] < own[r] /\ UserTurn(parent[r], at[r]) /\ convs[at[r]] = "live"
    BY <1>1, <2>1 DEF OwnsARow, CallHasTurn, OpenTx
  <2>3. parent[r] \in DOMAIN rows
    BY <2>2 DEF UserTurn
  <2>. QED
    BY <1>2, <2>1, <2>2, <2>3
<1>4. PICK V : V = victims[r]
  OBVIOUS
<1>5. \A j \in V : /\ j \in DOMAIN rows /\ j > t /\ rows[j].conv = c
                   /\ rows[j].state \in {"live", "deleted"}
  <2>1. \A j \in V : /\ j \in DOMAIN rows /\ j > t /\ rows[j].conv = c
                     /\ rows[j].state \in Committed
    BY <1>1, <1>3, <1>4 DEF IInv, RowInv, VictimsDownstream
  <2>. QED
    BY <2>1, <1>3 DEF IInv, RowInv, RowsFollowConversation, Committed
<1>6. /\ RowsGrow /\ DOMAIN rows' = DOMAIN rows
      /\ \A j \in DOMAIN rows :
           rows'[j].state = IF j \in V THEN "deleted"
                            ELSE IF j = i THEN "live" ELSE rows[j].state
  BY <1>1, <1>3, <1>4, CommitForkGrows
<1>7. AuditState(i) = "absent" /\ AuditState(i)' = "live"
  <2>1. AuditState(i) = "absent"
    BY <1>1, <1>3, AuditStates DEF LogShowsRows, LogShows, Committed
  <2>2. rows'[i].state = "live"
    BY <1>3, <1>5, <1>6
  <2>. QED
    BY <1>3, <1>6, <2>1, <2>2, AuditStatesNext DEF LogShowsRows, LogShows
<1>8. ASSUME NEW j \in (1 .. MaxRows) \ {i}
      PROVE  \/ AuditState(j)' = AuditState(j)
             \/ j \in V /\ AuditState(j) = "live" /\ AuditState(j)' = "hidden"
  <2>1. CASE j \notin V
    BY <1>1, <1>6, <2>1, LogKeepsOthers
  <2>2. CASE j \in V
    <3>1. AuditState(j) \in {"live", "hidden"}
      BY <1>1, <1>5, <2>2, AuditStates DEF LogShowsRows, LogShows
    <3>2. AuditState(j)' = "hidden"
      BY <1>5, <1>6, <2>2, AuditStatesNext DEF LogShowsRows, LogShows
    <3>. QED
      BY <2>2, <3>1, <3>2
  <2>. QED
    BY <2>1, <2>2
<1>9. ASSUME NEW j \in 1 .. MaxRows, j \in V \/ j = t
      PROVE  \E e \in Entry(j) : e.home = c
  <2>1. j \in DOMAIN rows /\ rows[j].state \in Committed /\ rows[j].conv = c
    BY <1>3, <1>5, <1>9 DEF UserTurn, Committed
  <2>2. AuditState(j) # "absent"
    BY <1>1, <2>1, AuditStates DEF LogShowsRows, LogShows
  <2>. QED
    BY <2>1, <2>2 DEF Entry
<1>10. rows'[i].conv = c /\ rows'[i].parent = t
  BY <1>3, <1>6 DEF RowsGrow
<1>11. Audit!Write(i, c)
  <2>1. \A j \in (1 .. MaxRows) \ {i} : AuditState(j) = "absent" => AuditState(j)' = "absent"
    BY <1>8
  <2>2. Audit!Write(i, rows'[i].conv)
    BY <1>1, <1>6, <1>7, <2>1, PostedIsWritten
  <2>. QED
    BY <1>10, <2>2 DEF Audit!Write
<1>12. \E e \in Entry(i)' : e.parent = t
  BY <1>7, <1>10 DEF Entry
<1>13. \A j \in 1 .. MaxRows : AuditState(j)' \in {"absent", "live", "hidden", "erased"}
  BY AuditStatesNext DEF LogShowsRows, LogShows
<1>14. Audit!In(t, c) /\ \A j \in V : j \in 1 .. MaxRows => Audit!In(j, c)
  BY <1>9 DEF Audit!In, Entry
<1>. QED
  BY <1>3, <1>5, <1>7, <1>8, <1>11, <1>12, <1>13, <1>14 DEF Audit!Fork, Entry

\* A deletion erases the conversation's entries, all of them.
LEMMA DeleteErases ==
  ASSUME IInv, TypeOK', NEW c \in Convs, DeleteConversation(c)
  PROVE  Audit!Erase(c) \/ UNCHANGED Audit!log
<1>1. TypeOK /\ convs[c] = "live"
  BY DEF IInv, RowInv, DeleteConversation
<1>2. PICK S : S = {i \in DOMAIN rows : rows[i].conv = c
                                          /\ rows[i].state \in {"live", "deleted"}}
  OBVIOUS
<1>3. rows' = SetState(S, "erased")
  BY <1>2 DEF DeleteConversation
<1>4. /\ RowsGrow /\ DOMAIN rows' = DOMAIN rows
      /\ \A i \in DOMAIN rows : rows'[i].state = IF i \in S THEN "erased" ELSE rows[i].state
  BY <1>1, <1>3, SetStateGrows DEF RowStates, Committed
<1>5. \A i \in 1 .. MaxRows : i \in S <=> \E e \in Entry(i) : e.home = c
  <2> TAKE i \in 1 .. MaxRows
  <2>1. i \in DOMAIN rows /\ rows[i].state = "erased" => rows[i].conv # c
    BY <1>1 DEF IInv, RowInv, RowsFollowConversation
  <2>2. AuditState(i) # "absent" <=> i \in DOMAIN rows /\ rows[i].state \in Committed
    BY <1>1, AuditStates DEF LogShowsRows, LogShows
  <2>3. (\E e \in Entry(i) : e.home = c) <=> AuditState(i) # "absent" /\ rows[i].conv = c
    <3>1. CASE AuditState(i) = "absent"
      BY <3>1 DEF Entry
    <3>2. CASE AuditState(i) # "absent"
      <4>1. Entry(i) = {[home |-> rows[i].conv, role |-> rows[i].role,
                         parent |-> rows[i].parent, size |-> rows[i].size]}
        BY <3>2 DEF Entry
      <4>2. (\E e \in Entry(i) : e.home = c) <=> rows[i].conv = c
        BY <4>1
      <4>. QED
        BY <3>2, <4>2
    <3>. QED
      BY <3>1, <3>2
  <2>. QED
    BY <1>2, <2>1, <2>2, <2>3 DEF Committed
<1>6. \A i \in 1 .. MaxRows : i \in S => AuditState(i) # "absent" /\ AuditState(i)' = "erased"
  <2>1. \A i \in 1 .. MaxRows : i \in S => AuditState(i) # "absent"
    BY <1>1, <1>2, AuditStates DEF LogShowsRows, LogShows, Committed
  <2>. QED
    BY <2>1, <1>2, <1>4, AuditStatesNext DEF LogShowsRows, LogShows
<1>7. \A i \in 1 .. MaxRows : i \notin S => AuditState(i)' = AuditState(i)
  BY <1>1, <1>4, LogKeepsOthers
<1>8. \A i \in 1 .. MaxRows : Entry(i)' = Entry(i)
  BY <1>1, <1>4, <1>6, <1>7, EntryStays DEF Entry
<1>9. CASE S = {}
  BY <1>1, <1>4, <1>7, <1>9, LogStutters
<1>10. CASE S # {}
  <2>1. \E i \in 1 .. MaxRows : i \in S
    BY <1>1, <1>2, <1>10, RowNumbers, SizesAssumption DEF IInv
  <2>2. \A i \in 1 .. MaxRows : Audit!In(i, c) <=> i \in S
    BY <1>5 DEF Audit!In, Entry
  <2>. QED
    BY <1>6, <1>7, <1>8, <2>1, <2>2 DEF Audit!Erase, Entry
<1>. QED
  BY <1>9, <1>10

\* Every step of the chat is a step of the log, or leaves it alone.
THEOREM AuditStep == IInv /\ TypeOK' /\ [Next]_vars => [Audit!Next]_(Audit!log)
<1>. SUFFICES ASSUME IInv, TypeOK', [Next]_vars
              PROVE  Audit!Next \/ UNCHANGED Audit!log
  OBVIOUS
<1>1. TypeOK
  BY DEF IInv, RowInv
<1>2. ASSUME rows' = rows PROVE UNCHANGED Audit!log
  BY <1>1, <1>2, UnchangedLog
<1>3. CASE UNCHANGED vars
  BY <1>2, <1>3 DEF vars
<1>4. ASSUME NEW c \in Convs, CreateConversation(c) PROVE UNCHANGED Audit!log
  BY <1>2, <1>4 DEF CreateConversation
<1>5. ASSUME NEW r \in Requests, NEW i \in DOMAIN rows, RegenOpen(r, i) \/ EditCheck(r, i)
      PROVE  UNCHANGED Audit!log
  BY <1>2, <1>5 DEF RegenOpen, EditCheck
<1>6. ASSUME NEW r \in Requests,
             \/ \E n \in TokenSizes : Token(r, n)
             \/ StreamDone(r) \/ StreamFail(r) \/ Disconnect(r)
             \/ PersistSkip(r) \/ FinallyLost(r) \/ FinallySkip(r)
             \/ EditSelect(r) \/ EditConflict(r)
      PROVE  UNCHANGED Audit!log
  BY <1>2, <1>6 DEF Token, StreamDone, StreamFail, Disconnect, PersistSkip, FinallyLost,
                    FinallySkip, EditSelect, EditConflict
<1>7. ASSUME NEW r \in Requests, PersistReply(r) \/ PersistAckLost(r) \/ FinallyPersist(r)
      PROVE  InsertReply(r)
  BY <1>7 DEF PersistReply, PersistAckLost, FinallyPersist
<1>8. CASE Next
  <2>1. \/ \E i \in 1 .. MaxRows, c \in Convs : Audit!Post(i, c)
        \/ \E i, t \in 1 .. MaxRows, c \in Convs : Audit!Fork(i, t, c)
        \/ \E c \in Convs : Audit!Erase(c)
        \/ UNCHANGED Audit!log
    BY <1>4, <1>5, <1>6, <1>7, <1>8, NextCases, FlushStutters, RollbackStutters,
       SendCommitPosts, InsertPosts, EditCommitForks, DeleteErases, ZenonT(60)
  <2>. QED
    BY <2>1 DEF Audit!Next
<1>. QED
  BY <1>3, <1>8

\* The chat store implements its audit log: what was committed stays, hidden at
\* most, until its conversation is deleted.
THEOREM AuditRefinement == Spec => AuditSpec
<1>1. IInv => TypeOK
  BY DEF IInv, RowInv
<1>. QED
  BY <1>1, EmptyLog, AuditStep, Invariant, PTL DEF Spec, AuditSpec, Audit!Spec

(***************************************************************************)
(* What a reader of a conversation sees: _canonical_messages on every      *)
(* table the chat can reach.  The chain roots of the transcript are a      *)
(* recursive function, so the first half shows that it is well defined.    *)
(***************************************************************************)
LEMMA LeastNat ==
  ASSUME NEW T \in SUBSET Nat, T # {}
  PROVE  \E x \in T : \A y \in T : x <= y
<1>1. IsWellFoundedOn(OpToRel(<, Nat), Nat)
  BY NatLessThanWellFounded
<1>2. PICK x \in T : \A y \in T : ~ (<<y, x>> \in OpToRel(<, Nat))
  BY <1>1, WFMin
<1>3. \A y \in T : ~ (y < x)
  BY <1>2 DEF OpToRel
<1>. QED
  BY <1>3

\* Largest is the maximum of a set of row numbers.
LEMMA LargestIsMax ==
  ASSUME NEW n \in Nat, NEW S \in SUBSET (1 .. n), S # {}
  PROVE  Largest(S) \in S /\ \A j \in S : j <= Largest(S)
<1> DEFINE Above == {k \in Nat : \A j \in S : j <= k}
<1>1. n \in Above
  OBVIOUS
<1>2. PICK k \in Above : \A y \in Above : k <= y
  BY <1>1, LeastNat
<1>3. k \in S
  <2>1. PICK m \in S : TRUE
    OBVIOUS
  <2>2. k >= 1 /\ k - 1 \in Nat
    BY <2>1
  <2>3. k - 1 \notin Above
    BY <1>2, <2>2
  <2>. QED
    BY <2>2, <2>3
<1>4. \E i \in S : \A j \in S : j <= i
  BY <1>3
<1>. QED
  BY <1>4 DEF Largest

\* Climbing from a number to smaller ones of a finite set ends: the function
\* that takes every member to the top of its chain exists.
Climbs(g, S, p, n) ==
  \A i \in S : i < n => g[i] = IF p[i] \in S /\ p[i] < i THEN g[p[i]] ELSE i

LEMMA RootsUpTo ==
  ASSUME NEW S \in SUBSET Nat, NEW p, NEW n \in Nat
  PROVE  \E g \in [S -> S] : Climbs(g, S, p, n)
<1> DEFINE Bad == {m \in Nat : ~ \E g \in [S -> S] : Climbs(g, S, p, m)}
<1>1. SUFFICES ASSUME Bad # {} PROVE FALSE
  OBVIOUS
<1>2. PICK m \in Bad : \A k \in Bad : m <= k
  BY <1>1, LeastNat
<1>3. m # 0
  <2>1. [i \in S |-> i] \in [S -> S]
    OBVIOUS
  <2>2. Climbs([i \in S |-> i], S, p, 0)
    BY DEF Climbs
  <2>. QED
    BY <2>1, <2>2
<1>4. m - 1 \in Nat /\ m - 1 \notin Bad
  BY <1>2, <1>3
<1>5. PICK g \in [S -> S] : Climbs(g, S, p, m - 1)
  BY <1>4
<1> DEFINE h == [i \in S |-> IF i # m - 1 THEN g[i]
                             ELSE IF p[i] \in S /\ p[i] < i THEN g[p[i]] ELSE i]
<1>6. h \in [S -> S]
  OBVIOUS
<1>7. ASSUME NEW i \in S, i < m
      PROVE  h[i] = IF p[i] \in S /\ p[i] < i THEN h[p[i]] ELSE i
  <2>1. p[i] \in S /\ p[i] < i => h[p[i]] = g[p[i]]
    <3>1. \A j \in S : j # m - 1 => h[j] = g[j]
      OBVIOUS
    <3>2. \A j \in S : j < i => j # m - 1
      BY <1>4, <1>7
    <3> HIDE DEF h
    <3>. QED
      BY <3>1, <3>2
  <2>2. CASE i = m - 1
    BY <2>1, <2>2
  <2>3. CASE i # m - 1
    <3>1. i < m - 1 /\ h[i] = g[i]
      BY <1>4, <1>7, <2>3
    <3>2. g[i] = IF p[i] \in S /\ p[i] < i THEN g[p[i]] ELSE i
      BY <1>5, <3>1 DEF Climbs
    <3>. QED
      BY <2>1, <3>1, <3>2
  <2>. QED
    BY <2>2, <2>3
<1>8. Climbs(h, S, p, m)
  <2> HIDE DEF h
  <2>. QED
    BY <1>7 DEF Climbs
<1>. QED
  BY <1>6, <1>8

Live(c) == LiveUsers(rows, c)

\* A chain root: the root of its parent, or itself.
Rooted(root, c) ==
  \A i \in Live(c) :
    root[i] = IF rows[i].parent \in Live(c) /\ rows[i].parent < i
                THEN root[rows[i].parent] ELSE i

LEMMA ChainRoots ==
  ASSUME TypeOK, NEW c \in Convs
  PROVE  Rooted(ChainRoot(rows, c), c)
<1> DEFINE S == Live(c)
           p == [i \in S |-> rows[i].parent]
           Def(g) == [i \in S |-> IF rows[i].parent \in S /\ rows[i].parent < i
                                    THEN g[rows[i].parent] ELSE i]
<1>1. S \subseteq 1 .. Len(rows) /\ Len(rows) \in Nat
  BY RowNumbers DEF Live, LiveUsers, LiveRows
<1>2. PICK g \in [S -> S] : Climbs(g, S, p, Len(rows) + 1)
  <2>1. S \in SUBSET Nat /\ Len(rows) + 1 \in Nat
    BY <1>1
  <2> HIDE DEF S, p
  <2>. QED
    BY <2>1, RootsUpTo
<1>3. \A i \in S : i < Len(rows) + 1 /\ p[i] = rows[i].parent
  BY <1>1
<1>4. \A i \in S : g[i] = Def(g)[i]
  BY <1>2, <1>3 DEF Climbs
<1>5. g = Def(g)
  <2> HIDE DEF S
  <2>. QED
    BY <1>4
<1>6. ChainRoot(rows, c) = CHOOSE f : f = Def(f)
  BY DEF ChainRoot, Live
<1>7. ChainRoot(rows, c) = Def(ChainRoot(rows, c))
  <2> HIDE DEF Def
  <2>. QED
    BY <1>5, <1>6
<1>. QED
  BY <1>7 DEF Rooted


(***************************************************************************)
(* The parts of a transcript, as GET /conversations/{id} reads them.       *)
(***************************************************************************)
Page(c) == ListMessages(rows, c, MessageLimit)
Turns(c) == {i \in Page(c) : rows[i].role = "user"}
Chains(c) == UserSiblingMap(rows, c, Turns(c))
Kept(c) == Turns(c) \ Dropped(Chains(c))
Chain(c, u) == {v \in Live(c) : ChainRoot(rows, c)[v] = ChainRoot(rows, c)[u]}

LEMMA PageRows ==
  ASSUME TypeOK, NEW c \in Convs
  PROVE  /\ Page(c) \subseteq LiveRows(rows, c)
         /\ LiveRows(rows, c) \subseteq 1 .. Len(rows) /\ Len(rows) \in Nat
         /\ Turns(c) = Page(c) \cap Live(c)
  BY RowNumbers DEF Page, ListMessages, LiveRows, Turns, Live, LiveUsers

\* The page is the newest part of the conversation.
LEMMA NewerOnPage ==
  ASSUME TypeOK, NEW c \in Convs, NEW u \in Page(c),
         NEW v \in LiveRows(rows, c), v >= u
  PROVE  v \in Page(c)
<1> DEFINE After(i) == {j \in LiveRows(rows, c) : j > i}
<1>1. LiveRows(rows, c) \subseteq 1 .. Len(rows) /\ Len(rows) \in Nat
      /\ u \in LiveRows(rows, c) /\ Cardinality(After(u)) < MessageLimit
  BY PageRows DEF Page, ListMessages
<1>2. After(v) \subseteq After(u)
  BY <1>1
<1>3. IsFiniteSet(After(u))
  <2>1. After(u) \subseteq 1 .. Len(rows) /\ IsFiniteSet(1 .. Len(rows))
    BY <1>1, FS_Interval
  <2> HIDE DEF After
  <2>. QED
    BY <2>1, FS_Subset
<1>4. /\ Cardinality(After(v)) <= Cardinality(After(u))
      /\ Cardinality(After(u)) \in Nat /\ Cardinality(After(v)) \in Nat
  BY <1>2, <1>3, FS_Subset, FS_CardinalityType
<1>5. Cardinality(After(v)) < MessageLimit
  <2> HIDE DEF After
  <2>. QED
    BY <1>1, <1>4, SizesAssumption
<1>. QED
  BY <1>5 DEF Page, ListMessages

LEMMA ChainsOfTurns ==
  ASSUME TypeOK, NEW c \in Convs
  PROVE  /\ DOMAIN Chains(c) = Turns(c)
         /\ \A u \in Turns(c) : Chains(c)[u] = Chain(c, u)
         /\ \A u \in Turns(c) : u \in Chain(c, u)
         /\ \A u \in Live(c) : Chain(c, u) \subseteq 1 .. Len(rows)
  BY PageRows DEF Chains, UserSiblingMap, Chain, Live, LiveUsers

\* A turn is kept iff it is the newest of its chain.
LEMMA KeptIsNewest ==
  ASSUME TypeOK, NEW c \in Convs, NEW u \in Turns(c)
  PROVE  u \in Kept(c) <=> u = Largest(Chain(c, u))
<1>1. u \notin Kept(c) <=>
        \E w \in Turns(c) : u \in Chain(c, w) /\ u # Largest(Chain(c, w))
  BY ChainsOfTurns DEF Kept, Dropped
<1>2. \A w \in Turns(c) : u \in Chain(c, w) => Chain(c, w) = Chain(c, u)
  BY DEF Chain
<1>. QED
  BY <1>1, <1>2, ChainsOfTurns

\* What is shown: the kept turns, the newest reply of each of them, and the
\* replies whose turn is not on the page.
LEMMA ShownRows ==
  ASSUME TypeOK, NEW c \in Convs
  PROVE  /\ Shown(c) \cap Live(c) = Kept(c)
         /\ Shown(c) \subseteq Page(c)
         /\ \A i \in Page(c) : rows[i].role = "assistant" =>
              (i \in Shown(c) <=>
                 \/ rows[i].parent \notin Turns(c)
                 \/ rows[i].parent \in Kept(c) /\ i = Largest(Replies(rows, rows[i].parent)))
<1> DEFINE answers == SiblingMap(rows, Turns(c))
           anchored == {Largest(answers[u]) : u \in Kept(c) \cap DOMAIN answers} \cap Page(c)
           loose == {i \in Page(c) : rows[i].role = "assistant"
                                       /\ rows[i].parent \notin DOMAIN answers}
<1>1. {i \in Page(c) : rows[i].role = "user" /\ i \notin Dropped(Chains(c))} = Kept(c)
  BY DEF Kept, Turns
<1>2. Shown(c) = CanonicalMessages(rows, Page(c), answers, Chains(c))
  BY DEF Shown, Transcript, Page, Turns, Chains
<1>3. Shown(c) = Kept(c) \cup anchored \cup loose
  BY <1>1, <1>2 DEF CanonicalMessages
<1>4. Page(c) \subseteq LiveRows(rows, c) /\ LiveRows(rows, c) \subseteq 1 .. Len(rows)
      /\ Len(rows) \in Nat /\ Turns(c) = Page(c) \cap Live(c)
  BY PageRows
<1>5. \A i \in Page(c) : rows[i].role = "assistant" => i \in Replies(rows, rows[i].parent)
  BY <1>4 DEF Replies, LiveRows
<1>6. /\ DOMAIN answers = {u \in Turns(c) : Replies(rows, u) # {}}
      /\ \A u \in DOMAIN answers : answers[u] = Replies(rows, u)
  BY DEF SiblingMap
<1>7. \A u \in Kept(c) \cap DOMAIN answers :
        LET i == Largest(answers[u]) IN
          rows[i].role = "assistant" /\ rows[i].parent = u
  <2> SUFFICES ASSUME NEW u \in Kept(c) \cap DOMAIN answers
               PROVE  Largest(answers[u]) \in Replies(rows, u)
    BY DEF Replies
  <2>1. Replies(rows, u) \subseteq 1 .. Len(rows) /\ Replies(rows, u) # {}
    BY <1>6, RowNumbers DEF Replies
  <2>. QED
    BY <2>1, <1>4, <1>6, LargestIsMax
<1> HIDE DEF answers
<1>8. \A i \in Page(c) : rows[i].role = "assistant" =>
        (i \in anchored <=> /\ rows[i].parent \in Kept(c)
                            /\ i = Largest(Replies(rows, rows[i].parent)))
  <2> SUFFICES ASSUME NEW i \in Page(c), rows[i].role = "assistant"
               PROVE  i \in anchored <=> /\ rows[i].parent \in Kept(c)
                                         /\ i = Largest(Replies(rows, rows[i].parent))
    OBVIOUS
  <2>1. Kept(c) \subseteq Turns(c)
    BY DEF Kept
  <2>2. rows[i].parent \in Kept(c) => rows[i].parent \in DOMAIN answers
    BY <2>1, <1>5, <1>6
  <2>. QED
    BY <2>2, <1>6, <1>7
<1>9. anchored \cap Live(c) = {} /\ loose \cap Live(c) = {} /\ Kept(c) \subseteq Page(c)
  <2>1. \A i \in anchored : rows[i].role = "assistant"
    BY <1>7
  <2>. QED
    BY <2>1 DEF Live, LiveUsers, Kept, Turns
<1>10. \A i \in Page(c) : rows[i].role = "assistant" =>
         (i \in loose <=> rows[i].parent \notin Turns(c))
  BY <1>5, <1>6
<1>11. \A i \in Kept(c) : i \in Live(c) /\ rows[i].role # "assistant"
  BY <1>4 DEF Kept, Live, LiveUsers
<1>12. Shown(c) \subseteq Page(c)
  BY <1>3, <1>9
<1>13. Shown(c) \cap Live(c) = Kept(c)
  <2> HIDE DEF anchored, loose
  <2>. QED
    BY <1>3, <1>9, <1>11
<1>14. ASSUME NEW i \in Page(c), rows[i].role = "assistant"
       PROVE  i \in Shown(c) <=>
                 \/ rows[i].parent \notin Turns(c)
                 \/ rows[i].parent \in Kept(c) /\ i = Largest(Replies(rows, rows[i].parent))
  <2> HIDE DEF anchored, loose
  <2>. QED
    BY <1>3, <1>8, <1>10, <1>11, <1>14
<1>. QED
  BY <1>12, <1>13, <1>14


(***************************************************************************)
(* The two properties of a transcript.                                     *)
(***************************************************************************)
\* A variant hides the turn it was edited from, and an older sibling.
LEMMA VariantsHide ==
  ASSUME TypeOK, \A i \in DOMAIN rows : VariantHasTurn(i), NEW c \in Convs,
         NEW u \in Kept(c), NEW v \in Live(c)
  PROVE  /\ rows[v].parent # u
         /\ rows[v].parent = rows[u].parent /\ rows[u].parent \in Live(c) => v <= u
<1> DEFINE root == ChainRoot(rows, c)
<1>1. /\ Live(c) \subseteq 1 .. Len(rows) /\ Len(rows) \in Nat
      /\ u \in Turns(c) /\ u \in Live(c)
  BY PageRows DEF Kept, Live, LiveUsers
<1>2. Rooted(root, c)
  BY ChainRoots
<1>3. \A w \in Live(c) : rows[w].parent \in Live(c) => rows[w].parent < w
  BY <1>1, RowNumbers DEF VariantHasTurn, Live, LiveUsers, NoRow
<1>4. \A w \in Live(c) : rows[w].parent \in Live(c) => root[w] = root[rows[w].parent]
  BY <1>2, <1>3 DEF Rooted
<1>5. \A w \in Live(c) : root[w] = root[u] => w <= u
  <2>1. u = Largest(Chain(c, u)) /\ Chain(c, u) \subseteq 1 .. Len(rows) /\ u \in Chain(c, u)
    BY <1>1, KeptIsNewest, ChainsOfTurns
  <2>2. \A w \in Chain(c, u) : w <= u
    BY <2>1, <1>1, LargestIsMax
  <2>. QED
    BY <2>2 DEF Chain
<1> HIDE DEF root
<1>6. rows[v].parent # u
  <2>1. rows[v].parent = u => u < v /\ root[v] = root[u]
    BY <1>1, <1>3, <1>4
  <2>. QED
    BY <2>1, <1>1, <1>5
<1>7. rows[v].parent = rows[u].parent /\ rows[u].parent \in Live(c) => root[v] = root[u]
  BY <1>1, <1>4
<1>. QED
  BY <1>5, <1>6, <1>7

\* Every turn on the page is shown through the newest variant of its chain.
LEMMA TurnKeepsABubble ==
  ASSUME TypeOK, NEW c \in Convs, NEW u \in Turns(c)
  PROVE  \E v \in Kept(c) : ChainRoot(rows, c)[v] = ChainRoot(rows, c)[u]
<1> DEFINE v == Largest(Chain(c, u))
<1>1. /\ Chain(c, u) \subseteq 1 .. Len(rows) /\ Len(rows) \in Nat /\ u \in Chain(c, u)
      /\ u \in Page(c)
  BY ChainsOfTurns, PageRows DEF Turns, Live
<1>2. v \in Chain(c, u) /\ u <= v
  BY <1>1, LargestIsMax
<1>3. v \in Live(c) /\ v \in LiveRows(rows, c) /\ v >= u
      /\ ChainRoot(rows, c)[v] = ChainRoot(rows, c)[u]
  BY <1>1, <1>2 DEF Chain, Live, LiveUsers
<1>4. v \in Turns(c)
  <2> HIDE DEF v
  <2>. QED
    BY <1>1, <1>3, NewerOnPage, PageRows
<1>5. Chain(c, v) = Chain(c, u)
  BY <1>3 DEF Chain
<1>6. v \in Kept(c)
  <2>1. v = Largest(Chain(c, v))
    BY <1>5
  <2> HIDE DEF v
  <2>. QED
    BY <2>1, <1>4, KeptIsNewest
<1>. QED
  BY <1>3, <1>6

LEMMA BubblePerTurn ==
  ASSUME TypeOK, \A i \in DOMAIN rows : VariantHasTurn(i)
  PROVE  OneBubblePerTurn
<1> SUFFICES ASSUME NEW c \in Convs
             PROVE  /\ \A u \in Kept(c), v \in Live(c) :
                         /\ rows[v].parent # u
                         /\ rows[v].parent = rows[u].parent /\ rows[u].parent \in Live(c)
                              => v <= u
                    /\ \A u \in Turns(c) : \E v \in Kept(c) :
                         ChainRoot(rows, c)[v] = ChainRoot(rows, c)[u]
  <2>1. \A c \in Convs : Shown(c) \cap Live(c) = Kept(c) /\ Turns(c) = Page(c) \cap Live(c)
    BY ShownRows, PageRows
  <2>. QED
    BY <2>1 DEF OneBubblePerTurn, Page, Live
<1>. QED
  BY VariantsHide, TurnKeepsABubble

\* A kept turn shows the newest of its replies, and no other.
LEMMA NewestReplyShown ==
  ASSUME TypeOK, \A i \in DOMAIN rows : ReplyHasTurn(i), NEW c \in Convs, NEW u \in Kept(c)
  PROVE  {i \in Shown(c) : rows[i].role = "assistant" /\ rows[i].parent = u}
           = IF Replies(rows, u) = {} THEN {} ELSE {Largest(Replies(rows, u))}
<1> DEFINE shown == {i \in Shown(c) : rows[i].role = "assistant" /\ rows[i].parent = u}
           m == Largest(Replies(rows, u))
<1>1. /\ u \in Page(c) /\ u \in Turns(c) /\ Shown(c) \subseteq Page(c)
      /\ Page(c) \subseteq LiveRows(rows, c)
  BY ShownRows, PageRows DEF Kept, Turns
<1>2. shown \subseteq Replies(rows, u)
  BY <1>1 DEF Replies, LiveRows
<1>3. \A i \in shown : i = m
  BY <1>1, ShownRows
<1>4. ASSUME Replies(rows, u) # {} PROVE m \in shown
  <2>1. Replies(rows, u) \subseteq 1 .. Len(rows) /\ Len(rows) \in Nat
    BY RowNumbers DEF Replies
  <2>2. m \in Replies(rows, u)
    BY <2>1, <1>4, LargestIsMax
  <2>3. m \in DOMAIN rows /\ rows[m].role = "assistant" /\ rows[m].parent = u
        /\ rows[m].state = "live"
    BY <2>2 DEF Replies
  <2>4. u < m /\ rows[u].conv = rows[m].conv
    BY <2>3 DEF ReplyHasTurn, UserTurn
  <2>5. rows[u].conv = c /\ u \in Nat /\ m \in Nat
    BY <1>1, <2>3, RowNumbers DEF LiveRows
  <2> HIDE DEF m
  <2>6. m \in LiveRows(rows, c) /\ m >= u
    <3>1. rows[m].conv = c
      BY <2>4, <2>5
    <3>2. m >= u
      BY <2>4, <2>5
    <3>3. m \in LiveRows(rows, c)
      BY <2>3, <3>1 DEF LiveRows
    <3>. QED
      BY <3>2, <3>3
  <2>7. m \in Page(c)
    BY <1>1, <2>6, NewerOnPage
  <2>. QED
    BY <2>3, <2>7, ShownRows DEF m
<1>. QED
  BY <1>2, <1>3, <1>4

\* A reply is shown without its turn only if that is older than the page, or if
\* the reply came after an edit had taken the turn.
LEMMA LooseReplies ==
  ASSUME TypeOK, RowsFollowConversation, \A i \in DOMAIN rows : ReplyHasTurn(i), EditsCut,
         NEW c \in Convs, NEW i \in Shown(c), rows[i].role = "assistant",
         rows[i].parent \notin Shown(c)
  PROVE  \/ rows[i].parent \in LiveRows(rows, c) \ Page(c)
         \/ \E e \in Requests : /\ pc[e] = "end" /\ rows[i].parent \in victims[e]
                                /\ i \notin victims[e]
<1> DEFINE p == rows[i].parent
<1>1. i \in Page(c) /\ i \in DOMAIN rows /\ i \in LiveRows(rows, c)
  BY ShownRows, PageRows, RowNumbers
<1>2. rows[i].conv = c /\ rows[i].state = "live"
  BY <1>1 DEF LiveRows
<1>3. p \in DOMAIN rows /\ rows[p].conv = c /\ rows[p].role = "user"
      /\ rows[p].state \in Committed
  BY <1>1, <1>2 DEF ReplyHasTurn, UserTurn
<1>4. p \notin Page(c)
  <2>. SUFFICES ASSUME p \in Page(c) PROVE FALSE
    OBVIOUS
  <2>1. p \in Turns(c)
    BY <1>3 DEF Turns
  <2>. QED
    BY <1>1, <2>1, ShownRows
<1>5. rows[p].state # "erased"
  BY <1>1, <1>2, <1>3 DEF RowsFollowConversation
<1>6. CASE rows[p].state = "live"
  BY <1>3, <1>4, <1>6 DEF LiveRows
<1>7. CASE rows[p].state = "deleted"
  <2>1. PICK e \in Requests : pc[e] = "end" /\ p \in victims[e]
    BY <1>3, <1>7 DEF EditsCut, HiddenByAnEdit
  <2>2. i \notin victims[e]
    BY <1>2, <2>1 DEF EditsCut, SelectsAsAnEdit
  <2>. QED
    BY <2>1, <2>2
<1>. QED
  BY <1>3, <1>5, <1>6, <1>7 DEF Committed

LEMMA TranscriptInv ==
  IInv => OneBubblePerTurn /\ RepliesUnderTheirTurn
<1> SUFFICES ASSUME IInv PROVE OneBubblePerTurn /\ RepliesUnderTheirTurn
  OBVIOUS
<1>1. /\ TypeOK /\ RowsFollowConversation /\ EditsCut
      /\ \A i \in DOMAIN rows : VariantHasTurn(i) /\ ReplyHasTurn(i)
  BY DEF IInv, RowInv
<1>2. RepliesUnderTheirTurn
  <2>1. \A c \in Convs : Shown(c) \cap Live(c) = Kept(c)
    BY <1>1, ShownRows
  <2>. QED
    BY <2>1, <1>1, NewestReplyShown, LooseReplies
    DEF RepliesUnderTheirTurn, Page, Live
<1>. QED
  BY <1>1, <1>2, BubblePerTurn

\* The default transcript shows one user bubble per turn, whatever edits,
\* regenerations and deletions committed (_canonical_messages).
THEOREM OneBubble == Spec => []OneBubblePerTurn
  BY Invariant, TranscriptInv, PTL

\* A turn on show has the newest of its replies under it and no other, and a reply
\* is shown without its turn only if the turn is older than the page or an edit took
\* it before the reply was there to be taken too (_canonical_messages).
THEOREM RepliesShown == Spec => []RepliesUnderTheirTurn
  BY Invariant, TranscriptInv, PTL
=============================================================================
