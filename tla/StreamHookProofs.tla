-------------------------- MODULE StreamHookProofs --------------------------
(***************************************************************************)
(* The invariant of useStream (StreamInvariant) holds of every hook,       *)
(* whatever the network, the frames and the student do, and what follows   *)
(* from it: one stream at a time, tokens in their own bubble, none lost.   *)
(***************************************************************************)
EXTENDS StreamInvariant, FiniteSetTheorems, SequenceTheorems, WellFoundedInduction, TLAPS

(***************************************************************************)
(* Calls.  A step moves one call; the fields it was made with stay.        *)
(***************************************************************************)
Moves(r, to) ==
  /\ DOMAIN run' = Runs /\ \A q \in Runs \ {r} : run'[q] = run[q]
  /\ DOMAIN run'[r] = DOMAIN Idle
  /\ run'[r].pc = to /\ to \in PcStates \ {"idle"}
  /\ run'[r].op = run[r].op /\ run'[r].target = run[r].target /\ run'[r].row = run[r].row
  /\ run'[r].conv = run[r].conv /\ run'[r].text = run[r].text
  /\ run'[r].cut \in BOOLEAN

\* ... and carries no token, and opens nothing.
Goes(r, to) ==
  Moves(r, to) /\ run'[r].tokens = run[r].tokens /\ run'[r].opened = run[r].opened

LEMMA Typed ==
  ASSUME HookTypeOK
  PROVE  /\ messages \in Seq(Message) /\ Len(messages) \in Nat
         /\ DOMAIN messages = 1 .. Len(messages)
         /\ \A i \in DOMAIN messages : messages[i] \in Message /\ messages[i].body \in Seq(Nat)
         /\ buffer \in Seq(Nat) /\ Runs \subseteq Nat /\ 0 \notin Runs
<1>1. Runs \subseteq Nat /\ 0 \notin Runs
  BY BoundsAssumption DEF Runs
<1>2. buffer \in Seq(Nat)
  BY <1>1, SeqMonotonic DEF HookTypeOK
<1>3. messages \in Seq(Message)
  BY DEF HookTypeOK
<1>4. /\ Len(messages) \in Nat /\ DOMAIN messages = 1 .. Len(messages)
      /\ \A i \in DOMAIN messages : messages[i] \in Message
  BY <1>3
<1>5. \A m \in Message : m.body \in Seq(Nat)
  BY DEF Message
<1>. QED
  BY <1>1, <1>2, <1>3, <1>4, <1>5

LEMMA StepGoes ==
  ASSUME HookTypeOK, NEW r \in Runs, NEW from, NEW to \in PcStates \ {"idle"}, Step(r, from, to)
  PROVE  Goes(r, to) /\ run[r].pc = from
  BY DEF HookTypeOK, Step, Goes, Moves, Idle

LEMMA FinallyGoes ==
  ASSUME HookTypeOK, NEW r \in Runs, NEW to \in {"ended", "failed"}, Finally(r, to)
  PROVE  Goes(r, to)
  BY DEF HookTypeOK, Finally, Goes, Moves, Idle, PcStates

LEMMA FirstEventMoves ==
  ASSUME HookTypeOK, NEW r \in Runs, FirstEvent(r)
  PROVE  Moves(r, "reading") /\ run'[r].tokens = run[r].tokens /\ run'[r].opened = TRUE
  BY DEF HookTypeOK, FirstEvent, Moves, Idle, PcStates, Live

LEMMA ChunkMoves ==
  ASSUME HookTypeOK, NEW r \in Runs, Chunk(r)
  PROVE  /\ Moves(r, "reading") /\ run'[r].opened = run[r].opened
         /\ run'[r].tokens = run[r].tokens + 1 /\ run'[r].tokens \in 0 .. MaxTokens
<1>1. run' = [run EXCEPT ![r].tokens = @ + 1] /\ run[r].pc = "reading"
      /\ run[r].tokens < MaxTokens
  BY DEF Chunk
<1>2. run[r].tokens \in 0 .. MaxTokens /\ DOMAIN run = Runs /\ DOMAIN run[r] = DOMAIN Idle
      /\ run[r].cut \in BOOLEAN
  BY DEF HookTypeOK
<1>3. run[r].tokens + 1 \in 0 .. MaxTokens
  BY <1>1, <1>2, BoundsAssumption
<1>4. run'[r].tokens = run[r].tokens + 1
  BY <1>1, <1>2 DEF Idle
<1>. QED
  BY <1>1, <1>2, <1>3, <1>4 DEF Moves, Idle, PcStates, Live

LEMMA DoneGoes ==
  ASSUME HookTypeOK, NEW r \in Runs, NEW truncated \in BOOLEAN, Done(r, truncated)
  PROVE  Goes(r, "done")
  BY DEF HookTypeOK, Done, Goes, Moves, Idle, PcStates, Live

LEMMA CancelGoes ==
  ASSUME HookTypeOK, Cancel, NEW r \in Runs, controller = r, run[r].pc \in Live
  PROVE  Goes(r, IF run[r].pc = "refused" THEN "body aborted" ELSE "aborted")
<1> DEFINE to == IF run[r].pc = "refused" THEN "body aborted" ELSE "aborted"
<1>1. controller # NoRun
  BY DEF NoRun, Runs
<1>2. run' = [run EXCEPT ![r].pc = to]
  BY <1>1 DEF Cancel
<1>3. to \in PcStates \ {"idle"}
  BY DEF PcStates
<1> HIDE DEF to
<1>4. Goes(r, to)
  BY <1>2, <1>3 DEF HookTypeOK, Goes, Moves, Idle
<1>. QED
  BY <1>4 DEF to

LEMMA OwnerIsAlone ==
  ASSUME OneOwner, NEW r \in Runs, Busy(r)
  PROVE  \A q \in Runs : Busy(q) => q = r
  BY DEF OneOwner, OneStreamAtATime, Busy

(***************************************************************************)
(* The calls between two steps: a stream goes on, ends, or is begun.       *)
(***************************************************************************)
Clears ==
  /\ isStreaming' = FALSE /\ buffer' = <<>> /\ raf' = NoRun
  /\ controller' = NoRun /\ current' = NoId /\ flushNow' = NoRun

LEMMA StreamGoesOn ==
  ASSUME CallInv, NEW r \in Runs, run[r].pc \in Live, NEW to \in Live, Moves(r, to),
         UNCHANGED <<isStreaming, flushNow, current, controller>>,
         buffer' = <<>> \/ (to = "reading" /\ Range(buffer') \subseteq {r}),
         raf' \in {raf, NoRun, r},
         to = "refused" => run[r].op = "send",
         \/ conversationId' # NoConv
         \/ /\ conversationId' = conversationId
            /\ run'[r].opened = run[r].opened \/ run[r].op = "continue"
  PROVE  CallInv'
<1>1. Busy(r) /\ run[r].pc # "idle" /\ run[r].op # "none" /\ run'[r].pc = to /\ to # "idle"
  BY DEF Busy, CallInv, CallShape, Live, Moves
<1>2. \A q \in Runs : Busy(q) => q = r
  BY <1>1, OwnerIsAlone DEF CallInv
<1>3. \A q \in Runs \ {r} : run'[q] = run[q] /\ ~Busy(q)
  BY <1>2 DEF Moves
<1>4. Range(<<>>) = {}
  BY DEF Range
<1>5. OneOwner'
  <2>1. isStreaming /\ controller = r /\ flushNow = r /\ raf \in {NoRun, r}
    BY <1>1 DEF CallInv, OneOwner, OneStreamAtATime, Busy
  <2>2. \A q \in Runs : run'[q].pc \in Live \cup {"aborted", "body aborted"} => q = r
    BY <1>3 DEF Busy
  <2>3. OneStreamAtATime'
    BY <1>1, <1>4, <2>1, <2>2 DEF OneStreamAtATime
  <2>. QED
    BY <1>1, <2>1, <2>2, <2>3 DEF OneOwner, Busy
<1>6. CallsInOrder'
  BY <1>1, <1>3 DEF CallInv, CallsInOrder, Busy
<1>7. KeepsConversation'
  <2>1. \A q \in Runs : q > r => run[q].pc = "idle"
    BY <1>1 DEF CallInv, CallsInOrder
  <2>2. \A q \in Runs : /\ run'[q].op = run[q].op /\ run'[q].conv = run[q].conv
                        /\ run'[q].pc # "idle" <=> run[q].pc # "idle"
    BY <1>1, <1>3 DEF Moves
  <2>3. NoSecondConversation'
    BY <1>1, <1>3, <2>1, <2>2 DEF NoSecondConversation, CallInv, KeepsConversation, Runs
  <2>4. \A q \in Runs : run'[q].op = "send" /\ run'[q].opened => conversationId' # NoConv
    BY <1>3, <2>2 DEF CallInv, KeepsConversation
  <2>. QED
    BY <2>3, <2>4 DEF KeepsConversation
<1>8. ASSUME NEW q \in Runs PROVE CallShape(q)'
  <2>1. CallShape(q) /\ \A p \in Runs : run'[p].op = run[p].op
    BY <1>3 DEF CallInv, Moves
  <2>2. CASE q = r
    BY <1>1, <2>1, <2>2 DEF CallShape, Moves, Live
  <2>3. CASE q # r
    BY <1>3, <2>1, <2>3 DEF CallShape
  <2>. QED
    BY <2>2, <2>3
<1>. QED
  BY <1>5, <1>6, <1>7, <1>8 DEF CallInv

LEMMA StreamIsOver ==
  ASSUME CallInv, NEW r \in Runs, Busy(r), NEW to \in {"ended", "failed"}, Goes(r, to),
         Clears, UNCHANGED conversationId
  PROVE  CallInv'
<1>1. run[r].pc # "idle" /\ run[r].op # "none" /\ run'[r].pc = to /\ to # "idle"
  BY DEF Busy, CallInv, CallShape, Live, Moves, Goes
<1>2. \A q \in Runs \ {r} : run'[q] = run[q] /\ ~Busy(q)
  BY OwnerIsAlone DEF Moves, Goes, CallInv
<1>3. \A q \in Runs : run'[q].pc \notin Live \cup {"aborted", "body aborted"}
  BY <1>1, <1>2 DEF Busy, Live
<1>4. OneOwner'
  BY <1>3 DEF OneOwner, OneStreamAtATime, Clears, Busy
<1>5. \A q \in Runs : /\ run'[q].op = run[q].op /\ run'[q].conv = run[q].conv
                      /\ run'[q].pc # "idle" <=> run[q].pc # "idle"
                      /\ run'[q].opened = run[q].opened
  BY <1>1, <1>2 DEF Moves, Goes
<1>6. CallsInOrder'
  BY <1>3, <1>5 DEF CallInv, CallsInOrder, Busy
<1>7. KeepsConversation'
  BY <1>5 DEF CallInv, KeepsConversation, NoSecondConversation
<1>8. ASSUME NEW q \in Runs PROVE CallShape(q)'
  <2>1. CallShape(q)
    BY DEF CallInv
  <2>2. CASE q = r
    BY ZenonT(60), <1>1, <1>5, <2>1, <2>2 DEF CallShape, Moves, Goes
  <2>3. CASE q # r
    BY <1>2, <1>5, <2>1, <2>3 DEF CallShape
  <2>. QED
    BY <2>2, <2>3
<1>. QED
  BY <1>4, <1>6, <1>7, <1>8 DEF CallInv, Clears


LEMMA CancelKeepsCalls ==
  ASSUME HookTypeOK, CallInv, Cancel
  PROVE  /\ CallInv' /\ buffer' = <<>> /\ raf' = NoRun
         /\ \E r \in Runs : /\ run[r].pc \in Live /\ flushNow = r
                            /\ \E to \in {"aborted", "body aborted"} : Goes(r, to)
<1>1. PICK r \in Runs : run[r].pc \in Live
  BY DEF CallInv, OneOwner, Cancel
<1> DEFINE to == IF run[r].pc = "refused" THEN "body aborted" ELSE "aborted"
<1>2. Busy(r) /\ controller = r /\ flushNow = r /\ flushNow # NoRun
  <2>1. Busy(r)
    BY <1>1 DEF Busy
  <2>2. r # NoRun
    BY DEF Runs, NoRun
  <2>. QED
    BY <1>1, <2>1, <2>2 DEF CallInv, OneOwner, OneStreamAtATime
<1>3. Goes(r, to)
  BY <1>1, <1>2, CancelGoes
<1>4. /\ buffer' = <<>> /\ raf' = NoRun /\ isStreaming' = FALSE
      /\ UNCHANGED <<conversationId, flushNow, current, controller>>
  BY <1>2 DEF Cancel
<1>5. /\ run[r].pc # "idle" /\ run[r].op # "none" /\ run'[r].pc = to
      /\ to \in {"aborted", "body aborted"}
      /\ to = "body aborted" => run[r].op = "send"
  BY <1>1, <1>3 DEF CallInv, CallShape, Live, Moves, Goes
<1> HIDE DEF to
<1>6. \A q \in Runs \ {r} : run'[q] = run[q] /\ ~Busy(q)
  BY <1>2, <1>3, OwnerIsAlone DEF Moves, Goes, CallInv
<1>7. Pending' /\ Range(<<>>) = {}
  <2>1. Range(<<>>) = {}
    BY DEF Range
  <2>2. Pending'
    BY <1>5 DEF Pending
  <2>. QED
    BY <2>1, <2>2
<1>8. OneOwner'
  <2>1. \A q \in Runs : run'[q].pc \in Live \cup {"aborted", "body aborted"} => q = r
    BY <1>6 DEF Busy
  <2>2. to \notin Live
    BY <1>5 DEF Live
  <2>. QED
    BY <1>2, <1>4, <1>5, <1>7, <2>1, <2>2 DEF OneOwner, OneStreamAtATime, Busy
<1>9. \A q \in Runs : /\ run'[q].op = run[q].op /\ run'[q].conv = run[q].conv
                      /\ run'[q].pc # "idle" <=> run[q].pc # "idle"
                      /\ run'[q].opened = run[q].opened
  BY <1>3, <1>5, <1>6 DEF Moves, Goes
<1>10. CallsInOrder'
  BY <1>2, <1>6, <1>9 DEF CallInv, CallsInOrder, Busy
<1>11. KeepsConversation'
  BY <1>4, <1>9 DEF CallInv, KeepsConversation, NoSecondConversation
<1>12. ASSUME NEW q \in Runs PROVE CallShape(q)'
  <2>1. CallShape(q)
    BY DEF CallInv
  <2>2. CASE q = r
    BY ZenonT(60), <1>3, <1>5, <1>9, <2>1, <2>2 DEF CallShape, Moves, Goes
  <2>3. CASE q # r
    BY ZenonT(60), <1>6, <1>9, <2>1, <2>3 DEF CallShape
  <2>. QED
    BY <2>2, <2>3
<1>. QED
  BY <1>1, <1>2, <1>3, <1>4, <1>5, <1>8, <1>10, <1>11, <1>12 DEF CallInv

\* A call is made with what `call` says and the conversation the hook has.
Made(r, call) ==
  /\ Free(r)
  /\ isStreaming' = TRUE /\ error' = "none" /\ buffer' = <<>> /\ raf' = NoRun
  /\ flushNow' = r /\ controller' = r /\ conversationId' = conversationId
  /\ DOMAIN run' = Runs /\ \A q \in Runs \ {r} : run'[q] = run[q]
  /\ DOMAIN run'[r] = DOMAIN Idle
  /\ run'[r].pc = "fetching" /\ run'[r].conv = conversationId
  /\ run'[r].op = call.op /\ run'[r].target = call.target /\ run'[r].row = call.row
  /\ run'[r].text = call.text /\ run'[r].tokens = 0
  /\ run'[r].opened = FALSE /\ run'[r].cut = FALSE

LEMMA BeginMakes ==
  ASSUME HookTypeOK, NEW r \in Runs, NEW call, DOMAIN call = DOMAIN Idle,
         call.tokens = 0, call.opened = FALSE, call.cut = FALSE, Begin(r, call)
  PROVE  Made(r, call)
  BY DEF HookTypeOK, Begin, Made, Idle

LEMMA SendMakes ==
  ASSUME HookTypeOK, NEW r \in Runs, NEW text, NEW shown, SendMessage(r, text, shown)
  PROVE  /\ Made(r, [op |-> "send", target |-> BubbleId(r), row |-> RowId(r), text |-> text])
         /\ messages' = shown \o <<User(r, text), Placeholder(r)>>
         /\ lastUserMessage' = text /\ current' = BubbleId(r)
<1> DEFINE call == [Idle EXCEPT !.op = "send", !.target = BubbleId(r), !.row = RowId(r),
                                !.text = text]
<1>1. /\ DOMAIN call = DOMAIN Idle /\ call.tokens = 0 /\ call.opened = FALSE
      /\ call.cut = FALSE /\ call.op = "send" /\ call.target = BubbleId(r)
      /\ call.row = RowId(r) /\ call.text = text
  BY DEF Idle
<1>2. Begin(r, call)
  BY DEF SendMessage
<1> HIDE DEF call
<1>3. Made(r, call)
  BY <1>1, <1>2, BeginMakes
<1>. QED
  BY <1>1, <1>3 DEF Made, SendMessage

LEMMA ContinueMakes ==
  ASSUME HookTypeOK, NEW r \in Runs, NEW m, ContinueMessage(r, m)
  PROVE  /\ Made(r, [op |-> "continue", target |-> m.id, row |-> m.row, text |-> 0])
         /\ UNCHANGED <<messages, lastUserMessage, current>> /\ ~isStreaming
<1> DEFINE call == [Idle EXCEPT !.op = "continue", !.target = m.id, !.row = m.row]
<1>1. /\ DOMAIN call = DOMAIN Idle /\ call.tokens = 0 /\ call.opened = FALSE
      /\ call.cut = FALSE /\ call.op = "continue" /\ call.target = m.id
      /\ call.row = m.row /\ call.text = 0
  BY DEF Idle
<1>2. Begin(r, call)
  BY DEF ContinueMessage
<1> HIDE DEF call
<1>3. Made(r, call)
  BY <1>1, <1>2, BeginMakes
<1>. QED
  BY <1>1, <1>3 DEF Made, ContinueMessage

LEMMA NobodyBusy ==
  ASSUME CallInv, ~isStreaming, ~Pending
  PROVE  \A r \in Runs : ~Busy(r)
  BY DEF CallInv, OneOwner, OneStreamAtATime, Busy, Pending

LEMMA CallIsMade ==
  ASSUME CallInv, ~isStreaming, ~Pending, NEW r \in Runs, NEW call, Made(r, call),
         \/ /\ call.op = "send" /\ call.target = BubbleId(r) /\ call.row = RowId(r)
            /\ current' = BubbleId(r)
         \/ /\ call.op = "continue" /\ current' = current
            /\ \E q \in Runs : q < r /\ call.target = RowId(q)
            /\ \/ call.row = call.target
               \/ \E p \in Runs : run[p].op = "continue" /\ call.row = RowId(p)
  PROVE  CallInv'
<1>1. \A q \in Runs : ~Busy(q)
  BY NobodyBusy
<1>2. \A q \in Runs \ {r} : run'[q] = run[q]
  BY DEF Made
<1>3. /\ run[r].pc = "idle" /\ run[r].op = "none" /\ ~run[r].opened
      /\ \A q \in Runs : q < r => run[q].pc # "idle"
      /\ \A q \in Runs : q > r => run[q].pc = "idle"
  <2>1. run[r].pc = "idle" /\ CallShape(r) /\ CallsInOrder
    BY DEF CallInv, Made, Free
  <2>2. \A q \in Runs : q < r => q \in 1 .. r - 1
    BY BoundsAssumption DEF Runs
  <2>3. \A q \in Runs : q > r => r < q
    BY BoundsAssumption DEF Runs
  <2>. QED
    BY <2>1, <2>2, <2>3 DEF CallShape, Made, Free, CallsInOrder
<1>4. Range(<<>>) = {}
  BY DEF Range
<1>5. OneOwner'
  BY <1>1, <1>2, <1>4 DEF OneOwner, OneStreamAtATime, Made, Busy, Live
<1>6. CallsInOrder'
  BY ZenonT(60), <1>1, <1>2, <1>3 DEF CallInv, CallsInOrder, Made, Busy, Runs
<1>7. KeepsConversation'
  <2>1. \A q \in Runs : run'[q].op = "send" /\ run'[q].opened => conversationId' # NoConv
    BY <1>2 DEF CallInv, KeepsConversation, Made
  <2>2. NoSecondConversation'
    BY <1>2, <1>3, <2>1 DEF CallInv, KeepsConversation, NoSecondConversation, Made, Runs
  <2>. QED
    BY <2>1, <2>2 DEF KeepsConversation
<1>8. ASSUME NEW q \in Runs PROVE CallShape(q)'
  <2>1. CallShape(q) /\ \A p \in Runs : run[p].op = "continue" => run'[p].op = "continue"
    BY <1>2, <1>3 DEF CallInv
  <2>2. CASE q = r
    BY <2>1, <2>2 DEF CallShape, Made
  <2>3. CASE q # r
    BY <1>2, <2>1, <2>3 DEF CallShape
  <2>. QED
    BY <2>2, <2>3
<1>9. current' # NoId => \E q \in Runs : current' = BubbleId(q)
  BY DEF CallInv
<1>. QED
  BY <1>5, <1>6, <1>7, <1>8, <1>9 DEF CallInv


LEMMA NetworkKeepsCalls ==
  ASSUME HookTypeOK, CallInv, NEW r \in Runs, NetworkStep(r)
  PROVE  CallInv'
<1>0. run[r].pc \in Live => Busy(r)
  BY DEF Busy
<1>1. Busy(r) => Range(buffer) \subseteq {r} /\ (run[r].pc # "reading" => buffer = <<>>)
  BY DEF CallInv, OneOwner, OneStreamAtATime, Busy
<1>2. CASE Headers(r)
  <2>1. run[r].pc \in Live /\ run[r].pc # "reading" /\ Goes(r, "open")
    BY <1>2, StepGoes DEF Headers, Step, Live, PcStates
  <2>. QED
    BY <1>0, <1>1, <1>2, <2>1, StreamGoesOn DEF Headers, Goes, Live
<1>3. CASE Refused(r)
  <2>1. run[r].pc \in Live /\ Goes(r, "refused") /\ run[r].op = "send"
    BY <1>3, StepGoes DEF Refused, Step, Live, PcStates
  <2>. QED
    BY <1>3, <2>1, StreamGoesOn DEF Refused, Goes, Live
<1>4. CASE FirstEvent(r)
  <2>1. run[r].pc \in Live /\ run[r].pc # "reading" /\ Moves(r, "reading")
    BY <1>4, FirstEventMoves DEF FirstEvent, Live
  <2>2. conversationId' # NoConv \/ (conversationId' = conversationId /\ run[r].op = "continue")
    BY <1>4 DEF FirstEvent, NoConv
  <2>3. buffer' = <<>> /\ UNCHANGED <<isStreaming, flushNow, current, controller, raf>>
    BY <1>0, <1>1, <1>4, <2>1 DEF FirstEvent
  <2>. QED
    BY <2>1, <2>2, <2>3, StreamGoesOn DEF Live
<1>5. CASE Chunk(r)
  <2>1. run[r].pc \in Live /\ Moves(r, "reading") /\ run'[r].opened = run[r].opened
    BY <1>5, ChunkMoves DEF Chunk, Live
  <2>2. buffer \in Seq(Runs) /\ buffer' = Append(buffer, r) /\ Range(buffer) \subseteq {r}
    BY <1>0, <1>1, <1>5, <2>1 DEF Chunk, HookTypeOK
  <2>3. Range(buffer') \subseteq {r}
    BY <2>2 DEF Range
  <2>. QED
    BY <1>5, <2>1, <2>3, StreamGoesOn DEF Chunk, Live
<1>6. ASSUME NEW truncated \in BOOLEAN, Done(r, truncated) PROVE CallInv'
  <2>1. run[r].pc \in Live /\ Goes(r, "done")
    BY <1>6, DoneGoes DEF Done, Live
  <2>. QED
    BY <1>6, <2>1, StreamGoesOn DEF Done, Goes, Live
<1>7. CASE Meta(r)
  <2>1. run[r].pc \in Live /\ run[r].pc # "reading" /\ Goes(r, "known")
    BY <1>7, StepGoes DEF Meta, Step, Live, PcStates
  <2>. QED
    BY <1>0, <1>1, <1>7, <2>1, StreamGoesOn DEF Meta, Goes, Live
<1>8. ASSUME NEW kind, run[r].pc \in Live, Fail(r, kind) PROVE CallInv'
  BY <1>0, <1>8, FinallyGoes, StreamIsOver DEF Fail, Finally, Clears
<1>9. CASE EndOfStream(r)
  <2>1. Busy(r) /\ Finally(r, "ended") /\ UNCHANGED conversationId
    BY <1>0, <1>9 DEF EndOfStream, Live
  <2>. QED
    BY <2>1, FinallyGoes, StreamIsOver DEF Finally, Clears
<1>10. CASE RefusedBody(r)
  BY <1>8, <1>10 DEF RefusedBody, Live
<1>11. CASE ContinuationRefused(r)
  BY <1>8, <1>11 DEF ContinuationRefused, Live
<1>12. CASE NetFail(r)
  BY <1>8, <1>12 DEF NetFail, Live
<1>. QED
  BY <1>2, <1>3, <1>4, <1>5, <1>6, <1>7, <1>9, <1>10, <1>11, <1>12 DEF NetworkStep

LEMMA FrameOfTheStream ==
  ASSUME CallInv, ~Pending, Frame
  PROVE  raf \in Runs /\ run[raf].pc \in Live
<1>1. raf # NoRun /\ isStreaming
  BY DEF Frame, CallInv, OneOwner, OneStreamAtATime
<1>2. PICK r \in Runs : run[r].pc \in Live
  BY <1>1 DEF CallInv, OneOwner
<1>3. raf = r
  BY <1>1, <1>2 DEF CallInv, OneOwner, OneStreamAtATime
<1>. QED
  BY <1>2, <1>3

LEMMA FrameKeepsCalls ==
  ASSUME CallInv, ~Pending, Frame
  PROVE  CallInv'
<1>1. /\ UNCHANGED <<isStreaming, flushNow, current, controller, run, conversationId>>
      /\ buffer' = <<>> /\ raf' = NoRun
  BY DEF Frame
<1>2. Range(<<>>) = {}
  BY DEF Range
<1>3. OneOwner'
  BY <1>1, <1>2 DEF CallInv, OneOwner, OneStreamAtATime, Busy, Pending
<1>4. (CallsInOrder /\ KeepsConversation)'
  BY <1>1 DEF CallInv, CallsInOrder, Busy, KeepsConversation, NoSecondConversation
<1>5. ASSUME NEW q \in Runs PROVE CallShape(q)'
  BY ZenonT(60), <1>1 DEF CallInv, CallShape
<1>. QED
  BY <1>1, <1>3, <1>4, <1>5 DEF CallInv

LEMMA AbortKeepsCalls ==
  ASSUME HookTypeOK, CallInv, NEW r \in Runs, AbortLands(r)
  PROVE  CallInv'
<1>1. Busy(r) /\ UNCHANGED conversationId
  BY DEF AbortLands, Busy, Fail
<1>2. PICK to \in {"ended", "failed"} : Finally(r, to)
  BY DEF AbortLands, Fail
<1>3. Goes(r, to) /\ Clears
  BY <1>2, FinallyGoes DEF Finally, Clears
<1>. QED
  BY <1>1, <1>2, <1>3, StreamIsOver

LEMMA AutoContinueMakes ==
  ASSUME HookTypeOK, CallInv, MessageInv, NEW r \in Runs, AutoContinue(r)
  PROVE  LET m == messages[Len(messages)] IN
           /\ Len(messages) \in DOMAIN messages /\ m.role = "assistant"
           /\ Made(r, [op |-> "continue", target |-> m.id, row |-> m.row, text |-> 0])
           /\ UNCHANGED <<messages, lastUserMessage, current>> /\ ~isStreaming
           /\ \E q \in Runs : q < r /\ m.id = RowId(q)
           /\ m.row = m.id \/ \E p \in Runs : run[p].op = "continue" /\ m.row = RowId(p)
<1> DEFINE m == messages[Len(messages)]
<1>1. Len(messages) \in DOMAIN messages
  BY DEF AutoContinue, HookTypeOK
<1>2. m.role = "assistant" /\ m.row # NoId /\ ContinueMessage(r, m)
  BY DEF AutoContinue, Last
<1>3. MessageShape(m)
  BY <1>1 DEF MessageInv
<1> HIDE DEF m
<1>4. Made(r, [op |-> "continue", target |-> m.id, row |-> m.row, text |-> 0])
      /\ UNCHANGED <<messages, lastUserMessage, current>> /\ ~isStreaming
  BY <1>2, ContinueMakes
<1>5. PICK q \in Runs : m.id = RowId(q) /\ run[q].op = "send"
  BY <1>2, <1>3 DEF MessageShape
<1>6. q < r
  <2>1. run[r].pc = "idle" /\ run[q].pc # "idle" /\ q # r
    BY <1>4, <1>5 DEF Made, Free, CallInv, CallShape
  <2>2. q < r \/ r < q
    BY <2>1, Typed
  <2>. QED
    BY <2>1, <2>2 DEF CallInv, CallsInOrder
<1>. QED
  BY <1>1, <1>2, <1>3, <1>4, <1>5, <1>6 DEF MessageShape, m

\* The calls between two steps of the hook.
LEMMA CallsInvariant ==
  ASSUME HookInv, HookStep
  PROVE  CallInv'
<1>. USE DEF HookInv
<1>1. ASSUME NEW r \in Runs, ~Pending, Retry(r) \/ HandleSend(r) PROVE CallInv'
  <2>1. ~isStreaming /\ \E text, shown : SendMessage(r, text, shown)
    BY <1>1 DEF Retry, HandleSend
  <2>. QED
    BY <1>1, <2>1, SendMakes, CallIsMade
<1>2. ASSUME NEW r \in Runs, ~Pending, AutoContinue(r) PROVE CallInv'
  BY <1>2, AutoContinueMakes, CallIsMade
<1>. QED
  BY <1>1, <1>2, AbortKeepsCalls, NetworkKeepsCalls, FrameKeepsCalls, CancelKeepsCalls DEF HookStep


(***************************************************************************)
(* Counting the tokens of a call in a text.                                *)
(***************************************************************************)
Places(b, r) == {i \in DOMAIN b : b[i] = r}

LEMMA PlacesFinite ==
  ASSUME NEW b \in Seq(Nat), NEW r
  PROVE  IsFiniteSet(Places(b, r)) /\ Count(b, r) \in Nat /\ Count(b, r) = Cardinality(Places(b, r))
<1>1. IsFiniteSet(1 .. Len(b))
  BY FS_Interval
<1>2. Places(b, r) \in SUBSET (1 .. Len(b))
  BY DEF Places
<1>. QED
  BY <1>1, <1>2, FS_Subset, FS_CardinalityType DEF Count, Places

LEMMA CountPositive ==
  ASSUME NEW b \in Seq(Nat), NEW r
  PROVE  Count(b, r) > 0 <=> \E i \in DOMAIN b : b[i] = r
<1>1. Count(b, r) = 0 <=> Places(b, r) = {}
  BY PlacesFinite, FS_EmptySet
<1>2. Count(b, r) \in Nat
  BY PlacesFinite
<1>3. Places(b, r) = {} <=> ~ \E i \in DOMAIN b : b[i] = r
  BY DEF Places
<1>. QED
  BY <1>1, <1>2, <1>3

LEMMA CountOther ==
  ASSUME NEW b \in Seq(Nat), NEW r, r \notin Range(b)
  PROVE  Count(b, r) = 0
<1>1. ~ \E i \in DOMAIN b : b[i] = r
  BY DEF Range
<1>2. Count(b, r) \in Nat
  BY PlacesFinite
<1>. QED
  BY <1>1, <1>2, CountPositive

LEMMA CountEmpty ==
  ASSUME NEW r
  PROVE  Count(<<>>, r) = 0
<1>1. <<>> \in Seq(Nat) /\ r \notin Range(<<>>)
  BY DEF Range
<1>. QED
  BY <1>1, CountOther

LEMMA CountConcat ==
  ASSUME NEW s \in Seq(Nat), NEW t \in Seq(Nat), NEW r
  PROVE  Count(s \o t, r) = Count(s, r) + Count(t, r)
<1> DEFINE A == Places(s, r)
           B == Places(t, r)
           C == Places(s \o t, r)
           D == {Len(s) + j : j \in B}
           f == [j \in B |-> Len(s) + j]
<1>1. C = A \cup D
  <2>1. ASSUME NEW i \in DOMAIN (s \o t), i > Len(s)
        PROVE  \E j \in 1 .. Len(t) : i = Len(s) + j
    <3>1. i - Len(s) \in 1 .. Len(t) /\ i = Len(s) + (i - Len(s))
      BY <2>1
    <3>. QED
      BY <3>1
  <2>2. \A i \in 1 .. Len(s) : i \in DOMAIN (s \o t) /\ (s \o t)[i] = s[i]
    OBVIOUS
  <2>3. \A j \in 1 .. Len(t) : Len(s) + j \in DOMAIN (s \o t) /\ (s \o t)[Len(s) + j] = t[j]
    OBVIOUS
  <2>4. \A i \in DOMAIN (s \o t) : i \in 1 .. Len(s) \/ i > Len(s)
    OBVIOUS
  <2>. QED
    BY <2>1, <2>2, <2>3, <2>4 DEF Places
<1>2. A \cap D = {}
  BY DEF Places
<1>3. f \in Bijection(B, D)
  BY DEF Bijection, Injection, Surjection, IsInjective, Places
<1>4. IsFiniteSet(A) /\ IsFiniteSet(B) /\ Cardinality(A) \in Nat /\ Cardinality(B) \in Nat
  BY PlacesFinite
<1> HIDE DEF A, B, C, D, f
<1>5. IsFiniteSet(D) /\ Cardinality(D) = Cardinality(B)
  BY <1>3, <1>4, FS_Bijection DEF ExistsBijection
<1>6. Cardinality(A \cup D) = Cardinality(A) + Cardinality(D) - Cardinality({})
  BY <1>2, <1>4, <1>5, FS_Union
<1>7. Cardinality(C) = Cardinality(A) + Cardinality(B)
  BY <1>1, <1>4, <1>5, <1>6, FS_EmptySet
<1>8. s \o t \in Seq(Nat)
  OBVIOUS
<1>. QED
  BY <1>7, <1>8, PlacesFinite DEF A, B, C

LEMMA CountAppend ==
  ASSUME NEW s \in Seq(Nat), NEW x \in Nat, NEW r
  PROVE  /\ Append(s, x) \in Seq(Nat)
         /\ Count(Append(s, x), r) = Count(s, r) + (IF x = r THEN 1 ELSE 0)
<1>1. Append(s, x) = s \o <<x>> /\ <<x>> \in Seq(Nat)
  OBVIOUS
<1>2. Places(<<x>>, r) = IF x = r THEN {1} ELSE {}
  BY DEF Places
<1>3. Cardinality({1}) = 1 /\ Cardinality({}) = 0
  BY FS_Singleton, FS_EmptySet
<1>4. Count(<<x>>, r) = IF x = r THEN 1 ELSE 0
  BY <1>1, <1>2, <1>3, PlacesFinite
<1>5. Count(s \o <<x>>, r) = Count(s, r) + Count(<<x>>, r)
  BY <1>1, CountConcat
<1>6. Append(s, x) \in Seq(Nat)
  OBVIOUS
<1>. QED
  BY <1>1, <1>4, <1>5, <1>6


(***************************************************************************)
(* Messages.  A step that adds no message rewrites some in place.          *)
(***************************************************************************)
SameBubbles(ms) ==
  /\ ms \in Seq(Message) /\ Len(ms) = Len(messages)
  /\ \A i \in DOMAIN messages :
       /\ ms[i].id = messages[i].id /\ ms[i].role = messages[i].role
       /\ ms[i].row = messages[i].row
       /\ messages[i].role = "user" => ms[i].body = messages[i].body

\* The buffer has been moved to the bubble it is for.
Moved(ms) ==
  /\ SameBubbles(ms)
  /\ \A i \in DOMAIN messages, q \in Runs :
       /\ messages[i].id \in {run[q].target, run[q].row} =>
            Count(ms[i].body, q) = Count(messages[i].body, q) + Count(buffer, q)
       /\ Count(ms[i].body, q) > 0 =>
            Count(messages[i].body, q) > 0 \/ messages[i].id = run[q].target

\* A rewritten message: what tells it apart is kept, its tokens are.
Retouched(m, n) ==
  /\ n \in Message /\ n.id = m.id /\ n.role = m.role /\ n.row = m.row
  /\ m.role = "user" => n.body = m.body
  /\ \A q \in Runs : Count(n.body, q) = Count(m.body, q)

LEMMA RetouchedIsMoved ==
  ASSUME NEW ms, Moved(ms), NEW new \in Seq(Message), Len(new) = Len(ms),
         \A i \in DOMAIN ms : Retouched(ms[i], new[i])
  PROVE  Moved(new)
<1>1. DOMAIN ms = DOMAIN messages
  BY DEF Moved, SameBubbles, HookTypeOK
<1>. QED
  BY <1>1 DEF Moved, SameBubbles, Retouched

\* What a flush does: the buffer goes behind the text of the bubble it is for.
LEMMA FlushedShape ==
  ASSUME HookTypeOK, NEW r \in Runs
  PROVE  /\ Flushed(r) \in Seq(Message) /\ Len(Flushed(r)) = Len(messages)
         /\ \A i \in DOMAIN messages :
              LET m == messages[i]
                  n == Flushed(r)[i]
              IN  /\ n.id = m.id /\ n.role = m.role /\ n.row = m.row
                  /\ n.body = IF m.id = run[r].target THEN m.body \o buffer ELSE m.body
<1> DEFINE F == Flushed(r)
<1>0. messages \in Seq(Message) /\ buffer \in Seq(Nat)
      /\ \A i \in DOMAIN messages : messages[i] \in Message
  BY Typed
<1>1. CASE buffer = <<>>
  <2>1. F = messages
    BY <1>1 DEF Flushed
  <2>2. \A i \in DOMAIN messages : messages[i].body \o <<>> = messages[i].body
    BY <1>0 DEF Message
  <2>. QED
    BY <2>1, <2>2, <1>0, <1>1
<1>2. CASE buffer # <<>>
  <2>1. F = [i \in DOMAIN messages |->
               IF messages[i].id # run[r].target THEN messages[i]
               ELSE IF run[r].op = "send"
                    THEN [messages[i] EXCEPT !.body = @ \o buffer, !.thinking = FALSE]
                    ELSE [messages[i] EXCEPT !.body = @ \o buffer, !.truncated = FALSE]]
    <3>1. r # NoRun
      BY Typed DEF NoRun
    <3>. QED
      BY <1>2, <3>1 DEF Flushed, Patch
  <2>2. ASSUME NEW m \in Message
        PROVE  /\ [m EXCEPT !.body = @ \o buffer, !.thinking = FALSE] \in Message
               /\ [m EXCEPT !.body = @ \o buffer, !.truncated = FALSE] \in Message
    <3>1. m.body \o buffer \in Seq(Nat)
      BY <1>0, ConcatProperties DEF Message
    <3>2. ASSUME NEW b \in Seq(Nat)
          PROVE  /\ [m EXCEPT !.body = b, !.thinking = FALSE] \in Message
                 /\ [m EXCEPT !.body = b, !.truncated = FALSE] \in Message
      BY DEF Message
    <3>. QED
      BY <3>1, <3>2
  <2>3. ASSUME NEW i \in DOMAIN messages
        PROVE  LET m == messages[i]
                   n == F[i]
               IN  /\ n \in Message /\ n.id = m.id /\ n.role = m.role /\ n.row = m.row
                   /\ n.body = IF m.id = run[r].target THEN m.body \o buffer ELSE m.body
    <3>1. messages[i] \in Message /\ DOMAIN F = DOMAIN messages
      BY <1>0, <2>1
    <3>2. PICK b : b = messages[i].body \o buffer
      OBVIOUS
    <3>3. CASE messages[i].id # run[r].target
      BY <2>1, <3>1, <3>3
    <3>4. CASE messages[i].id = run[r].target /\ run[r].op = "send"
      <4>1. F[i] = [messages[i] EXCEPT !.body = b, !.thinking = FALSE]
        BY <2>1, <3>2, <3>4
      <4>2. F[i] \in Message
        BY <4>1, <2>2, <3>1, <3>2
      <4> HIDE DEF F
      <4>3. /\ F[i].id = messages[i].id /\ F[i].role = messages[i].role
            /\ F[i].row = messages[i].row /\ F[i].body = b
        BY <4>1, <3>1 DEF Message
      <4>. QED
        BY <4>2, <4>3, <3>2, <3>4
    <3>5. CASE messages[i].id = run[r].target /\ run[r].op # "send"
      <4>1. F[i] = [messages[i] EXCEPT !.body = b, !.truncated = FALSE]
        BY <2>1, <3>2, <3>5
      <4>2. F[i] \in Message
        BY <4>1, <2>2, <3>1, <3>2
      <4> HIDE DEF F
      <4>3. /\ F[i].id = messages[i].id /\ F[i].role = messages[i].role
            /\ F[i].row = messages[i].row /\ F[i].body = b
        BY <4>1, <3>1 DEF Message
      <4>. QED
        BY <4>2, <4>3, <3>2, <3>5
    <3>. QED
      BY <3>3, <3>4, <3>5
  <2>4. DOMAIN F = DOMAIN messages
    BY <2>1
  <2> HIDE DEF F
  <2>5. F \in Seq(Message) /\ Len(F) = Len(messages)
    <3>1. DOMAIN F = 1 .. Len(messages) /\ Len(messages) \in Nat
      BY <2>4, Typed
    <3>2. \A i \in 1 .. Len(messages) : F[i] \in Message
      BY <2>3, Typed
    <3>3. F = [i \in 1 .. Len(messages) |-> F[i]]
      BY <2>1, <3>1 DEF F
    <3>. QED
      BY <3>1, <3>2, <3>3
  <2>. QED
    BY <2>3, <2>5 DEF F
<1>. QED
  BY <1>1, <1>2

\* Only the stream that is read has tokens in the buffer, and they are for the
\* one bubble it writes to.
LEMMA BufferIsOf ==
  ASSUME HookInv, NEW r \in Runs, Busy(r)
  PROVE  /\ \A q \in Runs \ {r} : Count(buffer, q) = 0
         /\ \A i \in DOMAIN messages :
              messages[i].id \in {run[r].target, run[r].row} /\ Count(buffer, r) # 0 =>
                messages[i].id = run[r].target
<1>1. Range(buffer) \subseteq {r}
  BY DEF HookInv, CallInv, OneOwner, OneStreamAtATime, Busy
<1>2. \A q \in Runs \ {r} : Count(buffer, q) = 0
  BY <1>1, Typed, CountOther DEF HookInv
<1>3. ASSUME NEW i \in DOMAIN messages, messages[i].id = run[r].row, Count(buffer, r) # 0
      PROVE  messages[i].id = run[r].target
  <2>1. run[r].pc = "reading"
    BY <1>3, CountEmpty DEF HookInv, CallInv, OneOwner
  <2>2. CallShape(r) /\ MessageShape(messages[i])
    BY DEF HookInv, CallInv, MessageInv
  <2>3. CASE run[r].op = "send"
    BY <1>3, <2>1, <2>2, <2>3 DEF CallShape, MessageShape
  <2>4. CASE run[r].op = "continue"
    BY <1>3, <2>2, <2>4 DEF CallShape, MessageShape
  <2>. QED
    BY <2>1, <2>2, <2>3, <2>4 DEF CallShape, HookInv, HookTypeOK
<1>. QED
  BY <1>2, <1>3

LEMMA FlushedMoves ==
  ASSUME HookInv, NEW r \in Runs, Busy(r)
  PROVE  Moved(Flushed(r))
<1> DEFINE F == Flushed(r)
<1>1. /\ F \in Seq(Message) /\ Len(F) = Len(messages)
      /\ \A i \in DOMAIN messages :
           /\ F[i].id = messages[i].id /\ F[i].role = messages[i].role
           /\ F[i].row = messages[i].row
           /\ F[i].body = IF messages[i].id = run[r].target
                          THEN messages[i].body \o buffer ELSE messages[i].body
  BY FlushedShape DEF HookInv
<1> HIDE DEF F
<1>2. ASSUME NEW i \in DOMAIN messages, messages[i].role = "user"
      PROVE  messages[i].id # run[r].target
  <2>1. MessageShape(messages[i]) /\ CallShape(r) /\ run[r].op # "none"
    BY DEF HookInv, MessageInv, CallInv, CallShape, Busy, Live
  <2>2. run[r].op \in {"send", "continue"}
    BY <2>1 DEF HookInv, HookTypeOK
  <2>. QED
    BY <1>2, <2>1, <2>2 DEF MessageShape, CallShape
<1>3. ASSUME NEW i \in DOMAIN messages, NEW q \in Runs
      PROVE  /\ Count(F[i].body, q) = Count(messages[i].body, q)
                  + (IF messages[i].id = run[r].target THEN Count(buffer, q) ELSE 0)
             /\ Count(messages[i].body, q) \in Nat /\ Count(buffer, q) \in Nat
  <2>1. messages[i].body \in Seq(Nat) /\ buffer \in Seq(Nat)
    BY Typed DEF HookInv
  <2>2. Count(messages[i].body, q) \in Nat /\ Count(buffer, q) \in Nat
    BY <2>1, PlacesFinite
  <2>3. Count(messages[i].body \o buffer, q) = Count(messages[i].body, q) + Count(buffer, q)
    BY <2>1, CountConcat
  <2>. QED
    BY <1>1, <2>2, <2>3
<1>4. ASSUME NEW i \in DOMAIN messages, NEW q \in Runs
      PROVE  /\ messages[i].id \in {run[q].target, run[q].row} =>
                  Count(F[i].body, q) = Count(messages[i].body, q) + Count(buffer, q)
             /\ Count(F[i].body, q) > 0 =>
                  Count(messages[i].body, q) > 0 \/ messages[i].id = run[q].target
  <2>1. CASE q = r
    BY <1>3, <2>1, BufferIsOf
  <2>2. CASE q # r
    BY <1>3, <2>2, BufferIsOf
  <2>. QED
    BY <2>1, <2>2
<1>5. SameBubbles(F)
  BY <1>1, <1>2 DEF SameBubbles
<1>. QED
  BY <1>4, <1>5 DEF Moved, F

LEMMA NothingToMove ==
  ASSUME HookTypeOK, buffer = <<>>
  PROVE  Moved(messages)
<1>1. \A q \in Runs : Count(buffer, q) = 0
  BY CountEmpty
<1>2. \A i \in DOMAIN messages, q \in Runs : Count(messages[i].body, q) \in Nat
  BY Typed, PlacesFinite
<1>3. SameBubbles(messages)
  BY DEF SameBubbles, HookTypeOK
<1>. QED
  BY <1>1, <1>2, <1>3 DEF Moved


(***************************************************************************)
(* Steps that add and drop no message.                                     *)
(***************************************************************************)
Settled == {"known", "aborted", "ended", "failed"}

\* No call is begun, and none that is over comes back.
GoOn ==
  \A q \in Runs :
    /\ run'[q].op = run[q].op /\ run'[q].target = run[q].target /\ run'[q].row = run[q].row
    /\ run'[q].pc = "idle" <=> run[q].pc = "idle"
    /\ run[q].pc \in Settled => run'[q].pc \in Settled
    /\ run'[q].pc # "failed" => run[q].pc # "failed"
    /\ Busy(q)' => Busy(q)

SameTokens == \A q \in Runs : run'[q].tokens = run[q].tokens

LEMMA MoveGoesOn ==
  ASSUME CallInv, NEW r \in Runs, Busy(r), NEW to, Moves(r, to),
         run[r].pc \in {"known", "aborted"} => to \in Settled
  PROVE  GoOn
<1>1. run[r].pc \notin {"idle", "failed", "ended"} /\ run'[r].pc = to /\ to # "idle"
  BY DEF Busy, Live, Moves
<1>2. \A q \in Runs \ {r} : run'[q] = run[q]
  BY DEF Moves
<1>3. ASSUME NEW q \in Runs
      PROVE  /\ run'[q].op = run[q].op /\ run'[q].target = run[q].target
             /\ run'[q].row = run[q].row
             /\ run'[q].pc = "idle" <=> run[q].pc = "idle"
             /\ run[q].pc \in Settled => run'[q].pc \in Settled
             /\ run'[q].pc # "failed" => run[q].pc # "failed"
             /\ Busy(q)' => Busy(q)
  <2>1. CASE q = r
    BY <1>1, <2>1 DEF Moves, Settled
  <2>2. CASE q # r
    BY <1>2, <2>2 DEF Busy
  <2>. QED
    BY <2>1, <2>2
<1>. QED
  BY <1>3 DEF GoOn

LEMMA ShapesStay ==
  ASSUME HookInv, SameBubbles(messages'), GoOn,
         UNCHANGED <<lastUserMessage, error>>
  PROVE  /\ DistinctIds' /\ ErrorShape'
         /\ \A i \in DOMAIN messages' : MessageShape(messages[i])'
         /\ \A r \in Runs : TurnAtEnd(r)'
<1>1. /\ messages' \in Seq(Message) /\ Len(messages') = Len(messages)
      /\ DOMAIN messages' = DOMAIN messages /\ DOMAIN messages = 1 .. Len(messages)
      /\ Len(messages) \in Nat
  BY Typed DEF SameBubbles, HookInv
<1>2. \A i \in DOMAIN messages :
        /\ messages'[i].id = messages[i].id /\ messages'[i].role = messages[i].role
        /\ messages'[i].row = messages[i].row
        /\ messages[i].role = "user" => messages'[i].body = messages[i].body
  BY DEF SameBubbles
<1>3. DistinctIds'
  BY <1>1, <1>2 DEF HookInv, MessageInv, DistinctIds
<1>4. ErrorShape'
  <2> SUFFICES ASSUME error' # "none" PROVE ErrorShape'
    BY DEF ErrorShape
  <2>1. \A r \in Runs : ~Busy(r)'
    BY DEF HookInv, MessageInv, ErrorShape, GoOn
  <2>2. PICK n \in {Len(messages) - 1, Len(messages)} :
          /\ n > 0 /\ messages[n].role = "user" /\ messages[n].body = <<lastUserMessage>>
          /\ \A i \in DOMAIN messages : i > n => /\ messages[i].role = "assistant"
                                                 /\ messages[i].row # NoId
    BY DEF HookInv, MessageInv, ErrorShape
  <2>3. n \in DOMAIN messages
    BY <1>1, <2>2
  <2>. QED
    BY <1>1, <1>2, <2>1, <2>2, <2>3 DEF ErrorShape
<1>5. ASSUME NEW i \in DOMAIN messages' PROVE MessageShape(messages[i])'
  <2>1. MessageShape(messages[i]) /\ i \in DOMAIN messages
    BY <1>1 DEF HookInv, MessageInv
  <2>2. \A r \in Runs : /\ run'[r].op = run[r].op
                        /\ run'[r].pc = "idle" <=> run[r].pc = "idle"
                        /\ run[r].pc \in Settled => run'[r].pc \in Settled
    BY DEF GoOn
  <2>. QED
    BY <1>2, <2>1, <2>2 DEF MessageShape, Settled
<1>6. ASSUME NEW r \in Runs PROVE TurnAtEnd(r)'
  <2>1. TurnAtEnd(r) /\ run'[r].op = run[r].op /\ (Busy(r)' => Busy(r))
    BY DEF HookInv, MessageInv, GoOn
  <2> SUFFICES ASSUME Busy(r)', run'[r].op = "send" PROVE TurnAtEnd(r)'
    BY DEF TurnAtEnd
  <2>2. Len(messages) - 1 \in DOMAIN messages /\ Len(messages) \in DOMAIN messages
    BY <1>1, <2>1 DEF TurnAtEnd
  <2>. QED
    BY <1>1, <1>2, <2>1, <2>2 DEF TurnAtEnd
<1>. QED
  BY <1>3, <1>4, <1>5, <1>6

LEMMA MovedKeeps ==
  ASSUME HookInv, Moved(messages'), buffer' = <<>>, GoOn, SameTokens,
         UNCHANGED <<lastUserMessage, error>>
  PROVE  MessageInv' /\ messages' \in Seq(Message)
<1>1. SameBubbles(messages') /\ DOMAIN messages' = DOMAIN messages
      /\ messages' \in Seq(Message)
  BY Typed DEF Moved, SameBubbles, HookInv
<1>2. \A q \in Runs : Count(buffer', q) = 0
  BY CountEmpty
<1>3. TokensInTheirBubble'
  BY <1>1 DEF HookInv, MessageInv, TokensInTheirBubble, Moved, SameBubbles, GoOn
<1>4. ASSUME NEW r \in Runs PROVE TokensKept(r)'
  <2> SUFFICES ASSUME run'[r].op = "send" \/ run'[r].pc # "failed",
                      NEW i \in DOMAIN messages',
                      messages'[i].id \in {run'[r].target, run'[r].row}
               PROVE  Count(messages'[i].body, r) + Count(buffer', r) = run'[r].tokens
    BY DEF TokensKept
  <2>1. messages[i].id \in {run[r].target, run[r].row} /\ i \in DOMAIN messages
    BY <1>1 DEF SameBubbles, GoOn
  <2>2. Count(messages[i].body, r) + Count(buffer, r) = run[r].tokens
    BY <2>1 DEF HookInv, MessageInv, TokensKept, GoOn
  <2>3. Count(messages'[i].body, r) = Count(messages[i].body, r) + Count(buffer, r)
    BY <2>1 DEF Moved
  <2>4. run[r].tokens \in Nat
    BY DEF HookInv, HookTypeOK
  <2>. QED
    BY <1>2, <2>2, <2>3, <2>4 DEF SameTokens
<1>. QED
  BY <1>1, <1>3, <1>4, ShapesStay DEF MessageInv


LEMMA PatchIsTyped ==
  ASSUME NEW ms \in Seq(Message), NEW new, DOMAIN new = DOMAIN ms,
         new = [i \in DOMAIN ms |-> new[i]], \A i \in DOMAIN ms : new[i] \in Message
  PROVE  new \in Seq(Message) /\ Len(new) = Len(ms)
<1>1. DOMAIN ms = 1 .. Len(ms) /\ Len(ms) \in Nat
  OBVIOUS
<1>. QED
  BY <1>1

LEMMA TruncatedIsMoved ==
  ASSUME NEW ms, Moved(ms), NEW id
  PROVE  Moved(Patch(ms, id, LAMBDA m : [m EXCEPT !.truncated = TRUE]))
<1> DEFINE new == Patch(ms, id, LAMBDA m : [m EXCEPT !.truncated = TRUE])
<1>1. ms \in Seq(Message) /\ \A i \in DOMAIN ms : ms[i] \in Message
  BY DEF Moved, SameBubbles
<1>2. new = [i \in DOMAIN ms |-> IF ms[i].id = id THEN [ms[i] EXCEPT !.truncated = TRUE]
                                 ELSE ms[i]]
  BY DEF Patch
<1>3. ASSUME NEW m \in Message, NEW n \in {m, [m EXCEPT !.truncated = TRUE]}
      PROVE  Retouched(m, n)
  BY <1>3 DEF Retouched, Message
<1>4. ASSUME NEW i \in DOMAIN ms PROVE Retouched(ms[i], new[i])
  <2>1. ms[i] \in Message /\ new[i] \in {ms[i], [ms[i] EXCEPT !.truncated = TRUE]}
    BY <1>1, <1>2
  <2> HIDE DEF new
  <2>. QED
    BY <2>1, <1>3
<1>5. new \in Seq(Message) /\ Len(new) = Len(ms)
  <2>1. DOMAIN new = DOMAIN ms /\ new = [i \in DOMAIN ms |-> new[i]]
    BY <1>2
  <2> HIDE DEF new
  <2>2. \A i \in DOMAIN ms : new[i] \in Message
    BY <1>4 DEF Retouched
  <2>. QED
    BY <1>1, <2>1, <2>2, PatchIsTyped
<1> HIDE DEF new
<1>6. Moved(new)
  BY <1>4, <1>5, RetouchedIsMoved
<1>. QED
  BY <1>6 DEF new

\* Stopped is no token, and goes to a reply.
LEMMA StoppedIsMoved ==
  ASSUME HookTypeOK, NEW ms, Moved(ms), NEW id,
         \A i \in DOMAIN ms : ms[i].id = id => ms[i].role = "assistant"
  PROVE  Moved(Patch(ms, id, LAMBDA m : [m EXCEPT !.body = Append(@, Stopped), !.thinking = FALSE]))
<1> DEFINE Stamp(m) == [m EXCEPT !.body = Append(m.body, Stopped), !.thinking = FALSE]
           new == Patch(ms, id, LAMBDA m : [m EXCEPT !.body = Append(@, Stopped),
                                                     !.thinking = FALSE])
<1>1. ms \in Seq(Message) /\ \A i \in DOMAIN ms : ms[i] \in Message
  BY DEF Moved, SameBubbles
<1>2. new = [i \in DOMAIN ms |-> IF ms[i].id = id THEN Stamp(ms[i]) ELSE ms[i]]
  BY DEF Patch
<1>3. ASSUME NEW m \in Message, m.role = "assistant" PROVE Retouched(m, Stamp(m))
  <2>1. m.body \in Seq(Nat) /\ Stopped \in Nat /\ \A q \in Runs : Stopped # q
    BY Typed DEF Message, Stopped
  <2>2. Append(m.body, Stopped) \in Seq(Nat)
        /\ \A q \in Runs : Count(Append(m.body, Stopped), q) = Count(m.body, q)
    <3>1. ASSUME NEW q \in Runs PROVE Count(Append(m.body, Stopped), q) = Count(m.body, q)
      BY <2>1, CountAppend, PlacesFinite
    <3>. QED
      BY <2>1, <3>1
  <2>3. PICK b \in Seq(Nat) : b = Append(m.body, Stopped)
    BY <2>2
  <2>4. Stamp(m) = [m EXCEPT !.body = b, !.thinking = FALSE]
    BY <2>3
  <2> HIDE DEF Stamp
  <2>5. /\ Stamp(m) \in Message /\ Stamp(m).id = m.id /\ Stamp(m).role = m.role
        /\ Stamp(m).row = m.row /\ Stamp(m).body = b
    BY <2>4 DEF Message
  <2>. QED
    BY <1>3, <2>2, <2>3, <2>5 DEF Retouched
<1>4. ASSUME NEW m \in Message PROVE Retouched(m, m)
  BY DEF Retouched
<1> HIDE DEF Stamp
<1>5. ASSUME NEW i \in DOMAIN ms PROVE Retouched(ms[i], new[i])
  <2>1. new[i] = IF ms[i].id = id THEN Stamp(ms[i]) ELSE ms[i]
    BY <1>2
  <2> HIDE DEF new
  <2>. QED
    BY <1>1, <1>3, <1>4, <2>1
<1>6. DOMAIN new = DOMAIN ms /\ new = [i \in DOMAIN ms |-> new[i]]
  BY <1>2
<1> HIDE DEF new
<1>7. new \in Seq(Message) /\ Len(new) = Len(ms)
  <2>1. \A i \in DOMAIN ms : new[i] \in Message
    BY <1>5 DEF Retouched
  <2>. QED
    BY <1>1, <1>6, <2>1, PatchIsTyped
<1>8. Moved(new)
  BY <1>5, <1>7, RetouchedIsMoved
<1>. QED
  BY <1>8 DEF new

(***************************************************************************)
(* The steps of a stream that only move its tokens.                        *)
(***************************************************************************)
LEMMA GoKeeps ==
  ASSUME HookInv, NEW r \in Runs, Busy(r), NEW to, Goes(r, to),
         run[r].pc \in {"known", "aborted"} => to \in Settled,
         Moved(messages'), buffer' = <<>>, UNCHANGED <<lastUserMessage, error>>
  PROVE  MessageInv' /\ messages' \in Seq(Message)
<1>1. GoOn
  BY MoveGoesOn DEF HookInv, Goes
<1>2. SameTokens
  BY DEF SameTokens, Goes, Moves
<1>. QED
  BY <1>1, <1>2, MovedKeeps

LEMMA HeadersKeeps ==
  ASSUME HookInv, NEW r \in Runs, Headers(r)
  PROVE  MessageInv' /\ messages' \in Seq(Message)
<1>1. run[r].pc = "fetching" /\ Goes(r, "open")
  BY StepGoes DEF Headers, Step, Live, PcStates, HookInv
<1>2. Busy(r) /\ buffer = <<>>
  BY <1>1 DEF Busy, Live, HookInv, CallInv, OneOwner
<1>3. messages' = messages /\ buffer' = <<>> /\ UNCHANGED <<lastUserMessage, error>>
  BY <1>2 DEF Headers
<1>4. Moved(messages')
  BY <1>2, <1>3, NothingToMove DEF HookInv
<1>. QED
  BY <1>1, <1>2, <1>3, <1>4, GoKeeps

LEMMA RefusedKeeps ==
  ASSUME HookInv, NEW r \in Runs, Refused(r)
  PROVE  MessageInv' /\ messages' \in Seq(Message)
<1>1. run[r].pc = "fetching" /\ Goes(r, "refused")
  BY StepGoes DEF Refused, Step, Live, PcStates, HookInv
<1>2. Busy(r)
  BY <1>1 DEF Busy, Live
<1>3. messages' = Flushed(r) /\ buffer' = <<>> /\ UNCHANGED <<lastUserMessage, error>>
  BY DEF Refused
<1>. QED
  BY <1>1, <1>2, <1>3, FlushedMoves, GoKeeps

LEMMA FirstEventKeeps ==
  ASSUME HookInv, NEW r \in Runs, FirstEvent(r)
  PROVE  MessageInv' /\ messages' \in Seq(Message)
<1>1. run[r].pc = "open" /\ Moves(r, "reading") /\ run'[r].tokens = run[r].tokens
  BY FirstEventMoves DEF FirstEvent, HookInv
<1>2. Busy(r) /\ buffer = <<>>
  BY <1>1 DEF Busy, Live, HookInv, CallInv, OneOwner
<1>3. messages' = messages /\ buffer' = <<>> /\ UNCHANGED <<lastUserMessage, error>>
  BY <1>2 DEF FirstEvent
<1>4. Moved(messages')
  BY <1>2, <1>3, NothingToMove DEF HookInv
<1>5. GoOn
  BY <1>1, <1>2, MoveGoesOn DEF HookInv
<1>6. SameTokens
  BY <1>1 DEF SameTokens, Moves
<1>. QED
  BY <1>3, <1>4, <1>5, <1>6, MovedKeeps

LEMMA DoneKeeps ==
  ASSUME HookInv, NEW r \in Runs, NEW truncated \in BOOLEAN, Done(r, truncated)
  PROVE  MessageInv' /\ messages' \in Seq(Message)
<1>1. run[r].pc = "reading" /\ Goes(r, "done")
  BY DoneGoes DEF Done, HookInv
<1>2. Busy(r)
  BY <1>1 DEF Busy, Live
<1>3. buffer' = <<>> /\ UNCHANGED <<lastUserMessage, error>>
  BY DEF Done
<1>4. Moved(Flushed(r))
  BY <1>2, FlushedMoves
<1>5. Moved(messages')
  BY <1>4, TruncatedIsMoved DEF Done
<1>. QED
  BY <1>1, <1>2, <1>3, <1>5, GoKeeps

LEMMA FrameKeeps ==
  ASSUME HookInv, ~Pending, Frame
  PROVE  MessageInv' /\ messages' \in Seq(Message)
<1>1. raf \in Runs /\ Busy(raf)
  BY FrameOfTheStream DEF HookInv, Busy
<1>2. Moved(messages') /\ buffer' = <<>> /\ UNCHANGED <<lastUserMessage, error, run>>
  BY <1>1, FlushedMoves DEF Frame
<1>3. GoOn /\ SameTokens
  BY <1>2 DEF GoOn, SameTokens, Busy
<1>. QED
  BY <1>2, <1>3, MovedKeeps

LEMMA SameDomain ==
  ASSUME HookTypeOK, NEW ms, SameBubbles(ms)
  PROVE  DOMAIN ms = DOMAIN messages
  BY Typed DEF SameBubbles

LEMMA CancelKeeps ==
  ASSUME HookInv, Cancel
  PROVE  MessageInv' /\ messages' \in Seq(Message)
<1>1. PICK r \in Runs : /\ run[r].pc \in Live /\ flushNow = r
                        /\ \E to \in {"aborted", "body aborted"} : Goes(r, to)
  BY CancelKeepsCalls DEF HookInv
<1>2. PICK to \in {"aborted", "body aborted"} : Goes(r, to)
  BY <1>1
<1>3. Busy(r) /\ buffer' = <<>> /\ UNCHANGED <<lastUserMessage, error>>
  BY <1>1, CancelKeepsCalls DEF HookInv, Busy, Cancel
<1>4. to = "body aborted" => run[r].pc # "known"
  <2>1. run'[r].pc = to
    BY <1>2 DEF Goes, Moves
  <2>2. controller = r /\ r # NoRun
    BY <1>3, Typed DEF HookInv, CallInv, OneOwner, OneStreamAtATime, Busy, NoRun
  <2>3. run' = [run EXCEPT ![r].pc = IF @ = "refused" THEN "body aborted" ELSE "aborted"]
    BY <1>1, <2>2 DEF Cancel
  <2>4. run[r].pc = "known" => run'[r].pc = "aborted"
    <3>1. DOMAIN run = Runs /\ DOMAIN run[r] = DOMAIN Idle
      BY DEF HookInv, HookTypeOK
    <3>. QED
      BY <2>3, <3>1 DEF Idle
  <2>. QED
    BY <2>1, <2>4
<1>5. Moved(Flushed(r)) /\ messages' = Patch(Flushed(r), current,
             LAMBDA m : [m EXCEPT !.body = Append(@, Stopped), !.thinking = FALSE])
  BY <1>1, <1>3, FlushedMoves DEF Cancel
<1>6. ASSUME NEW i \in DOMAIN Flushed(r), Flushed(r)[i].id = current
      PROVE  Flushed(r)[i].role = "assistant"
  <2>1. i \in DOMAIN messages /\ messages[i].id = current /\ Flushed(r)[i].role = messages[i].role
    <3>1. SameBubbles(Flushed(r)) /\ HookTypeOK
      BY <1>5 DEF Moved, HookInv
    <3>2. DOMAIN Flushed(r) = DOMAIN messages
      BY <3>1, SameDomain
    <3>. QED
      BY <1>6, <3>1, <3>2 DEF SameBubbles
  <2>2. MessageShape(messages[i])
    BY <2>1 DEF HookInv, MessageInv
  <2>3. current # NoId
    <3>1. current[1] # "none"
      BY <2>1, <2>2 DEF MessageShape
    <3>2. NoId[1] = "none"
      BY DEF NoId
    <3>. QED
      BY <3>1, <3>2
  <2>4. PICK q \in Runs : current = BubbleId(q)
    BY <2>3 DEF HookInv, CallInv
  <2>. QED
    BY <2>1, <2>2, <2>4 DEF MessageShape
<1>7. Moved(messages')
  BY <1>5, <1>6, StoppedIsMoved DEF HookInv
<1>. QED
  <2>1. run[r].pc \in {"known", "aborted"} => to \in Settled
    BY <1>1, <1>4 DEF Settled, Live
  <2>. QED
    BY <1>2, <1>3, <1>7, <2>1, GoKeeps

LEMMA EndKeeps ==
  ASSUME HookInv, NEW r \in Runs, run[r].pc \in {"done", "known", "aborted"}, Finally(r, "ended"),
         UNCHANGED <<lastUserMessage, error>>, messages' \in {messages, Flushed(r)}
  PROVE  MessageInv' /\ messages' \in Seq(Message)
<1>1. Busy(r) /\ Goes(r, "ended") /\ buffer' = <<>>
  BY FinallyGoes DEF Busy, Live, HookInv, Finally
<1>2. buffer = <<>>
  BY <1>1 DEF HookInv, CallInv, OneOwner
<1>3. Moved(messages')
  BY <1>1, <1>2, NothingToMove, FlushedMoves DEF HookInv
<1>. QED
  BY <1>1, <1>3, GoKeeps DEF Settled

(***************************************************************************)
(* A chunk, a row's id, and a continuation that fails.                     *)
(***************************************************************************)
LEMMA ChunkKeeps ==
  ASSUME HookInv, NEW r \in Runs, Chunk(r)
  PROVE  MessageInv' /\ messages' \in Seq(Message)
<1>1. run[r].pc = "reading" /\ Moves(r, "reading") /\ run'[r].tokens = run[r].tokens + 1
  BY ChunkMoves DEF Chunk, HookInv
<1>2. Busy(r) /\ HookTypeOK /\ CallInv
  BY <1>1 DEF Busy, Live, HookInv
<1>3. messages' = messages /\ buffer' = Append(buffer, r) /\ UNCHANGED <<lastUserMessage, error>>
  BY DEF Chunk
<1>4. GoOn
  BY <1>1, <1>2, MoveGoesOn
<1>5. SameBubbles(messages')
  BY <1>2, <1>3 DEF SameBubbles, HookTypeOK
<1>6. TokensInTheirBubble'
  BY <1>3, <1>4 DEF HookInv, MessageInv, TokensInTheirBubble, GoOn
<1>7. ASSUME NEW q \in Runs PROVE TokensKept(q)'
  <2> SUFFICES ASSUME run'[q].op = "send" \/ run'[q].pc # "failed",
                      NEW i \in DOMAIN messages',
                      messages'[i].id \in {run'[q].target, run'[q].row}
               PROVE  Count(messages'[i].body, q) + Count(buffer', q) = run'[q].tokens
    BY DEF TokensKept
  <2>1. Count(messages[i].body, q) + Count(buffer, q) = run[q].tokens
    BY <1>3, <1>4 DEF HookInv, MessageInv, TokensKept, GoOn
  <2>2. Count(buffer', q) = Count(buffer, q) + (IF r = q THEN 1 ELSE 0)
    BY <1>2, <1>3, Typed, CountAppend
  <2>3. Count(messages[i].body, q) \in Nat /\ Count(buffer, q) \in Nat
    BY <1>2, <1>3, Typed, PlacesFinite
  <2>4. run'[q].tokens = run[q].tokens + (IF r = q THEN 1 ELSE 0)
    <3>1. run[q].tokens \in Nat
      BY <1>2 DEF HookTypeOK
    <3>. QED
      BY <1>1, <3>1 DEF Moves
  <2>. QED
    BY <1>3, <2>1, <2>2, <2>3, <2>4
<1>. QED
  BY <1>3, <1>4, <1>5, <1>6, <1>7, ShapesStay DEF MessageInv, SameBubbles

\* A failed continuation drops what it had buffered, and no bubble is its own.
LEMMA LostContinuationKeeps ==
  ASSUME HookInv, NEW r \in Runs, Busy(r), Goes(r, "failed"), run[r].op = "continue",
         buffer' = <<>>, UNCHANGED <<messages, lastUserMessage, error>>
  PROVE  MessageInv' /\ messages' \in Seq(Message)
<1>2. HookTypeOK /\ CallInv
  BY DEF HookInv
<1>4. GoOn
  BY <1>2, MoveGoesOn DEF Goes, Settled
<1>5. SameBubbles(messages')
  BY <1>2 DEF SameBubbles, HookTypeOK
<1>6. TokensInTheirBubble'
  BY <1>4 DEF HookInv, MessageInv, TokensInTheirBubble, GoOn
<1>7. ASSUME NEW q \in Runs PROVE TokensKept(q)'
  <2> SUFFICES ASSUME run'[q].op = "send" \/ run'[q].pc # "failed",
                      NEW i \in DOMAIN messages',
                      messages'[i].id \in {run'[q].target, run'[q].row}
               PROVE  Count(messages'[i].body, q) + Count(buffer', q) = run'[q].tokens
    BY DEF TokensKept
  <2>1. Count(messages[i].body, q) + Count(buffer, q) = run[q].tokens
    BY <1>4 DEF HookInv, MessageInv, TokensKept, GoOn
  <2>2. q # r
    BY DEF Goes, Moves
  <2>3. Count(buffer, q) = 0 /\ Count(buffer', q) = 0
    BY <2>2, BufferIsOf, CountEmpty
  <2>4. run'[q].tokens = run[q].tokens
    BY <2>2 DEF Goes, Moves
  <2>. QED
    BY <2>1, <2>3, <2>4
<1>. QED
  BY <1>4, <1>5, <1>6, <1>7, ShapesStay DEF MessageInv, SameBubbles

LEMMA IdsApart ==
  ASSUME NEW p \in Runs, NEW q \in Runs
  PROVE  /\ RowId(p) \in Ids /\ BubbleId(p) \in Ids /\ UserId(p) \in Ids /\ NoId \in Ids
         /\ RowId(p) = RowId(q) => p = q
         /\ BubbleId(p) = BubbleId(q) => p = q
         /\ UserId(p) = UserId(q) => p = q
         /\ RowId(p) # BubbleId(q) /\ RowId(p) # UserId(q) /\ BubbleId(p) # UserId(q)
         /\ RowId(p) # NoId /\ BubbleId(p) # NoId /\ UserId(p) # NoId
<1>1. p \in Nat
  BY BoundsAssumption DEF Runs
<1>2. RowId(p) \in Ids /\ BubbleId(p) \in Ids /\ UserId(p) \in Ids /\ NoId \in Ids
  BY <1>1 DEF RowId, BubbleId, UserId, NoId, Ids
<1>3. /\ RowId(p) = RowId(q) => p = q
      /\ BubbleId(p) = BubbleId(q) => p = q
      /\ UserId(p) = UserId(q) => p = q
  BY DEF RowId, BubbleId, UserId
<1>4. /\ RowId(p) # BubbleId(q) /\ RowId(p) # UserId(q) /\ BubbleId(p) # UserId(q)
      /\ RowId(p) # NoId /\ BubbleId(p) # NoId /\ UserId(p) # NoId
  BY DEF RowId, BubbleId, UserId, NoId
<1>. QED
  BY <1>2, <1>3, <1>4

\* meta: the bubble takes the id of its row, which no message had before.
LEMMA MetaShape ==
  ASSUME HookTypeOK, NEW r \in Runs, Meta(r)
  PROVE  /\ messages' \in Seq(Message) /\ DOMAIN messages' = DOMAIN messages
         /\ Len(messages') = Len(messages)
         /\ \A i \in DOMAIN messages :
              LET m == messages[i]
                  n == messages'[i]
              IN  /\ n.role = m.role /\ n.body = m.body
                  /\ m.id # run[r].target => n.id = m.id /\ n.row = m.row
                  /\ m.id = run[r].target =>
                       n.row = RowId(r) /\ n.id = IF run[r].op = "send" THEN RowId(r) ELSE m.id
<1> DEFINE Named(m) == IF run[r].op = "send"
                       THEN [m EXCEPT !.id = RowId(r), !.row = RowId(r), !.truncated = run[r].cut]
                       ELSE [m EXCEPT !.row = RowId(r), !.truncated = run[r].cut]
<1>1. messages' = [i \in DOMAIN messages |->
                     IF messages[i].id = run[r].target THEN Named(messages[i]) ELSE messages[i]]
  BY DEF Meta, Patch
<1>2. RowId(r) \in Ids /\ run[r].cut \in BOOLEAN
  BY IdsApart DEF HookTypeOK
<1>3. ASSUME NEW m \in Message
      PROVE  /\ Named(m) \in Message /\ Named(m).role = m.role /\ Named(m).body = m.body
             /\ Named(m).row = RowId(r)
             /\ Named(m).id = IF run[r].op = "send" THEN RowId(r) ELSE m.id
  <2>1. PICK d \in Ids : d = RowId(r)
    BY <1>2
  <2>2. PICK c \in BOOLEAN : c = run[r].cut
    BY <1>2
  <2>3. CASE run[r].op = "send"
    <3>1. Named(m) = [m EXCEPT !.id = d, !.row = d, !.truncated = c]
      BY <2>1, <2>2, <2>3
    <3> HIDE DEF Named
    <3>2. /\ Named(m) \in Message /\ Named(m).role = m.role /\ Named(m).body = m.body
          /\ Named(m).row = d /\ Named(m).id = d
      BY <3>1 DEF Message
    <3>. QED
      BY <3>2, <2>1, <2>3
  <2>4. CASE run[r].op # "send"
    <3>1. Named(m) = [m EXCEPT !.row = d, !.truncated = c]
      BY <2>1, <2>2, <2>4
    <3> HIDE DEF Named
    <3>2. /\ Named(m) \in Message /\ Named(m).role = m.role /\ Named(m).body = m.body
          /\ Named(m).row = d /\ Named(m).id = m.id
      BY <3>1 DEF Message
    <3>. QED
      BY <3>2, <2>1, <2>4
  <2>. QED
    BY <2>3, <2>4
<1> HIDE DEF Named
<1>4. \A i \in DOMAIN messages : messages[i] \in Message
  BY Typed
<1>5. ASSUME NEW i \in DOMAIN messages
      PROVE  messages'[i] = IF messages[i].id = run[r].target THEN Named(messages[i])
                            ELSE messages[i]
  BY <1>1
<1>6. DOMAIN messages' = DOMAIN messages /\ messages' = [i \in DOMAIN messages |-> messages'[i]]
  BY <1>1
<1>7. \A i \in DOMAIN messages : messages'[i] \in Message
  BY <1>3, <1>4, <1>5
<1>8. messages' \in Seq(Message) /\ Len(messages') = Len(messages)
  BY <1>6, <1>7, PatchIsTyped DEF HookTypeOK
<1>9. ASSUME NEW i \in DOMAIN messages
      PROVE  LET m == messages[i]
                 n == messages'[i]
             IN  /\ n.role = m.role /\ n.body = m.body
                 /\ m.id # run[r].target => n.id = m.id /\ n.row = m.row
                 /\ m.id = run[r].target =>
                      n.row = RowId(r) /\ n.id = IF run[r].op = "send" THEN RowId(r) ELSE m.id
  BY <1>3, <1>4, <1>5
<1>. QED
  BY <1>6, <1>8, <1>9

LEMMA MetaKeeps ==
  ASSUME HookInv, NEW r \in Runs, Meta(r)
  PROVE  MessageInv' /\ messages' \in Seq(Message)
<1>1. run[r].pc = "done" /\ Goes(r, "known") /\ HookTypeOK /\ CallInv
  BY StepGoes DEF Meta, Step, Live, PcStates, HookInv
<1>2. Busy(r) /\ buffer = <<>>
  BY <1>1 DEF Busy, Live, CallInv, OneOwner
<1>3. buffer' = <<>> /\ UNCHANGED <<lastUserMessage, error>>
  BY <1>2 DEF Meta
<1>4. GoOn
  BY <1>1, <1>2, MoveGoesOn DEF Goes, Settled
<1>5. /\ messages' \in Seq(Message) /\ DOMAIN messages' = DOMAIN messages
      /\ Len(messages') = Len(messages)
  BY <1>1, MetaShape
<1>6. ASSUME NEW i \in DOMAIN messages
      PROVE  /\ MessageShape(messages[i])
             /\ messages'[i].role = messages[i].role /\ messages'[i].body = messages[i].body
             /\ messages[i].id # run[r].target =>
                  messages'[i].id = messages[i].id /\ messages'[i].row = messages[i].row
             /\ messages[i].id = run[r].target =>
                  /\ messages'[i].row = RowId(r)
                  /\ messages'[i].id = IF run[r].op = "send" THEN RowId(r) ELSE messages[i].id
  BY <1>1, MetaShape DEF HookInv, MessageInv
<1>7. ASSUME NEW i \in DOMAIN messages PROVE messages[i].id # RowId(r)
  BY <1>1, <1>6 DEF MessageShape
<1>8. CallShape(r) /\ (run[r].op = "send" \/ run[r].op = "continue")
  BY <1>1 DEF CallInv, CallShape, HookTypeOK
<1>9. \A q \in Runs : q # r => ~Busy(q)
  BY <1>1, <1>2, OwnerIsAlone DEF CallInv
<1>10. DistinctIds'
  BY <1>5, <1>6, <1>7 DEF HookInv, MessageInv, DistinctIds
<1>11. ErrorShape'
  BY <1>2, <1>3 DEF HookInv, MessageInv, ErrorShape
<1>12. ASSUME NEW i \in DOMAIN messages' PROVE MessageShape(messages[i])'
  <2>1. i \in DOMAIN messages /\ MessageShape(messages[i])
    BY <1>5, <1>6
  <2>2. /\ \A q \in Runs : /\ run'[q].op = run[q].op
                           /\ run'[q].pc = "idle" <=> run[q].pc = "idle"
                           /\ run[q].pc \in Settled => run'[q].pc \in Settled
        /\ run'[r].pc = "known"
    BY <1>1, <1>4 DEF GoOn, Goes, Moves
  <2>3. CASE messages[i].id # run[r].target
    BY <1>6, <2>1, <2>2, <2>3 DEF MessageShape, Settled
  <2>4. CASE messages[i].id = run[r].target /\ run[r].op = "send"
    <3>1. messages'[i].row = RowId(r) /\ messages'[i].id = RowId(r)
      BY <1>6, <2>1, <2>4
    <3>2. messages[i].id = BubbleId(r) /\ messages[i].role = "assistant"
      BY <1>8, <2>1, <2>4 DEF CallShape, MessageShape
    <3>. QED
      BY <1>6, <2>1, <2>2, <2>4, <3>1, <3>2
         DEF MessageShape, RowId, UserId, BubbleId, NoId
  <2>5. CASE messages[i].id = run[r].target /\ run[r].op = "continue"
    <3>1. messages'[i].row = RowId(r) /\ messages'[i].id = messages[i].id
      BY <1>6, <2>1, <2>5
    <3>2. \E q \in Runs : messages[i].id = RowId(q)
      BY <1>8, <2>5 DEF CallShape
    <3>. QED
      BY <1>6, <2>1, <2>2, <2>5, <3>1, <3>2
         DEF MessageShape, RowId, UserId, BubbleId, NoId, Settled
  <2>. QED
    BY <1>8, <2>3, <2>4, <2>5
<1>13. ASSUME NEW q \in Runs PROVE TurnAtEnd(q)'
  <2>1. CASE q # r
    <3>1. ~Busy(q)'
      BY <1>9, <2>1, <1>4 DEF GoOn
    <3>. QED
      BY <3>1 DEF TurnAtEnd
  <2>2. CASE q = r /\ run[r].op = "send"
    <3>1. TurnAtEnd(r) /\ run'[r].op = "send" /\ run[r].target = BubbleId(r)
      BY <1>1, <1>8, <2>2 DEF HookInv, MessageInv, Goes, Moves, CallShape
    <3>2. Len(messages) - 1 \in DOMAIN messages /\ Len(messages) \in DOMAIN messages
      BY <1>1, <1>2, <2>2, <3>1, Typed DEF TurnAtEnd
    <3>3. messages[Len(messages)].id = BubbleId(r)
      BY <1>2, <1>7, <2>2, <3>1, <3>2 DEF TurnAtEnd
    <3>4. messages'[Len(messages)].id = RowId(r)
      BY <1>6, <2>2, <3>1, <3>2, <3>3
    <3>5. ASSUME NEW i \in DOMAIN messages PROVE messages'[i].id # BubbleId(r)
      BY <1>6, <2>2, <3>1 DEF RowId, BubbleId
    <3>. QED
      BY <1>2, <1>3, <1>5, <1>6, <2>2, <3>1, <3>2, <3>4, <3>5 DEF TurnAtEnd
  <2>3. CASE q = r /\ run[r].op = "continue"
    <3>1. run'[q].op # "send"
      BY <1>1, <2>3 DEF Goes, Moves
    <3>. QED
      BY <3>1 DEF TurnAtEnd
  <2>. QED
    BY <1>8, <2>1, <2>2, <2>3
\* The only calls that write to the named bubble are those it was for before.
<1>14. ASSUME NEW i \in DOMAIN messages, NEW q \in Runs,
              messages[i].id = run[r].target, run[r].op = "send"
       PROVE  /\ messages[i].id \in {run[q].target, run[q].row} => q = r
              /\ messages'[i].id \in {run[q].target, run[q].row} => q = r
              /\ messages'[i].id \in {run[r].target, run[r].row}
  <2>1. /\ messages[i].id = BubbleId(r) /\ messages'[i].id = RowId(r)
        /\ run[r].target = BubbleId(r) /\ run[r].row = RowId(r)
    BY <1>6, <1>8, <1>14 DEF CallShape
  <2>2. CallShape(q) /\ (run[q].op \in {"send", "continue", "none"})
    BY <1>1 DEF CallInv, HookTypeOK
  <2>3. CASE run[q].op = "none"
    BY <2>1, <2>2, <2>3, IdsApart DEF CallShape
  <2>4. CASE run[q].op = "send"
    BY <2>1, <2>2, <2>4, IdsApart DEF CallShape
  <2>5. CASE run[q].op = "continue"
    <3>1. run[q].pc # "idle"
      BY <2>2, <2>5 DEF CallShape
    <3>2. ~(r < q)
      BY <1>1, <1>2, <3>1 DEF CallInv, CallsInOrder
    <3>3. PICK p \in Runs : p < q /\ run[q].target = RowId(p)
      BY <2>2, <2>5 DEF CallShape
    <3>4. run[q].target # RowId(r)
      BY <3>2, <3>3, IdsApart
    <3>5. run[q].row # RowId(r) /\ run[q].row # BubbleId(r)
      <4>1. CASE run[q].row = run[q].target
        BY <3>3, <3>4, <4>1, IdsApart
      <4>2. ASSUME NEW o \in Runs, run[o].op = "continue", run[q].row = RowId(o)
            PROVE  run[q].row # RowId(r) /\ run[q].row # BubbleId(r)
        BY <1>14, <4>2, IdsApart
      <4>. QED
        BY <2>2, <2>5, <4>1, <4>2 DEF CallShape
    <3>6. run[q].target # BubbleId(r)
      BY <3>3, IdsApart
    <3>. QED
      BY <2>1, <3>4, <3>5, <3>6
  <2>. QED
    BY <2>1, <2>2, <2>3, <2>4, <2>5
<1>15. ASSUME NEW i \in DOMAIN messages, NEW q \in Runs
       PROVE  messages'[i].id \in {run[q].target, run[q].row} <=>
                messages[i].id \in {run[q].target, run[q].row}
  <2>1. CASE messages[i].id # run[r].target \/ run[r].op = "continue"
    BY <1>6, <2>1
  <2>2. CASE messages[i].id = run[r].target /\ run[r].op = "send"
    BY <1>14, <2>2
  <2>. QED
    BY <1>8, <2>1, <2>2
<1>16. ASSUME NEW q \in Runs
       PROVE  /\ run'[q].target = run[q].target /\ run'[q].row = run[q].row
              /\ run'[q].tokens = run[q].tokens /\ run'[q].op = run[q].op
              /\ run'[q].pc # "failed" => run[q].pc # "failed"
  BY <1>1, <1>4 DEF GoOn, Goes, Moves
<1>17. TokensInTheirBubble'
  BY <1>5, <1>6, <1>15, <1>16 DEF HookInv, MessageInv, TokensInTheirBubble
<1>18. ASSUME NEW q \in Runs PROVE TokensKept(q)'
  <2>1. TokensKept(q)
    BY DEF HookInv, MessageInv
  <2>. QED
    BY <1>2, <1>3, <1>5, <1>6, <1>15, <1>16, <2>1 DEF TokensKept
<1>. QED
  BY <1>5, <1>10, <1>11, <1>12, <1>13, <1>17, <1>18 DEF MessageInv

(***************************************************************************)
(* A send that fails: its placeholder goes, if it has no row yet.          *)
(***************************************************************************)
\* What a filter leaves when it takes nothing but the end.
LEMMA WithoutTheEnd ==
  ASSUME NEW ms, NEW id, NEW n \in Nat, {i \in DOMAIN ms : ms[i].id # id} = 1 .. n
  PROVE  Without(ms, id) = [k \in 1 .. n |-> ms[k]]
<1> DEFINE left == {i \in DOMAIN ms : ms[i].id # id}
<1>1. left = 1 .. n
  OBVIOUS
<1>2. \A k \in Nat : Cardinality(1 .. k) = k
  <2>1. \A k \in Nat : k = k - 1 + 1 /\ (1 > k => k = 0)
    OBVIOUS
  <2>2. ASSUME NEW k \in Nat PROVE Cardinality(1 .. k) = k
    <3>1. Cardinality(1 .. k) = IF 1 > k THEN 0 ELSE k - 1 + 1
      BY FS_Interval
    <3>. QED
      BY <2>1, <3>1
  <2>. QED
    BY <2>2
<1>3. ASSUME NEW i \in 1 .. n PROVE Cardinality({j \in left : j <= i}) = i
  <2>1. {j \in left : j <= i} = 1 .. i /\ i \in Nat
    BY <1>1
  <2>. QED
    BY <1>2, <2>1
<1>4. ASSUME NEW k \in 1 .. n
      PROVE  (CHOOSE i \in left : Cardinality({j \in left : j <= i}) = k) = k
  <2>1. \A i \in left : Cardinality({j \in left : j <= i}) = k <=> i = k
    BY <1>1, <1>3
  <2> HIDE DEF left
  <2>. QED
    BY <1>1, <2>1
<1>5. Without(ms, id) = [k \in 1 .. Cardinality(left) |->
                           ms[CHOOSE i \in left : Cardinality({j \in left : j <= i}) = k]]
  BY DEF Without
<1>6. Cardinality(left) = n
  BY <1>1, <1>2
<1> HIDE DEF left
<1>. QED
  BY <1>4, <1>5, <1>6

\* The last two messages of a send that fails: its turn, and its bubble or row.
LEMMA FailedTurn ==
  ASSUME HookInv, NEW r \in Runs, Busy(r), run[r].op = "send"
  PROVE  LET n == Len(messages)
             ms == Without(Flushed(r), run[r].target)
         IN  /\ n \in Nat /\ n >= 2 /\ DOMAIN messages = 1 .. n
             /\ messages[n - 1].role = "user" /\ messages[n - 1].body = <<lastUserMessage>>
             /\ \E k \in {n - 1, n} :
                  /\ ms = [i \in 1 .. k |-> Flushed(r)[i]]
                  /\ k = n => messages[n].role = "assistant" /\ messages[n].row # NoId
<1> DEFINE n == Len(messages)
<1>1. /\ n \in Nat /\ n >= 2 /\ DOMAIN messages = 1 .. n
      /\ messages[n - 1].role = "user" /\ messages[n - 1].body = <<lastUserMessage>>
      /\ messages[n].id \in {BubbleId(r), RowId(r)}
      /\ \A i \in DOMAIN messages : messages[i].id = BubbleId(r) => i = n
  BY Typed DEF HookInv, MessageInv, TurnAtEnd
<1>2. run[r].target = BubbleId(r)
  BY DEF HookInv, CallInv, CallShape
<1>3. PICK F : F = Flushed(r)
  OBVIOUS
<1>4. DOMAIN F = 1 .. n /\ \A i \in 1 .. n : F[i].id = messages[i].id
  <2>1. SameBubbles(F)
    BY <1>3, FlushedMoves DEF Moved
  <2>. QED
    BY <1>1, <2>1, SameDomain DEF SameBubbles, HookInv
<1>5. CASE messages[n].id = BubbleId(r)
  <2>1. {i \in DOMAIN F : F[i].id # BubbleId(r)} = 1 .. (n - 1)
    <3>1. \A i \in 1 .. n : F[i].id # BubbleId(r) <=> i # n
      BY <1>1, <1>4, <1>5
    <3>2. ASSUME NEW N \in Nat PROVE 1 .. (N - 1) = {i \in 1 .. N : i # N}
      OBVIOUS
    <3>3. 1 .. (n - 1) = {i \in 1 .. n : i # n}
      BY <1>1, <3>2
    <3> HIDE DEF n
    <3>. QED
      BY <1>4, <3>1, <3>3
  <2>2. Without(F, BubbleId(r)) = [i \in 1 .. (n - 1) |-> F[i]]
    BY <1>1, <2>1, WithoutTheEnd
  <2> HIDE DEF n
  <2>3. n - 1 \in {n - 1, n} /\ n - 1 # n
    BY <1>1
  <2>. QED
    BY <1>1, <1>2, <1>3, <2>2, <2>3 DEF n
<1>6. CASE messages[n].id = RowId(r)
  <2>1. \A i \in 1 .. n : F[i].id # BubbleId(r)
    BY <1>1, <1>4, <1>6, IdsApart
  <2>2. Without(F, BubbleId(r)) = [i \in 1 .. n |-> F[i]]
    <3>1. {i \in DOMAIN F : F[i].id # BubbleId(r)} = 1 .. n
      BY <1>4, <2>1
    <3>. QED
      BY <1>1, <3>1, WithoutTheEnd
  <2>3. MessageShape(messages[n]) /\ n \in DOMAIN messages
    BY <1>1 DEF HookInv, MessageInv
  <2>4. messages[n].role = "assistant" /\ messages[n].row # NoId
    BY <1>6, <2>3 DEF MessageShape
  <2>. QED
    BY <1>1, <1>2, <1>3, <2>2, <2>4
<1>. QED
  BY <1>1, <1>5, <1>6

LEMMA FailedSendKeeps ==
  ASSUME HookInv, NEW r \in Runs, Busy(r), Goes(r, "failed"), run[r].op = "send",
         buffer' = <<>>, messages' = Without(Flushed(r), run[r].target),
         UNCHANGED lastUserMessage
  PROVE  MessageInv' /\ messages' \in Seq(Message)
<1> DEFINE n == Len(messages)
<1>1. PICK F : F = Flushed(r)
  OBVIOUS
<1>2. /\ n \in Nat /\ n >= 2 /\ DOMAIN messages = 1 .. n
      /\ messages[n - 1].role = "user" /\ messages[n - 1].body = <<lastUserMessage>>
      /\ \E k \in {n - 1, n} :
           /\ messages' = [i \in 1 .. k |-> F[i]]
           /\ k = n => messages[n].role = "assistant" /\ messages[n].row # NoId
  BY <1>1, FailedTurn
<1>3. PICK k \in {n - 1, n} :
           /\ messages' = [i \in 1 .. k |-> F[i]]
           /\ k = n => messages[n].role = "assistant" /\ messages[n].row # NoId
  BY <1>2
<1>4. Moved(F) /\ SameBubbles(F) /\ HookTypeOK /\ CallInv
  BY <1>1, FlushedMoves DEF Moved, HookInv
<1>5. F \in Seq(Message) /\ DOMAIN F = 1 .. n /\ k \in Nat /\ 1 .. k \subseteq 1 .. n
  <2>1. F \in Seq(Message) /\ DOMAIN F = 1 .. n
    BY <1>2, <1>4, SameDomain DEF SameBubbles
  <2>2. ASSUME NEW N \in Nat, N >= 2, NEW K \in {N - 1, N} PROVE K \in Nat /\ 1 .. K \subseteq 1 .. N
    <3>1. K \in Nat /\ K <= N
      BY <2>2
    <3>. QED
      BY <3>1
  <2> HIDE DEF n
  <2>. QED
    BY <1>2, <1>3, <2>1, <2>2
<1>6. messages' \in Seq(Message) /\ Len(messages') = k /\ DOMAIN messages' = 1 .. k
      /\ \A i \in 1 .. k : messages'[i] = F[i]
  BY <1>3, <1>5
<1>7. ASSUME NEW i \in DOMAIN messages'
      PROVE  /\ i \in DOMAIN messages /\ messages'[i] = F[i] /\ messages'[i].id = messages[i].id
             /\ messages'[i].role = messages[i].role /\ messages'[i].row = messages[i].row
             /\ messages[i].role = "user" => messages'[i].body = messages[i].body
  BY ZenonT(60), <1>2, <1>4, <1>5, <1>6 DEF SameBubbles
<1> HIDE DEF n
<1>8. GoOn
  BY <1>4, MoveGoesOn DEF Goes, Settled
<1>9. \A q \in Runs : ~Busy(q)'
  <2>1. \A q \in Runs : q # r => ~Busy(q)
    BY <1>4, OwnerIsAlone DEF CallInv
  <2>2. ~Busy(r)'
    BY DEF Goes, Moves, Busy, Live
  <2>. QED
    BY <1>8, <2>1, <2>2 DEF GoOn
<1>10. DistinctIds'
  BY <1>7 DEF HookInv, MessageInv, DistinctIds
<1>11. ErrorShape'
  <2>1. n - 1 \in 1 .. k /\ n - 1 > 0 /\ n - 1 \in {Len(messages') - 1, Len(messages')}
    BY <1>2, <1>3, <1>6
  <2>2. messages'[n - 1].role = "user" /\ messages'[n - 1].body = <<lastUserMessage'>>
    BY <1>2, <1>6, <1>7, <2>1
  <2>3. ASSUME NEW i \in DOMAIN messages', i > n - 1
        PROVE  messages'[i].role = "assistant" /\ messages'[i].row # NoId
    <3>1. i = n /\ k = n
      BY <1>2, <1>3, <1>6, <2>3
    <3>. QED
      BY <1>3, <1>7, <3>1
  <2>. QED
    BY <1>9, <2>1, <2>2, <2>3 DEF ErrorShape
<1>12. ASSUME NEW i \in DOMAIN messages' PROVE MessageShape(messages[i])'
  <2>1. MessageShape(messages[i])
    BY <1>7 DEF HookInv, MessageInv
  <2>2. \A q \in Runs : /\ run'[q].op = run[q].op
                        /\ run'[q].pc = "idle" <=> run[q].pc = "idle"
                        /\ run[q].pc \in Settled => run'[q].pc \in Settled
    BY <1>8 DEF GoOn
  <2>. QED
    BY <1>7, <2>1, <2>2 DEF MessageShape, Settled
<1>13. ASSUME NEW q \in Runs PROVE TurnAtEnd(q)'
  BY <1>9 DEF TurnAtEnd
<1>14. TokensInTheirBubble'
  BY <1>4, <1>7, <1>8 DEF HookInv, MessageInv, TokensInTheirBubble, Moved, GoOn
<1>15. ASSUME NEW q \in Runs PROVE TokensKept(q)'
  <2> SUFFICES ASSUME run'[q].op = "send" \/ run'[q].pc # "failed",
                      NEW i \in DOMAIN messages',
                      messages'[i].id \in {run'[q].target, run'[q].row}
               PROVE  Count(messages'[i].body, q) + Count(buffer', q) = run'[q].tokens
    BY DEF TokensKept
  <2>1. messages[i].id \in {run[q].target, run[q].row} /\ i \in DOMAIN messages
    BY <1>7, <1>8 DEF GoOn
  <2>2. Count(messages[i].body, q) + Count(buffer, q) = run[q].tokens
    BY <1>8, <2>1 DEF HookInv, MessageInv, TokensKept, GoOn
  <2>3. Count(messages'[i].body, q) = Count(messages[i].body, q) + Count(buffer, q)
    BY <1>4, <1>7, <2>1 DEF Moved
  <2>4. run[q].tokens \in Nat /\ run'[q].tokens = run[q].tokens
    BY <1>4 DEF HookTypeOK, Goes, Moves
  <2>5. Count(buffer', q) = 0
    BY CountEmpty
  <2>. QED
    BY <2>2, <2>3, <2>4, <2>5
<1>. QED
  BY <1>6, <1>10, <1>11, <1>12, <1>13, <1>14, <1>15 DEF MessageInv

LEMMA FailKeeps ==
  ASSUME HookInv, NEW r \in Runs, Busy(r), NEW kind, Fail(r, kind)
  PROVE  MessageInv' /\ messages' \in Seq(Message)
<1>1. Goes(r, "failed") /\ buffer' = <<>> /\ UNCHANGED lastUserMessage
  BY FinallyGoes DEF Fail, Finally, HookInv
<1>2. run[r].op = "send" \/ run[r].op = "continue"
  BY DEF HookInv, HookTypeOK, CallInv, CallShape, Busy, Live
<1>3. CASE run[r].op = "send"
  BY <1>1, <1>3, FailedSendKeeps DEF Fail
<1>4. CASE run[r].op = "continue"
  BY <1>1, <1>4, LostContinuationKeeps DEF Fail
<1>. QED
  BY <1>2, <1>3, <1>4

(***************************************************************************)
(* A send: its turn and its bubble go behind what is shown.                *)
(***************************************************************************)
LEMMA LeastNat ==
  ASSUME NEW T \in SUBSET Nat, T # {}
  PROVE  \E x \in T : \A y \in T : x <= y
<1>1. IsWellFoundedOn(OpToRel(<, Nat), Nat)
  BY NatLessThanWellFounded
<1>2. PICK x \in T : \A y \in T : ~ (<<y, x>> \in OpToRel(<, Nat))
  BY <1>1, WFMin
<1>3. \A y \in T : ~ (y < x)
  BY <1>2 DEF OpToRel
<1>. QED
  BY <1>3

LEMMA GreatestOf ==
  ASSUME NEW n \in Nat, NEW S \in SUBSET (1 .. n), S # {}
  PROVE  \E i \in S : \A j \in S : j <= i
<1> DEFINE Above == {k \in Nat : \A j \in S : j <= k}
<1>1. n \in Above
  OBVIOUS
<1>2. PICK k \in Above : \A y \in Above : k <= y
  BY <1>1, LeastNat
<1>3. PICK m \in S : TRUE
  OBVIOUS
<1>4. k \in Nat /\ k >= 1 /\ k - 1 \in Nat
  BY <1>3
<1>5. k - 1 \notin Above
  BY <1>2, <1>4
<1>6. PICK i \in S : ~ (i <= k - 1)
  BY <1>4, <1>5
<1>. QED
  BY <1>2, <1>4, <1>6

LEMMA RemovedShape ==
  ASSUME NEW ms \in Seq(Message), NEW k \in DOMAIN ms
  PROVE  /\ RemoveAt(ms, k) \in Seq(Message)
         /\ \A i \in DOMAIN RemoveAt(ms, k) :
              LET j == IF i < k THEN i ELSE i + 1 IN
                j \in DOMAIN ms /\ RemoveAt(ms, k)[i] = ms[j]
<1> DEFINE a == SubSeq(ms, 1, k - 1)
           b == SubSeq(ms, k + 1, Len(ms))
<1>1. Len(ms) \in Nat /\ k \in 1 .. Len(ms) /\ DOMAIN ms = 1 .. Len(ms)
  OBVIOUS
<1>2. a \in Seq(Message) /\ Len(a) = k - 1 /\ \A i \in 1 .. (k - 1) : a[i] = ms[i]
  BY <1>1
<1>3. b \in Seq(Message) /\ Len(b) = Len(ms) - k
      /\ \A i \in 1 .. (Len(ms) - k) : b[i] = ms[k + i]
  BY <1>1
<1>4. RemoveAt(ms, k) = a \o b
  BY DEF RemoveAt
<1> HIDE DEF a, b
<1>5. a \o b \in Seq(Message) /\ Len(a \o b) = Len(ms) - 1
      /\ DOMAIN (a \o b) = 1 .. (Len(ms) - 1)
  <2>1. a \o b \in Seq(Message) /\ Len(a \o b) = Len(a) + Len(b)
    BY <1>2, <1>3, ConcatProperties
  <2>2. Len(a) + Len(b) = Len(ms) - 1
    BY <1>1, <1>2, <1>3
  <2>3. DOMAIN (a \o b) = 1 .. Len(a \o b)
    BY <2>1
  <2>. QED
    BY <2>1, <2>2, <2>3
<1>6. ASSUME NEW i \in 1 .. (Len(ms) - 1)
      PROVE  LET j == IF i < k THEN i ELSE i + 1 IN j \in DOMAIN ms /\ (a \o b)[i] = ms[j]
  <2>1. CASE i < k
    BY <1>1, <1>2, <1>3, <2>1
  <2>2. CASE ~(i < k)
    <3>1. i - (k - 1) \in 1 .. (Len(ms) - k) /\ k + (i - (k - 1)) = i + 1 /\ i > Len(a)
      BY <1>1, <1>2, <2>2
    <3>2. (a \o b)[i] = b[i - Len(a)]
      BY <1>1, <1>2, <1>3, <3>1
    <3>3. i + 1 \in DOMAIN ms
      BY <1>1
    <3>. QED
      BY <1>2, <1>3, <2>2, <3>1, <3>2, <3>3
  <2>. QED
    BY <2>1, <2>2
<1>. QED
  BY <1>4, <1>5, <1>6

\* What is shown before a send is of the messages, each once.
Shows(shown) ==
  /\ shown \in Seq(Message)
  /\ \A i \in DOMAIN shown : \E j \in DOMAIN messages : shown[i] = messages[j]
  /\ \A i, j \in DOMAIN shown : shown[i].id = shown[j].id => i = j

LEMMA MessagesShow ==
  ASSUME HookInv
  PROVE  Shows(messages)
  BY DEF HookInv, HookTypeOK, MessageInv, DistinctIds, Shows

LEMMA TurnIsRemoved ==
  ASSUME HookTypeOK, NEW text
  PROVE  \/ WithoutLastTurn(text) = messages
         \/ \E k \in DOMAIN messages : WithoutLastTurn(text) = RemoveAt(messages, k)
<1> DEFINE same == {i \in DOMAIN messages : messages[i].role = "user" /\ messages[i].body = <<text>>}
           last == CHOOSE i \in same : \A j \in same : j <= i
<1>1. CASE same = {}
  BY <1>1 DEF WithoutLastTurn
<1>2. CASE same # {}
  <2>1. same \in SUBSET (1 .. Len(messages)) /\ Len(messages) \in Nat
    BY Typed
  <2>2. \E i \in same : \A j \in same : j <= i
    <3> HIDE DEF same
    <3>. QED
      BY <1>2, <2>1, GreatestOf
  <2>3. last \in same
    <3> HIDE DEF same
    <3>. QED
      BY <2>2
  <2>4. last \in DOMAIN messages
    BY <2>3
  <2>5. WithoutLastTurn(text) = RemoveAt(messages, last)
    BY <1>2 DEF WithoutLastTurn
  <2>. QED
    BY <2>4, <2>5
<1>. QED
  BY <1>1, <1>2

LEMMA WithoutTurnShows ==
  ASSUME HookInv, NEW text
  PROVE  Shows(WithoutLastTurn(text))
<1>1. HookTypeOK /\ DistinctIds
  BY DEF HookInv, MessageInv
<1>2. CASE WithoutLastTurn(text) = messages
  BY <1>2, MessagesShow
<1>3. ASSUME NEW k \in DOMAIN messages, WithoutLastTurn(text) = RemoveAt(messages, k)
      PROVE  Shows(WithoutLastTurn(text))
  <2>1. PICK s : s = RemoveAt(messages, k)
    OBVIOUS
  <2>2. /\ s \in Seq(Message)
        /\ \A i \in DOMAIN s : LET j == IF i < k THEN i ELSE i + 1 IN
                                 j \in DOMAIN messages /\ s[i] = messages[j]
    BY <1>1, <2>1, RemovedShape, Typed
  <2>3. \A i, j \in DOMAIN s : s[i].id = s[j].id => i = j
    <3>1. k \in Nat /\ \A i \in DOMAIN s : i \in Nat
      BY <1>1, <2>2, Typed
    <3>. QED
      BY <1>1, <2>2, <3>1 DEF DistinctIds
  <2>. QED
    BY <1>3, <2>1, <2>2, <2>3 DEF Shows
<1>. QED
  BY <1>1, <1>2, <1>3, TurnIsRemoved

\* The calls that were made before a call begins go on as they were.
LEMMA OthersStay ==
  ASSUME HookInv, ~isStreaming, ~Pending, NEW r \in Runs, NEW call, Made(r, call)
  PROVE  /\ run[r].pc = "idle" /\ run[r].op = "none" /\ buffer = <<>> /\ buffer' = <<>>
         /\ error' = "none"
         /\ \A q \in Runs \ {r} : run'[q] = run[q] /\ ~Busy(q)'
         /\ run'[r].op = call.op /\ run'[r].target = call.target /\ run'[r].row = call.row
         /\ run'[r].pc = "fetching" /\ run'[r].tokens = 0
         /\ \A i \in DOMAIN messages : messages[i].role = "assistant" => Count(messages[i].body, r) = 0
<1>1. CallInv /\ HookTypeOK
  BY DEF HookInv
<1>2. \A q \in Runs : ~Busy(q)
  BY <1>1, NobodyBusy
<1>3. /\ run[r].pc = "idle" /\ run[r].op = "none" /\ run[r].target = NoId /\ run[r].row = NoId
      /\ buffer = <<>>
  BY <1>1 DEF Made, Free, CallInv, CallShape, OneOwner, OneStreamAtATime
<1>4. \A q \in Runs \ {r} : run'[q] = run[q] /\ ~Busy(q)'
  BY <1>2 DEF Made, Busy
<1>5. ASSUME NEW i \in DOMAIN messages, messages[i].role = "assistant"
      PROVE  Count(messages[i].body, r) = 0
  <2>1. MessageShape(messages[i]) /\ TokensInTheirBubble
    BY DEF HookInv, MessageInv
  <2>2. NoId[1] = "none"
    BY DEF NoId
  <2>3. messages[i].id # NoId
    BY <2>1, <2>2 DEF MessageShape
  <2>4. ~(Count(messages[i].body, r) > 0)
    BY <1>3, <1>5, <2>1, <2>3 DEF TokensInTheirBubble
  <2>5. Count(messages[i].body, r) \in Nat
    BY <1>1, Typed, PlacesFinite
  <2>. QED
    BY <2>4, <2>5
<1>. QED
  BY <1>3, <1>4, <1>5 DEF Made

LEMMA NewMessages ==
  ASSUME NEW r \in Runs, NEW text \in Runs
  PROVE  /\ User(r, text) \in Message /\ Placeholder(r) \in Message
         /\ User(r, text).id = UserId(r) /\ User(r, text).role = "user"
         /\ User(r, text).row = NoId /\ User(r, text).body = <<text>>
         /\ Placeholder(r).id = BubbleId(r) /\ Placeholder(r).role = "assistant"
         /\ Placeholder(r).row = NoId /\ Placeholder(r).body = <<>>
<1>1. text \in Nat
  BY BoundsAssumption DEF Runs
<1>2. <<text>> \in Seq(Nat) /\ <<>> \in Seq(Nat) /\ <<>> \in Seq(Ids)
  BY <1>1
<1>. QED
  BY <1>2, IdsApart DEF User, Placeholder, Message

LEMMA AppendedShape ==
  ASSUME NEW shown \in Seq(Message), NEW u \in Message, NEW p \in Message
  PROVE  LET n == Len(shown)
             ms == shown \o <<u, p>>
         IN  /\ ms \in Seq(Message) /\ n \in Nat /\ Len(ms) = n + 2 /\ DOMAIN ms = 1 .. (n + 2)
             /\ DOMAIN shown = 1 .. n
             /\ \A i \in 1 .. n : ms[i] = shown[i]
             /\ ms[n + 1] = u /\ ms[n + 2] = p
             /\ \A i \in 1 .. (n + 2) : i \in 1 .. n \/ i = n + 1 \/ i = n + 2
  OBVIOUS

LEMMA SendKeeps ==
  ASSUME HookInv, ~isStreaming, ~Pending, NEW r \in Runs, NEW text \in Runs, NEW shown,
         Shows(shown), SendMessage(r, text, shown)
  PROVE  MessageInv' /\ messages' \in Seq(Message)
<1> DEFINE n == Len(shown)
<1>1. /\ Made(r, [op |-> "send", target |-> BubbleId(r), row |-> RowId(r), text |-> text])
      /\ messages' = shown \o <<User(r, text), Placeholder(r)>>
      /\ lastUserMessage' = text
  BY SendMakes DEF HookInv
<1>2. /\ run[r].pc = "idle" /\ run[r].op = "none" /\ buffer = <<>> /\ buffer' = <<>>
      /\ error' = "none"
      /\ \A q \in Runs \ {r} : run'[q] = run[q] /\ ~Busy(q)'
      /\ run'[r].op = "send" /\ run'[r].target = BubbleId(r) /\ run'[r].row = RowId(r)
      /\ run'[r].pc = "fetching" /\ run'[r].tokens = 0
      /\ \A i \in DOMAIN messages : messages[i].role = "assistant" => Count(messages[i].body, r) = 0
  BY <1>1, OthersStay
<1>3. /\ messages' \in Seq(Message) /\ n \in Nat /\ Len(messages') = n + 2
      /\ DOMAIN messages' = 1 .. (n + 2) /\ DOMAIN shown = 1 .. n
      /\ \A i \in 1 .. n : messages'[i] = shown[i]
      /\ messages'[n + 1] = User(r, text) /\ messages'[n + 2] = Placeholder(r)
      /\ \A i \in 1 .. (n + 2) : i \in 1 .. n \/ i = n + 1 \/ i = n + 2
  BY <1>1, NewMessages, AppendedShape DEF Shows
<1> HIDE DEF n
<1>4. ASSUME NEW i \in 1 .. n
      PROVE  /\ \E j \in DOMAIN messages : messages'[i] = messages[j]
             /\ messages'[i].id # UserId(r) /\ messages'[i].id # BubbleId(r)
             /\ messages'[i].id # RowId(r) /\ messages'[i].id # NoId
  <2>1. PICK j \in DOMAIN messages : messages'[i] = messages[j]
    BY <1>3 DEF Shows
  <2>2. MessageShape(messages[j])
    BY DEF HookInv, MessageInv
  <2>3. NoId[1] = "none"
    BY DEF NoId
  <2>. QED
    BY <1>2, <2>1, <2>2, <2>3 DEF MessageShape
<1>5. /\ messages'[n + 1].id = UserId(r) /\ messages'[n + 1].role = "user"
      /\ messages'[n + 1].body = <<text>> /\ messages'[n + 1].row = NoId
      /\ messages'[n + 2].id = BubbleId(r) /\ messages'[n + 2].role = "assistant"
      /\ messages'[n + 2].body = <<>> /\ messages'[n + 2].row = NoId
  BY <1>3, NewMessages
<1>6. DistinctIds'
  <2>1. \A i, j \in 1 .. n : messages'[i].id = messages'[j].id => i = j
    BY <1>3 DEF Shows
  <2>2. UserId(r) # BubbleId(r)
    BY IdsApart
  <2>. QED
    BY <1>3, <1>4, <1>5, <2>1, <2>2 DEF DistinctIds
<1>7. ErrorShape'
  BY <1>2 DEF ErrorShape
<1>8. ASSUME NEW i \in DOMAIN messages' PROVE MessageShape(messages[i])'
  <2>1. CASE i \in 1 .. n
    <3>1. PICK j \in DOMAIN messages : messages'[i] = messages[j]
      BY <1>4, <2>1
    <3>2. MessageShape(messages[j])
      BY DEF HookInv, MessageInv
    <3>3. \A q \in Runs : /\ run[q].op \in {"send", "continue"} => run'[q].op = run[q].op
                          /\ run[q].pc # "idle" => run'[q].pc = run[q].pc
                          /\ run[q].op = "send" => run'[q].pc = run[q].pc
      BY <1>2
    <3>. QED
      BY <3>1, <3>2, <3>3 DEF MessageShape
  <2>2. CASE i = n + 1
    <3>1. UserId(r)[1] = "user" /\ UserId(r) = <<"user", r>>
      BY DEF UserId
    <3>2. \A q \in Runs : UserId(r) # BubbleId(q) /\ UserId(r) # RowId(q)
                          /\ (UserId(r) = UserId(q) => q = r)
      BY IdsApart
    <3>. QED
      BY <1>2, <1>5, <2>2, <3>1, <3>2 DEF MessageShape
  <2>3. CASE i = n + 2
    <3>1. BubbleId(r)[1] = "bubble" /\ BubbleId(r) = <<"bubble", r>>
      BY DEF BubbleId
    <3>2. \A q \in Runs : BubbleId(r) # UserId(q) /\ BubbleId(r) # RowId(q)
                          /\ (BubbleId(r) = BubbleId(q) => q = r)
      BY IdsApart
    <3>. QED
      BY <1>2, <1>5, <2>3, <3>1, <3>2 DEF MessageShape
  <2>. QED
    BY <1>3, <2>1, <2>2, <2>3
<1>9. ASSUME NEW q \in Runs PROVE TurnAtEnd(q)'
  <2>1. CASE q # r
    BY <1>2, <2>1 DEF TurnAtEnd
  <2>2. CASE q = r
    <3>1. n + 2 >= 2 /\ (n + 2) - 1 = n + 1
      BY <1>3
    <3>2. \A i \in 1 .. (n + 2) : messages'[i].id = BubbleId(r) => i = n + 2
      BY <1>3, <1>4, <1>5, IdsApart
    <3>. QED
      BY <1>1, <1>3, <1>5, <2>2, <3>1, <3>2 DEF TurnAtEnd
  <2>. QED
    BY <2>1, <2>2
<1>10. ASSUME NEW i \in DOMAIN messages', NEW q \in Runs
       PROVE  /\ messages'[i].role = "assistant" /\ Count(messages'[i].body, q) > 0
                   => messages'[i].id \in {run'[q].target, run'[q].row}
              /\ (run'[q].op = "send" \/ run'[q].pc # "failed")
                 /\ messages'[i].id \in {run'[q].target, run'[q].row}
                   => Count(messages'[i].body, q) = run'[q].tokens
  <2>1. CASE i \in 1 .. n /\ q # r
    <3>1. PICK j \in DOMAIN messages : messages'[i] = messages[j]
      BY <1>4, <2>1
    <3>2. TokensInTheirBubble /\ TokensKept(q) /\ run'[q] = run[q]
      BY <1>2, <2>1 DEF HookInv, MessageInv
    <3>3. Count(buffer, q) = 0 /\ Count(messages[j].body, q) \in Nat
      BY <1>2, CountEmpty, PlacesFinite, Typed DEF HookInv
    <3>. QED
      BY <3>1, <3>2, <3>3 DEF TokensInTheirBubble, TokensKept
  <2>2. CASE i \in 1 .. n /\ q = r
    <3>1. PICK j \in DOMAIN messages : messages'[i] = messages[j]
      BY <1>4, <2>2
    <3>2. messages'[i].role = "assistant" => Count(messages'[i].body, r) = 0
      BY <1>2, <3>1
    <3>3. messages'[i].id \notin {run'[q].target, run'[q].row}
      BY <1>2, <1>4, <2>2
    <3>. QED
      BY <2>2, <3>2, <3>3
  <2>3. CASE i \notin 1 .. n
    <3>1. i = n + 1 \/ i = n + 2
      BY <1>3, <2>3
    <3>2. Count(<<>>, q) = 0
      BY CountEmpty
    <3>3. CASE q = r
      <4>1. UserId(r) # BubbleId(r) /\ UserId(r) # RowId(r)
        BY IdsApart
      <4>. QED
        BY <1>2, <1>5, <3>1, <3>2, <3>3, <4>1
    <3>4. CASE q # r
      <4>1. CallShape(q) /\ run'[q] = run[q] /\ run[q].op \in {"none", "send", "continue"}
        BY <1>2, <3>4 DEF HookInv, CallInv, HookTypeOK
      <4>2. \A o \in Runs : /\ RowId(o) \notin {UserId(r), BubbleId(r)}
                            /\ (BubbleId(o) \in {UserId(r), BubbleId(r)} => o = r)
                            /\ NoId \notin {UserId(r), BubbleId(r)}
        BY IdsApart
      <4>3. run[q].target \notin {UserId(r), BubbleId(r)}
            /\ run[q].row \notin {UserId(r), BubbleId(r)}
        <5>1. CASE run[q].op = "none"
          BY <4>1, <4>2, <5>1 DEF CallShape
        <5>2. CASE run[q].op = "send"
          BY <3>4, <4>1, <4>2, <5>2 DEF CallShape
        <5>3. CASE run[q].op = "continue"
          BY <4>1, <4>2, <5>3 DEF CallShape
        <5>. QED
          BY <4>1, <5>1, <5>2, <5>3
      <4>. QED
        BY <1>5, <3>1, <3>2, <4>1, <4>3
    <3>. QED
      BY <3>3, <3>4
  <2>. QED
    BY <2>1, <2>2, <2>3
<1>11. TokensInTheirBubble'
  BY <1>10 DEF TokensInTheirBubble
<1>12. ASSUME NEW q \in Runs PROVE TokensKept(q)'
  <2>1. Count(buffer', q) = 0
    BY <1>2, CountEmpty
  <2>2. run'[q].tokens \in Nat
    BY <1>2 DEF HookInv, HookTypeOK
  <2>3. \A i \in DOMAIN messages' : messages'[i].body \in Seq(Nat)
    <3>1. \A i \in DOMAIN messages' : messages'[i] \in Message
      BY <1>3
    <3>2. \A m \in Message : m.body \in Seq(Nat)
      BY DEF Message
    <3>. QED
      BY <3>1, <3>2
  <2>4. \A i \in DOMAIN messages' : Count(messages'[i].body, q) \in Nat
    BY <2>3, PlacesFinite
  <2>. QED
    BY <1>10, <2>1, <2>2, <2>4 DEF TokensKept
<1>. QED
  BY <1>3, <1>6, <1>7, <1>8, <1>9, <1>11, <1>12 DEF MessageInv

LEMMA AutoContinueKeeps ==
  ASSUME HookInv, ~Pending, NEW r \in Runs, AutoContinue(r)
  PROVE  MessageInv' /\ messages' \in Seq(Message)
<1>1. PICK m \in Message :
        /\ m = messages[Len(messages)] /\ m.role = "assistant"
        /\ Made(r, [op |-> "continue", target |-> m.id, row |-> m.row, text |-> 0])
        /\ UNCHANGED <<messages, lastUserMessage, current>> /\ ~isStreaming
        /\ \E q \in Runs : m.id = RowId(q)
        /\ m.row = m.id \/ \E p \in Runs : run[p].op = "continue" /\ m.row = RowId(p)
  BY AutoContinueMakes, Typed DEF HookInv
<1>2. /\ run[r].pc = "idle" /\ run[r].op = "none" /\ buffer = <<>> /\ buffer' = <<>>
      /\ error' = "none"
      /\ \A q \in Runs \ {r} : run'[q] = run[q] /\ ~Busy(q)'
      /\ run'[r].op = "continue" /\ run'[r].target = m.id /\ run'[r].row = m.row
      /\ run'[r].pc = "fetching" /\ run'[r].tokens = 0
      /\ \A i \in DOMAIN messages : messages[i].role = "assistant" => Count(messages[i].body, r) = 0
  BY <1>1, OthersStay
<1>3. messages' = messages /\ HookTypeOK
  BY <1>1 DEF HookInv
<1>4. DistinctIds' /\ ErrorShape'
  BY <1>2, <1>3 DEF DistinctIds, ErrorShape, HookInv, MessageInv
<1>5. ASSUME NEW i \in DOMAIN messages' PROVE MessageShape(messages[i])'
  <2>1. MessageShape(messages[i])
    BY <1>3 DEF HookInv, MessageInv
  <2>2. \A q \in Runs : /\ run[q].op \in {"send", "continue"} => run'[q].op = run[q].op
                        /\ run[q].pc # "idle" => run'[q].pc = run[q].pc
                        /\ run[q].op = "send" => run'[q].pc = run[q].pc
    BY <1>2
  <2>. QED
    BY <1>3, <2>1, <2>2 DEF MessageShape
<1>6. ASSUME NEW q \in Runs PROVE TurnAtEnd(q)'
  BY <1>2 DEF TurnAtEnd
<1>7. TokensInTheirBubble'
  <2> SUFFICES ASSUME NEW i \in DOMAIN messages', NEW q \in Runs,
                      messages'[i].role = "assistant", Count(messages'[i].body, q) > 0
               PROVE  messages'[i].id \in {run'[q].target, run'[q].row}
    BY DEF TokensInTheirBubble
  <2>1. q # r
    BY <1>2, <1>3
  <2>. QED
    BY <1>2, <1>3, <2>1 DEF HookInv, MessageInv, TokensInTheirBubble
<1>8. ASSUME NEW q \in Runs PROVE TokensKept(q)'
  <2>1. CASE q # r
    <3>1. TokensKept(q) /\ run'[q] = run[q]
      BY <1>2, <2>1 DEF HookInv, MessageInv
    <3>. QED
      BY <1>2, <1>3, <3>1 DEF TokensKept
  <2>2. CASE q = r
    <3> SUFFICES ASSUME NEW i \in DOMAIN messages', messages'[i].id \in {run'[r].target, run'[r].row}
                 PROVE  Count(messages'[i].body, r) + Count(buffer', r) = run'[r].tokens
      BY <2>2 DEF TokensKept
    <3>1. \E q1 \in Runs : messages[i].id = RowId(q1)
      BY <1>1, <1>2, <1>3
    <3>2. MessageShape(messages[i])
      BY <1>3 DEF HookInv, MessageInv
    <3>3. messages[i].role = "assistant"
      BY <3>1, <3>2 DEF MessageShape
    <3>4. Count(messages[i].body, r) = 0 /\ Count(buffer', r) = 0
      BY <1>2, <1>3, <3>3, CountEmpty
    <3>. QED
      BY <1>2, <1>3, <3>4
  <2>. QED
    BY <2>1, <2>2
<1>. QED
  BY <1>3, <1>4, <1>5, <1>6, <1>7, <1>8 DEF MessageInv, HookTypeOK

(***************************************************************************)
(* The messages between two steps of the hook.                             *)
(***************************************************************************)
LEMMA NetworkKeeps ==
  ASSUME HookInv, NEW r \in Runs, NetworkStep(r)
  PROVE  MessageInv' /\ messages' \in Seq(Message)
<1>1. run[r].pc \in Live => Busy(r)
  BY DEF Busy
<1>2. CASE RefusedBody(r)
  BY <1>1, <1>2, FailKeeps DEF RefusedBody, Live
<1>3. CASE ContinuationRefused(r)
  BY <1>1, <1>3, FailKeeps DEF ContinuationRefused, Live
<1>4. CASE NetFail(r)
  BY <1>1, <1>4, FailKeeps DEF NetFail, Live
<1>5. CASE EndOfStream(r)
  BY <1>5, EndKeeps DEF EndOfStream
<1>. QED
  BY <1>2, <1>3, <1>4, <1>5, HeadersKeeps, RefusedKeeps, FirstEventKeeps, ChunkKeeps, MetaKeeps,
     DoneKeeps DEF NetworkStep

LEMMA AbortKeeps ==
  ASSUME HookInv, NEW r \in Runs, AbortLands(r)
  PROVE  MessageInv' /\ messages' \in Seq(Message)
<1>1. CASE run[r].pc = "aborted" /\ Finally(r, "ended")
           /\ messages' = (IF run[r].op = "send" THEN Flushed(r) ELSE messages)
           /\ UNCHANGED <<error, conversationId, lastUserMessage>>
  BY <1>1, EndKeeps
<1>2. CASE run[r].pc = "body aborted" /\ \E kind \in {"auth", "rate_limit", "server"} : Fail(r, kind)
  BY <1>2, FailKeeps DEF Busy
<1>. QED
  BY <1>1, <1>2 DEF AbortLands

LEMMA MessagesInvariant ==
  ASSUME HookInv, HookStep
  PROVE  MessageInv' /\ messages' \in Seq(Message)
<1>1. ASSUME NEW r \in Runs, ~Pending, Retry(r) PROVE MessageInv' /\ messages' \in Seq(Message)
  <2>1. lastUserMessage \in Runs /\ ~isStreaming
    BY <1>1 DEF Retry, HookInv, HookTypeOK, NoRun
  <2>2. PICK shown : shown = WithoutLastTurn(lastUserMessage)
    OBVIOUS
  <2>3. Shows(shown) /\ SendMessage(r, lastUserMessage, shown)
    BY <1>1, <2>2, WithoutTurnShows DEF Retry
  <2>. QED
    BY <1>1, <2>1, <2>3, SendKeeps
<1>2. ASSUME NEW r \in Runs, ~Pending, HandleSend(r) PROVE MessageInv' /\ messages' \in Seq(Message)
  BY <1>2, MessagesShow, SendKeeps DEF HandleSend
<1>. QED
  BY <1>1, <1>2, AutoContinueKeeps, NetworkKeeps, AbortKeeps, FrameKeeps, CancelKeeps DEF HookStep

(***************************************************************************)
(* The types of everything else.                                           *)
(***************************************************************************)
RunsTyped ==
  /\ DOMAIN run = Runs
  /\ \A r \in Runs :
       /\ DOMAIN run[r] = DOMAIN Idle
       /\ run[r].pc \in PcStates /\ run[r].op \in {"none", "send", "continue"}
       /\ run[r].target \in Ids /\ run[r].row \in Ids /\ run[r].conv \in Ids
       /\ run[r].text \in Runs \cup {NoRun} /\ run[r].tokens \in 0..MaxTokens
       /\ run[r].opened \in BOOLEAN /\ run[r].cut \in BOOLEAN

SharedTyped ==
  /\ isStreaming \in BOOLEAN
  /\ error \in {"none", "auth", "rate_limit", "server", "network"}
  /\ conversationId \in Ids /\ current \in Ids
  /\ raf \in Runs \cup {NoRun} /\ flushNow \in Runs \cup {NoRun}
  /\ controller \in Runs \cup {NoRun}
  /\ lastUserMessage \in Runs \cup {NoRun}
  /\ buffer \in Seq(Runs)

LEMMA TypeParts ==
  HookTypeOK <=> messages \in Seq(Message) /\ SharedTyped /\ RunsTyped
  BY DEF HookTypeOK, SharedTyped, RunsTyped

LEMMA MovesTyped ==
  ASSUME RunsTyped, NEW r \in Runs, NEW to, Moves(r, to),
         run'[r].tokens \in 0 .. MaxTokens, run'[r].opened \in BOOLEAN
  PROVE  RunsTyped'
<1>1. ASSUME NEW q \in Runs
      PROVE  /\ DOMAIN run'[q] = DOMAIN Idle
             /\ run'[q].pc \in PcStates /\ run'[q].op \in {"none", "send", "continue"}
             /\ run'[q].target \in Ids /\ run'[q].row \in Ids /\ run'[q].conv \in Ids
             /\ run'[q].text \in Runs \cup {NoRun} /\ run'[q].tokens \in 0..MaxTokens
             /\ run'[q].opened \in BOOLEAN /\ run'[q].cut \in BOOLEAN
  <2>1. CASE q = r
    BY <2>1 DEF RunsTyped, Moves
  <2>2. CASE q # r
    BY <2>2 DEF RunsTyped, Moves
  <2>. QED
    BY <2>1, <2>2
<1>. QED
  BY <1>1 DEF RunsTyped, Moves

LEMMA GoesTyped ==
  ASSUME RunsTyped, NEW r \in Runs, NEW to, Goes(r, to)
  PROVE  RunsTyped'
  BY MovesTyped DEF Goes, RunsTyped

LEMMA MadeTyped ==
  ASSUME RunsTyped, SharedTyped, NEW r \in Runs, NEW call, Made(r, call),
         call.op \in {"send", "continue"}, call.target \in Ids, call.row \in Ids,
         call.text \in Runs \cup {NoRun}, lastUserMessage' \in Runs \cup {NoRun}, current' \in Ids
  PROVE  RunsTyped' /\ SharedTyped'
<1>1. 0 \in 0 .. MaxTokens
  BY BoundsAssumption
<1>2. ASSUME NEW q \in Runs
      PROVE  /\ DOMAIN run'[q] = DOMAIN Idle
             /\ run'[q].pc \in PcStates /\ run'[q].op \in {"none", "send", "continue"}
             /\ run'[q].target \in Ids /\ run'[q].row \in Ids /\ run'[q].conv \in Ids
             /\ run'[q].text \in Runs \cup {NoRun} /\ run'[q].tokens \in 0..MaxTokens
             /\ run'[q].opened \in BOOLEAN /\ run'[q].cut \in BOOLEAN
  <2>1. CASE q = r
    BY <1>1, <2>1 DEF SharedTyped, Made, PcStates, Live
  <2>2. CASE q # r
    BY <2>2 DEF RunsTyped, Made
  <2>. QED
    BY <2>1, <2>2
<1>3. RunsTyped'
  BY <1>2 DEF RunsTyped, Made
<1>4. <<>> \in Seq(Runs)
  OBVIOUS
<1>5. SharedTyped'
  BY <1>4 DEF SharedTyped, Made
<1>. QED
  BY <1>3, <1>5

LEMMA SendTyped ==
  ASSUME RunsTyped, SharedTyped, HookTypeOK, NEW r \in Runs, NEW text \in Runs, NEW shown,
         SendMessage(r, text, shown)
  PROVE  RunsTyped' /\ SharedTyped'
<1>1. /\ Made(r, [op |-> "send", target |-> BubbleId(r), row |-> RowId(r), text |-> text])
      /\ lastUserMessage' = text /\ current' = BubbleId(r)
  BY SendMakes
<1>2. BubbleId(r) \in Ids /\ RowId(r) \in Ids
  BY IdsApart
<1>. QED
  BY <1>1, <1>2, MadeTyped

LEMMA FinallyTyped ==
  ASSUME RunsTyped, SharedTyped, HookTypeOK, NEW r \in Runs, NEW to \in {"ended", "failed"},
         Finally(r, to), error' \in {"none", "auth", "rate_limit", "server", "network"},
         UNCHANGED <<conversationId, lastUserMessage>>
  PROVE  RunsTyped' /\ SharedTyped'
<1>1. RunsTyped'
  BY FinallyGoes, GoesTyped
<1>2. <<>> \in Seq(Runs) /\ NoId \in Ids
  BY DEF NoId, Ids
<1>3. SharedTyped'
  BY <1>2 DEF SharedTyped, Finally
<1>. QED
  BY <1>1, <1>3

LEMMA NetworkTyped ==
  ASSUME RunsTyped, SharedTyped, HookTypeOK, NEW r \in Runs, NetworkStep(r)
  PROVE  RunsTyped' /\ SharedTyped'
<1>0. <<>> \in Seq(Runs)
  OBVIOUS
<1>1. CASE Headers(r) \/ Refused(r) \/ Meta(r)
  <2>1. \E to : Goes(r, to)
    <3>1. CASE Headers(r)
      BY <3>1, StepGoes DEF Headers, PcStates, Live
    <3>2. CASE Refused(r)
      BY <3>2, StepGoes DEF Refused, PcStates, Live
    <3>3. CASE Meta(r)
      BY <3>3, StepGoes DEF Meta, PcStates, Live
    <3>. QED
      BY <1>1, <3>1, <3>2, <3>3
  <2>2. SharedTyped'
    BY <1>0, <1>1 DEF SharedTyped, Headers, Refused, Meta
  <2>. QED
    BY <2>1, <2>2, GoesTyped
<1>2. CASE FirstEvent(r)
  <2>1. Moves(r, "reading") /\ run'[r].tokens \in 0 .. MaxTokens /\ run'[r].opened \in BOOLEAN
    BY <1>2, FirstEventMoves DEF RunsTyped
  <2>2. <<"conv", r>> \in Ids
    <3>1. r \in Nat
      BY Typed
    <3>. QED
      BY <3>1 DEF Ids
  <2>3. conversationId' \in Ids
    BY <1>2, <2>2 DEF FirstEvent, SharedTyped, RunsTyped
  <2>4. SharedTyped'
    BY <1>2, <2>3 DEF SharedTyped, FirstEvent
  <2>. QED
    BY <2>1, <2>4, MovesTyped
<1>3. CASE Chunk(r)
  <2>1. Moves(r, "reading") /\ run'[r].tokens \in 0 .. MaxTokens /\ run'[r].opened \in BOOLEAN
    BY <1>3, ChunkMoves DEF RunsTyped
  <2>2. Append(buffer, r) \in Seq(Runs)
    BY DEF SharedTyped
  <2>3. SharedTyped'
    BY <1>3, <2>2 DEF SharedTyped, Chunk
  <2>. QED
    BY <2>1, <2>3, MovesTyped
<1>4. ASSUME NEW truncated \in BOOLEAN, Done(r, truncated) PROVE RunsTyped' /\ SharedTyped'
  <2>1. SharedTyped'
    BY <1>0, <1>4 DEF SharedTyped, Done
  <2>. QED
    BY <1>4, <2>1, DoneGoes, GoesTyped
<1>5. ASSUME NEW kind \in {"none", "auth", "rate_limit", "server", "network"}, Fail(r, kind)
      PROVE  RunsTyped' /\ SharedTyped'
  BY <1>5, FinallyTyped DEF Fail, SharedTyped
<1>6. CASE EndOfStream(r)
  BY <1>6, FinallyTyped DEF EndOfStream, SharedTyped
<1>7. CASE RefusedBody(r)
  BY <1>5, <1>7 DEF RefusedBody
<1>8. CASE ContinuationRefused(r)
  BY <1>5, <1>8 DEF ContinuationRefused
<1>9. CASE NetFail(r)
  BY <1>5, <1>9 DEF NetFail
<1>. QED
  BY <1>1, <1>2, <1>3, <1>4, <1>6, <1>7, <1>8, <1>9 DEF NetworkStep

LEMMA CancelRuns ==
  ASSUME HookTypeOK, Cancel
  PROVE  run' = run \/ \E r \in Runs, to \in {"aborted", "body aborted"} : Goes(r, to)
<1>1. CASE controller = NoRun \/ run[controller].pc \notin Live
  BY <1>1 DEF Cancel
<1>2. CASE controller # NoRun /\ run[controller].pc \in Live
  <2>1. PICK r \in Runs : controller = r /\ run[r].pc \in Live
    BY <1>2 DEF HookTypeOK
  <2>2. Goes(r, IF run[r].pc = "refused" THEN "body aborted" ELSE "aborted")
    BY <2>1, CancelGoes
  <2>. QED
    BY <2>2
<1>. QED
  BY <1>1, <1>2

LEMMA ContinuationMakes ==
  ASSUME HookTypeOK, NEW r \in Runs, AutoContinue(r)
  PROVE  \E m \in Message :
           /\ Made(r, [op |-> "continue", target |-> m.id, row |-> m.row, text |-> 0])
           /\ UNCHANGED <<messages, lastUserMessage, current>>
<1>1. Len(messages) \in DOMAIN messages
  BY DEF AutoContinue, HookTypeOK
<1>2. messages[Len(messages)] \in Message
  BY <1>1, Typed
<1>3. ContinueMessage(r, messages[Len(messages)])
  BY DEF AutoContinue, Last
<1>. QED
  BY <1>2, <1>3, ContinueMakes

\* Whatever the calls do, all but the messages keeps its type.
LEMMA CallsTyped ==
  ASSUME HookTypeOK, HookStep
  PROVE  RunsTyped' /\ SharedTyped'
<1>1. HookTypeOK /\ RunsTyped /\ SharedTyped
  BY TypeParts
<1>0. <<>> \in Seq(Runs)
  OBVIOUS
<1>2. ASSUME NEW r \in Runs, AbortLands(r) PROVE RunsTyped' /\ SharedTyped'
  BY <1>1, <1>2, FinallyTyped DEF AbortLands, Fail, SharedTyped
<1>3. CASE Frame
  <2>1. SharedTyped'
    BY <1>0, <1>1, <1>3 DEF SharedTyped, Frame
  <2>2. RunsTyped'
    BY <1>1, <1>3 DEF RunsTyped, Frame
  <2>. QED
    BY <2>1, <2>2
<1>4. CASE Cancel
  <2>1. SharedTyped'
    BY <1>0, <1>1, <1>4 DEF SharedTyped, Cancel
  <2>2. CASE run' = run
    BY <1>1, <2>1, <2>2 DEF RunsTyped
  <2>. QED
    BY <1>1, <1>4, <2>1, <2>2, CancelRuns, GoesTyped
<1>5. ASSUME NEW r \in Runs, Retry(r) PROVE RunsTyped' /\ SharedTyped'
  <2>1. lastUserMessage \in Runs
    BY <1>1, <1>5 DEF Retry, SharedTyped, NoRun
  <2>. QED
    BY <1>1, <1>5, <2>1, SendTyped DEF Retry
<1>6. ASSUME NEW r \in Runs, HandleSend(r) PROVE RunsTyped' /\ SharedTyped'
  BY <1>1, <1>6, SendTyped DEF HandleSend
<1>7. ASSUME NEW r \in Runs, AutoContinue(r) PROVE RunsTyped' /\ SharedTyped'
  <2>1. PICK m \in Message :
          /\ Made(r, [op |-> "continue", target |-> m.id, row |-> m.row, text |-> 0])
          /\ UNCHANGED <<lastUserMessage, current>>
    BY <1>1, <1>7, ContinuationMakes
  <2>2. m.id \in Ids /\ m.row \in Ids
    BY DEF Message
  <2>. QED
    BY <1>1, <2>1, <2>2, MadeTyped DEF NoRun, SharedTyped
<1>. QED
  BY <1>1, <1>2, <1>3, <1>4, <1>5, <1>6, <1>7, NetworkTyped DEF HookStep

LEMMA TypesInvariant ==
  ASSUME HookInv, HookStep
  PROVE  HookTypeOK'
<1>1. messages' \in Seq(Message)
  BY MessagesInvariant
<1>2. RunsTyped' /\ SharedTyped'
  BY CallsTyped DEF HookInv
<1>. QED
  BY <1>1, <1>2 DEF HookTypeOK, RunsTyped, SharedTyped

(***************************************************************************)
(* The invariant.                                                          *)
(***************************************************************************)
LEMMA HookStarts ==
  ASSUME HookInit
  PROVE  HookInv
<1> USE DEF HookInit
<1>1. DOMAIN Idle = DOMAIN Idle /\ \A r \in Runs : run[r] = Idle
  OBVIOUS
<1>2. HookTypeOK
  <2>1. RunsTyped
    <3>1. NoId \in Ids /\ NoConv \in Ids /\ 0 \in 0 .. MaxTokens
      BY BoundsAssumption DEF NoId, NoConv, Ids
    <3>. QED
      BY <1>1, <3>1 DEF RunsTyped, Idle, PcStates, NoRun
  <2>2. SharedTyped
    <3>1. <<>> \in Seq(Runs) /\ NoId \in Ids
      BY DEF NoId, Ids
    <3>. QED
      BY <3>1, InitialAssumption DEF SharedTyped, NoRun
  <2>3. messages \in Seq(Message)
    BY InitialAssumption
  <2>. QED
    BY <2>1, <2>2, <2>3, TypeParts
<1>3. \A r \in Runs : ~Busy(r)
  BY <1>1 DEF Busy, Live, Idle
<1>4. CallInv
  <2>1. OneOwner
    BY <1>1, <1>3 DEF OneOwner, OneStreamAtATime, Busy
  <2>2. CallsInOrder /\ KeepsConversation
    BY <1>1 DEF CallsInOrder, KeepsConversation, NoSecondConversation, Idle
  <2>3. \A r \in Runs : CallShape(r)
    BY <1>1 DEF CallShape, Idle
  <2>. QED
    BY <2>1, <2>2, <2>3 DEF CallInv
<1>5. ASSUME NEW i \in DOMAIN messages
      PROVE  /\ messages[i].id[1] = "server" /\ messages[i].row = NoId
             /\ \A r \in Runs : Count(messages[i].body, r) = 0
  <2>1. messages[i].body \in Seq(Nat)
    BY <1>2, Typed
  <2>2. Range(messages[i].body) \cap Runs = {}
    BY InitialAssumption
  <2>3. ASSUME NEW r \in Runs PROVE Count(messages[i].body, r) = 0
    <3>1. r \notin Range(messages[i].body)
      BY <2>2
    <3>. QED
      BY <2>1, <3>1, CountOther
  <2>. QED
    BY <2>3, InitialAssumption
<1>6. /\ NoId[1] = "none"
      /\ \A r \in Runs : UserId(r)[1] = "user" /\ BubbleId(r)[1] = "bubble" /\ RowId(r)[1] = "row"
  BY DEF NoId, UserId, BubbleId, RowId
<1>7. ASSUME NEW i \in DOMAIN messages PROVE MessageShape(messages[i])
  BY <1>5, <1>6 DEF MessageShape
<1>8. ASSUME NEW r \in Runs PROVE TurnAtEnd(r) /\ TokensKept(r)
  <2>1. TurnAtEnd(r)
    BY <1>3 DEF TurnAtEnd
  <2>2. \A i \in DOMAIN messages : messages[i].id # NoId
    BY <1>5, <1>6
  <2>3. TokensKept(r)
    BY <1>1, <2>2 DEF TokensKept, Idle
  <2>. QED
    BY <2>1, <2>3
<1>9. DistinctIds /\ ErrorShape /\ TokensInTheirBubble
  BY <1>5, InitialAssumption DEF DistinctIds, ErrorShape, TokensInTheirBubble
<1>. QED
  BY <1>2, <1>4, <1>7, <1>8, <1>9 DEF HookInv, MessageInv

LEMMA HookSteps ==
  ASSUME HookInv, [HookStep]_hookVars
  PROVE  HookInv'
<1>1. CASE HookStep
  BY <1>1, TypesInvariant, CallsInvariant, MessagesInvariant DEF HookInv
<1>2. CASE UNCHANGED hookVars
  <2> USE <1>2 DEF hookVars
  <2>1. HookTypeOK'
    BY DEF HookInv, HookTypeOK
  <2>2. CallInv'
    <3>1. OneOwner'
      BY DEF HookInv, CallInv, OneOwner, OneStreamAtATime, Busy, Pending
    <3>2. CallsInOrder'
      BY DEF HookInv, CallInv, CallsInOrder, Busy
    <3>3. KeepsConversation'
      BY DEF HookInv, CallInv, KeepsConversation, NoSecondConversation
    <3>4. ASSUME NEW r \in Runs PROVE CallShape(r)'
      BY ZenonT(60) DEF HookInv, CallInv, CallShape
    <3>. QED
      BY <3>1, <3>2, <3>3, <3>4 DEF HookInv, CallInv
  <2>3. MessageInv'
    <3>1. DistinctIds' /\ ErrorShape'
      BY DEF HookInv, MessageInv, DistinctIds, ErrorShape, Busy
    <3>2. TokensInTheirBubble'
      BY DEF HookInv, MessageInv, TokensInTheirBubble
    <3>3. ASSUME NEW i \in DOMAIN messages' PROVE MessageShape(messages[i])'
      BY DEF HookInv, MessageInv, MessageShape
    <3>4. ASSUME NEW r \in Runs PROVE TurnAtEnd(r)' /\ TokensKept(r)'
      BY DEF HookInv, MessageInv, TurnAtEnd, TokensKept, Busy
    <3>. QED
      BY <3>1, <3>2, <3>3, <3>4 DEF MessageInv
  <2>. QED
    BY <2>1, <2>2, <2>3 DEF HookInv
<1>. QED
  BY <1>1, <1>2

\* Whatever the network answers, in whatever order frames, aborts and clicks
\* come, the hook's state stays as StreamInvariant describes it.
THEOREM HookInvariant == HookSpec => []HookInv
<1>1. HookInit => HookInv
  BY HookStarts
<1>2. HookInv /\ [HookStep]_hookVars => HookInv'
  BY HookSteps
<1>. QED
  BY <1>1, <1>2, PTL DEF HookSpec

\* Every field useStream keeps, and every request it sends, has its type.
THEOREM HookTypeCorrect == HookSpec => []HookTypeOK
<1>1. HookInv => HookTypeOK
  BY DEF HookInv
<1>. QED
  BY <1>1, HookInvariant, PTL

\* isStreaming keeps the calls apart: at most one is on the network, and the
\* buffer, the frame, the flush and the controller are that call's.
THEOREM StreamsAreAlone == HookSpec => []OneStreamAtATime
<1>1. HookInv => OneStreamAtATime
  BY DEF HookInv, CallInv, OneOwner
<1>. QED
  BY <1>1, HookInvariant, PTL

\* After a send has been told its conversation no send opens a second one.
THEOREM ConversationIsKept == HookSpec => []NoSecondConversation
<1>1. HookInv => NoSecondConversation
  BY DEF HookInv, CallInv, KeepsConversation
<1>. QED
  BY <1>1, HookInvariant, PTL

\* The tokens of a stream are shown in the bubble it was asked for, and in none else.
THEOREM TokensStay == HookSpec => []TokensInTheirBubble
<1>1. HookInv => TokensInTheirBubble
  BY DEF HookInv, MessageInv
<1>. QED
  BY <1>1, HookInvariant, PTL

\* What is left in the buffer is never of a stream that is over.
LEMMA OverIsFlushed ==
  ASSUME HookInv, NEW r \in Runs, run[r].pc \in {"done", "known", "ended", "failed"}
  PROVE  Count(buffer, r) = 0
<1>0. HookTypeOK /\ OneOwner
  BY DEF HookInv, CallInv
<1>1. CASE run[r].pc \in {"done", "known"}
  <2>1. Busy(r) /\ run[r].pc # "reading"
    BY <1>1 DEF Busy, Live
  <2>. QED
    BY <1>0, <2>1, CountEmpty DEF OneOwner
<1>2. CASE run[r].pc \in {"ended", "failed"} /\ \E q \in Runs : Busy(q)
  <2>1. PICK q \in Runs : Busy(q)
    BY <1>2
  <2>2. r # q
    BY <1>2, <2>1 DEF Busy, Live
  <2>. QED
    BY <2>1, <2>2, BufferIsOf
<1>3. CASE ~ \E q \in Runs : Busy(q)
  <2>1. ~isStreaming /\ ~Pending
    BY <1>0, <1>3 DEF OneOwner, Busy, Pending
  <2>. QED
    BY <1>0, <2>1, CountEmpty DEF OneOwner, OneStreamAtATime
<1>. QED
  BY <1>1, <1>2, <1>3

\* A stream that is over - at its end, its error or its abort - has left every
\* token it carried in the bubble it wrote.
THEOREM NoTokenIsDropped == HookSpec => []NoTokenDropped
<1>1. ASSUME HookInv PROVE NoTokenDropped
  <2> SUFFICES ASSUME NEW r \in Runs, NEW i \in DOMAIN messages,
                      run[r].pc \in {"done", "known", "ended"}
                        \/ (run[r].pc = "failed" /\ run[r].op = "send"),
                      messages[i].id \in {run[r].target, run[r].row}
               PROVE  Count(messages[i].body, r) = run[r].tokens
    BY DEF NoTokenDropped
  <2>1. Count(messages[i].body, r) + Count(buffer, r) = run[r].tokens
    BY <1>1 DEF HookInv, MessageInv, TokensKept
  <2>2. Count(buffer, r) = 0
    BY <1>1, OverIsFlushed
  <2>3. Count(messages[i].body, r) \in Nat
    BY <1>1, Typed, PlacesFinite DEF HookInv
  <2>. QED
    BY <2>1, <2>2, <2>3
<1>. QED
  BY <1>1, HookInvariant, PTL

\* The error that retry is offered for is about the turn retry would resend,
\* and no unfinished reply stands under that turn.
THEOREM ErrorIsOfTheLastTurn == HookSpec => []ErrorIsAboutTheLastTurn
<1>1. ASSUME HookInv PROVE ErrorIsAboutTheLastTurn
  <2> SUFFICES ASSUME error # "none"
               PROVE  LET turn == SelectLastInSeq(messages, LAMBDA m : m.role = "user") IN
                        /\ turn > 0 /\ messages[turn].body = <<lastUserMessage>>
                        /\ \A i \in (turn + 1)..Len(messages) : messages[i].row # NoId
    BY DEF ErrorIsAboutTheLastTurn
  <2> DEFINE users == {i \in 1 .. Len(messages) : messages[i].role = "user"}
  <2>1. Len(messages) \in Nat /\ DOMAIN messages = 1 .. Len(messages)
    BY <1>1, Typed DEF HookInv
  <2>2. PICK n \in {Len(messages) - 1, Len(messages)} :
          /\ n > 0 /\ messages[n].role = "user" /\ messages[n].body = <<lastUserMessage>>
          /\ \A i \in DOMAIN messages : i > n => /\ messages[i].role = "assistant"
                                                 /\ messages[i].row # NoId
    BY <1>1 DEF HookInv, MessageInv, ErrorShape
  <2>3. n \in users /\ \A i \in users : n >= i
    <3>1. n \in 1 .. Len(messages)
      <4>1. n > 0
        BY <2>2
      <4>2. \A k \in Nat : \A m \in {k - 1, k} : m > 0 => m \in 1 .. k
        OBVIOUS
      <4> HIDE DEF users
      <4>. QED
        BY <2>1, <4>1, <4>2
    <3>2. ASSUME NEW i \in users, ~(n >= i) PROVE FALSE
      <4>1. i \in DOMAIN messages /\ i > n /\ messages[i].role = "user"
        BY <2>1, <3>1, <3>2
      <4>. QED
        BY <2>2, <4>1
    <3>. QED
      BY <2>2, <3>1, <3>2
  <2>4. SelectLastInSeq(messages, LAMBDA m : m.role = "user") = Max(users)
    BY <2>3 DEF SelectLastInSeq
  <2>5. Max(users) = n
    <3>1. users \subseteq 1 .. Len(messages)
      OBVIOUS
    <3>2. users \subseteq Nat
      <4>1. \A N \in Nat : 1 .. N \subseteq Nat
        OBVIOUS
      <4> HIDE DEF users
      <4>. QED
        BY <2>1, <3>1, <4>1
    <3> HIDE DEF users
    <3>3. \A i \in users : (\A j \in users : i >= j) => i = n
      BY <2>3, <3>2
    <3>. QED
      BY <2>3, <3>3 DEF Max
  <2>6. ASSUME NEW i \in (n + 1) .. Len(messages) PROVE i \in DOMAIN messages /\ i > n
    <3>1. \A N \in Nat : \A k \in 1 .. N : \A j \in (k + 1) .. N : j \in 1 .. N /\ j > k
      OBVIOUS
    <3>2. n \in 1 .. Len(messages)
      BY <2>3
    <3>. QED
      BY <2>1, <3>1, <3>2
  <2>. QED
    BY <2>2, <2>4, <2>5, <2>6
<1>. QED
  BY <1>1, HookInvariant, PTL
=============================================================================
