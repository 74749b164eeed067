------------------------------ MODULE MockProofs ------------------------------
(***************************************************************************)
(* The invariant of MockInterview holds at every step, and what follows    *)
(* from it.                                                                *)
(***************************************************************************)
EXTENDS MockInterview, FiniteSetTheorems, TLAPS

LEMMA PcMembers ==
  /\ {"idle", "refused", "failed", "probe", "stay", "next", "capped", "end"} \cap Running = {}
  /\ Drafting = {"counting", "reacting", "selecting"}
  /\ Running = {"opening", "scoring", "analysing", "issuing", "counting", "reacting", "selecting"}
  /\ Over = {"refused", "failed", "probe", "stay", "next", "capped", "end"}
  /\ Costing = {"opening", "scoring", "analysing", "counting", "reacting", "selecting"}
  BY DEF Running, Drafting, Over, Costing

LEMMA InitInvariant == Init => IInv
<1>. SUFFICES ASSUME Init PROVE IInv
  OBVIOUS
<1>. USE MockAssumption
<1>1. TypeOK
  <2>1. RowTypes
    BY DEF Init, RowTypes
  <2>2. CallTypes
    BY PcMembers DEF Init, CallTypes
  <2>. QED
    BY <2>1, <2>2 DEF TypeOK
<1>2. CostInv
  BY PcMembers DEF Init, CostInv, LockIsADraft, NothingBefore, CopiesAreLogged, RunningCostIsLogged
<1>3. AnswersInv /\ ProbeInv
  BY PcMembers DEF Init, AnswersInv, ProbeInv, CountsAnswers, CountsAreOrdered, LastProbe, Counted
<1>4. ReportInv
  BY DEF Init, ReportInv
<1>. QED
  BY <1>1, <1>2, <1>3, <1>4 DEF IInv

(***************************************************************************)
(* Types.                                                                  *)
(***************************************************************************)
\* Each step moves one call, which was not done.
Moves(c) ==
  /\ pc[c] \in {"idle"} \cup Running /\ pc'[c] \in Running \cup Over
  /\ pc' = [pc EXCEPT ![c] = pc'[c]]

LEMMA GotoMoves ==
  ASSUME TypeOK, NEW c \in Calls, NEW from \in {"idle"} \cup Running, NEW to \in Running \cup Over, Goto(c, from, to)
  PROVE  Moves(c)
  BY DEF TypeOK, CallTypes, Goto, Moves

LEMMA ClientMoves == ASSUME TypeOK, NEW c \in Calls, Client(c) PROVE Moves(c)
<1>. USE PcMembers, GotoMoves
<1>1. CASE StartSession(c)
  BY <1>1 DEF StartSession
<1>2. ASSUME NEW q \in 0 .. Len(questions), SubmitAnswer(c, q) PROVE Moves(c)
  BY <1>2 DEF SubmitAnswer, Loads
<1>3. CASE CompleteAgain(c)
  BY <1>3 DEF CompleteAgain, Loads
<1>4. CASE Complete(c)
  BY <1>4 DEF Complete, Loads
<1>5. CASE Share(c)
  BY <1>5 DEF Share, Loads
<1>. QED
  BY <1>1, <1>2, <1>3, <1>4, <1>5 DEF Client

LEMMA ServerMoves == ASSUME TypeOK, NEW c \in Calls, Server(c) PROVE Moves(c) /\ pc[c] \in Running
<1>. USE PcMembers, GotoMoves DEF Goto
<1>1. CASE ProbeCount(c)
  BY <1>1 DEF ProbeCount
<1>2. CASE SelectorFails(c)
  BY <1>2 DEF SelectorFails
<1>3. CASE IssueShareToken(c)
  BY <1>3 DEF IssueShareToken
<1>4. CASE Fail(c)
  BY <1>4 DEF Fail, Moves, TypeOK, CallTypes
<1>5. ASSUME NEW cost \in Costs, FirstQuestion(c, cost)
      PROVE Moves(c) /\ pc[c] \in Running
  BY <1>5 DEF FirstQuestion
<1>6. ASSUME NEW cost \in Costs, NEW signal \in {"none", "other", "mild", "severe"}, Scored(c, cost, signal)
      PROVE Moves(c) /\ pc[c] \in Running
  BY <1>6 DEF Scored
<1>7. ASSUME NEW cost \in Costs, NEW action \in {"probe", "move_on", "end_question"}, Reacted(c, cost, action)
      PROVE Moves(c) /\ pc[c] \in Running
  BY <1>7 DEF Reacted
<1>8. ASSUME NEW cost \in Costs, NEW action \in {"probe", "move_on", "end_question"}, ReactedMovesOn(c, cost, action)
      PROVE Moves(c) /\ pc[c] \in Running
  BY <1>8 DEF ReactedMovesOn
<1>9. ASSUME NEW cost \in Costs, NEW text \in BOOLEAN, Selected(c, cost, text)
      PROVE Moves(c) /\ pc[c] \in Running
  BY <1>9 DEF Selected
<1>10. ASSUME NEW cost \in Costs, NEW addressed \in BOOLEAN, Analysed(c, cost, addressed)
      PROVE Moves(c) /\ pc[c] \in Running
  BY <1>10 DEF Analysed
<1>. QED
  BY <1>1, <1>2, <1>3, <1>4, <1>5, <1>6, <1>7, <1>8, <1>9, <1>10 DEF Server

LEMMA LogCostTypes ==
  ASSUME TypeOK, NEW c \in Calls, NEW cost \in Costs, NEW commits \in BOOLEAN, LogCost(c, cost, commits)
  PROVE  /\ total' \in Nat /\ spent' \in Nat /\ lock' \in {NoCall, c}
         /\ copy' \in [Calls -> Nat] /\ owed' \in [Calls -> Nat]
<1>1. /\ cost \in Nat /\ copy \in [Calls -> Nat] /\ owed \in [Calls -> Nat] /\ total \in Nat /\ spent \in Nat
  BY MockAssumption DEF TypeOK, RowTypes, CallTypes
<1>2. copy[c] + cost \in Nat /\ owed[c] + cost \in Nat /\ spent + owed[c] + cost \in Nat
  BY <1>1
<1>. QED
  BY <1>1, <1>2 DEF LogCost

LEMMA ClientTypes == ASSUME TypeOK, NEW c \in Calls, Client(c) PROVE TypeOK'
<1>. USE DEF row, tables, memory, reads, PruneStale
<1>0. /\ RowTypes /\ CallTypes /\ total \in Nat /\ answers \subseteq Calls /\ token \in Calls \cup {NoCall}
      /\ pc' \in [Calls -> {"idle"} \cup Running \cup Over]
  BY ClientMoves DEF TypeOK, RowTypes, CallTypes, Moves
<1>1. CASE StartSession(c)
  <2>1. RowTypes'
    BY <1>0, <1>1 DEF StartSession, RowTypes
  <2>2. CallTypes'
    BY <1>0, <1>1 DEF StartSession, Loads, CallTypes
  <2>. QED
    BY <2>1, <2>2 DEF TypeOK
<1>2. ASSUME NEW q \in 0 .. Len(questions), SubmitAnswer(c, q) PROVE TypeOK'
  <2>0. q \in Nat
    <3>1. Len(questions) \in Nat
      BY <1>0 DEF RowTypes
    <3>. QED
      BY <3>1
  <2>1. RowTypes'
    BY <1>0, <1>2 DEF SubmitAnswer, RowTypes
  <2>2. CallTypes'
    <3>1. asked' \in [Calls -> Nat] /\ copy' \in [Calls -> Nat]
      BY <1>0, <1>2, <2>0 DEF SubmitAnswer, CallTypes
    <3>. QED
      BY <1>0, <1>2, <3>1 DEF SubmitAnswer, Loads, CallTypes
  <2>. QED
    BY <2>1, <2>2 DEF TypeOK
<1>3. CASE CompleteAgain(c)
  <2>1. RowTypes'
    BY <1>0, <1>3 DEF CompleteAgain, RowTypes
  <2>2. CallTypes'
    BY <1>0, <1>3 DEF CompleteAgain, Loads, CallTypes
  <2>. QED
    BY <2>1, <2>2 DEF TypeOK
<1>4. CASE Complete(c)
  <2>1. RowTypes'
    BY <1>0, <1>4 DEF Complete, RowTypes
  <2>2. CallTypes'
    BY <1>0, <1>4 DEF Complete, Loads, CallTypes
  <2>. QED
    BY <2>1, <2>2 DEF TypeOK
<1>5. CASE Share(c)
  <2>1. RowTypes'
    BY <1>0, <1>5 DEF Share, RowTypes
  <2>2. CallTypes'
    BY <1>0, <1>5 DEF Share, Loads, CallTypes
  <2>. QED
    BY <2>1, <2>2 DEF TypeOK
<1>. QED
  BY <1>1, <1>2, <1>3, <1>4, <1>5 DEF Client

LEMMA ServerTypes == ASSUME TypeOK, NEW c \in Calls, Server(c) PROVE TypeOK'
<1>. USE DEF row, tables, memory, reads, PruneStale
<1>. pc' \in [Calls -> {"idle"} \cup Running \cup Over]
  BY ServerMoves DEF TypeOK, CallTypes, Moves
<1>. /\ copy[c] \in Nat /\ owed[c] \in Nat /\ prior[c] \in Nat /\ seen[c] \subseteq Calls
  BY DEF TypeOK, CallTypes
<1>. /\ spent \in Nat /\ questions \in Seq(Nat) /\ stale \in BOOLEAN /\ answers \subseteq Calls
  BY DEF TypeOK, RowTypes
<1>0. /\ RowTypes /\ CallTypes
      /\ Len(questions) \in Nat /\ prior[c] + 1 \in Nat /\ spent + owed[c] \in Nat
  BY DEF TypeOK
<1>1. CASE ProbeCount(c)
  <2>1. RowTypes'
    BY <1>0, <1>1 DEF ProbeCount, RowTypes
  <2>2. CallTypes'
    BY <1>0, <1>1 DEF ProbeCount, CallTypes
  <2>. QED
    BY <2>1, <2>2 DEF TypeOK
<1>2. CASE SelectorFails(c)
  <2>1. RowTypes'
    BY <1>0, <1>2 DEF SelectorFails, RowTypes
  <2>2. CallTypes'
    BY <1>0, <1>2 DEF SelectorFails, CallTypes
  <2>. QED
    BY <2>1, <2>2 DEF TypeOK
<1>3. CASE IssueShareToken(c)
  <2>1. RowTypes'
    BY <1>0, <1>3 DEF IssueShareToken, RowTypes
  <2>2. CallTypes'
    BY <1>0, <1>3 DEF IssueShareToken, CallTypes
  <2>. QED
    BY <2>1, <2>2 DEF TypeOK
<1>4. CASE Fail(c)
  <2>1. RowTypes'
    BY <1>0, <1>4 DEF Fail, RowTypes
  <2>2. CallTypes'
    BY <1>0, <1>4 DEF Fail, CallTypes
  <2>. QED
    BY <2>1, <2>2 DEF TypeOK
<1>5. ASSUME NEW cost \in Costs, FirstQuestion(c, cost) PROVE TypeOK'
  <2>1. LogCost(c, cost, TRUE)
    BY <1>5 DEF FirstQuestion
  <2>2. /\ total' \in Nat /\ spent' \in Nat /\ lock' \in Calls \cup {NoCall}
        /\ copy' \in [Calls -> Nat] /\ owed' \in [Calls -> Nat]
    BY <1>0, <2>1, LogCostTypes
  <2>3. RowTypes'
    <3>1. questions' \in Seq(Nat)
      BY <1>0, <1>5 DEF FirstQuestion
    <3>2. /\ status' \in {"absent", "active", "completed"} /\ answers' \subseteq Calls
          /\ UNCHANGED <<token, report, rated, weakness, stale>>
      BY <1>0, <1>5 DEF FirstQuestion, RowTypes
    <3>. QED
      BY <1>0, <2>2, <3>1, <3>2 DEF RowTypes
  <2>4. CallTypes'
    BY <1>0, <1>5, <2>2 DEF FirstQuestion, CallTypes
  <2>. QED
    BY <2>3, <2>4 DEF TypeOK
<1>6. ASSUME NEW cost \in Costs, NEW signal \in {"none", "other", "mild", "severe"}, Scored(c, cost, signal) PROVE TypeOK'
  <2>1. LogCost(c, cost, signal # "none")
    BY <1>6 DEF Scored
  <2>2. /\ total' \in Nat /\ spent' \in Nat /\ lock' \in Calls \cup {NoCall}
        /\ copy' \in [Calls -> Nat] /\ owed' \in [Calls -> Nat]
    BY <1>0, <2>1, LogCostTypes
  <2>3. RowTypes'
    BY <1>0, <1>6, <2>2 DEF Scored, RowTypes, WithSignal
  <2>4. CallTypes'
    BY <1>0, <1>6, <2>2 DEF Scored, CallTypes
  <2>. QED
    BY <2>3, <2>4 DEF TypeOK
<1>7. ASSUME NEW cost \in Costs, NEW action \in {"probe", "move_on", "end_question"}, Reacted(c, cost, action) PROVE TypeOK'
  <2>1. LogCost(c, cost, TRUE)
    BY <1>7 DEF Reacted
  <2>2. /\ total' \in Nat /\ spent' \in Nat /\ lock' \in Calls \cup {NoCall}
        /\ copy' \in [Calls -> Nat] /\ owed' \in [Calls -> Nat]
    BY <1>0, <2>1, LogCostTypes
  <2>3. RowTypes'
    BY <1>0, <1>7, <2>2 DEF Reacted, RowTypes
  <2>4. CallTypes'
    BY <1>0, <1>7, <2>2 DEF Reacted, CallTypes
  <2>. QED
    BY <2>3, <2>4 DEF TypeOK
<1>8. ASSUME NEW cost \in Costs, NEW action \in {"probe", "move_on", "end_question"}, ReactedMovesOn(c, cost, action) PROVE TypeOK'
  <2>1. LogCost(c, cost, stale)
    BY <1>8 DEF ReactedMovesOn
  <2>2. /\ total' \in Nat /\ spent' \in Nat /\ lock' \in Calls \cup {NoCall}
        /\ copy' \in [Calls -> Nat] /\ owed' \in [Calls -> Nat]
    BY <1>0, <2>1, LogCostTypes
  <2>3. RowTypes'
    BY <1>0, <1>8, <2>2 DEF ReactedMovesOn, RowTypes
  <2>4. CallTypes'
    BY <1>0, <1>8, <2>2 DEF ReactedMovesOn, CallTypes
  <2>. QED
    BY <2>3, <2>4 DEF TypeOK
<1>9. ASSUME NEW cost \in Costs, NEW text \in BOOLEAN, Selected(c, cost, text) PROVE TypeOK'
  <2>1. LogCost(c, cost, TRUE)
    BY <1>9 DEF Selected
  <2>2. /\ total' \in Nat /\ spent' \in Nat /\ lock' \in Calls \cup {NoCall}
        /\ copy' \in [Calls -> Nat] /\ owed' \in [Calls -> Nat]
    BY <1>0, <2>1, LogCostTypes
  <2>3. RowTypes'
    <3>1. questions' \in Seq(Nat)
      BY <1>0, <1>9 DEF Selected
    <3>2. /\ status' \in {"absent", "active", "completed"} /\ answers' \subseteq Calls
          /\ UNCHANGED <<token, report, rated, weakness, stale>>
      BY <1>0, <1>9 DEF Selected, RowTypes
    <3>. QED
      BY <1>0, <2>2, <3>1, <3>2 DEF RowTypes
  <2>4. CallTypes'
    BY <1>0, <1>9, <2>2 DEF Selected, CallTypes
  <2>. QED
    BY <2>3, <2>4 DEF TypeOK
<1>10. ASSUME NEW cost \in Costs, NEW addressed \in BOOLEAN, Analysed(c, cost, addressed) PROVE TypeOK'
  <2>1. LogCost(c, cost, TRUE)
    BY <1>10 DEF Analysed
  <2>2. /\ total' \in Nat /\ spent' \in Nat /\ lock' \in Calls \cup {NoCall}
        /\ copy' \in [Calls -> Nat] /\ owed' \in [Calls -> Nat]
    BY <1>0, <2>1, LogCostTypes
  <2>3. RowTypes'
    BY <1>0, <1>10, <2>2 DEF Analysed, RowTypes, MarkAddressed
  <2>4. CallTypes'
    BY <1>0, <1>10, <2>2 DEF Analysed, CallTypes
  <2>. QED
    BY <2>3, <2>4 DEF TypeOK
<1>. QED
  BY <1>1, <1>2, <1>3, <1>4, <1>5, <1>6, <1>7, <1>8, <1>9, <1>10 DEF Server

(***************************************************************************)
(* The running cost.                                                       *)
(***************************************************************************)
LEMMA OthersStay ==
  ASSUME TypeOK, NEW c \in Calls, Moves(c)
  PROVE  (\A d \in Calls \ {c} : pc'[d] = pc[d]) /\ pc'[c] # "idle"
  BY PcMembers DEF TypeOK, CallTypes, Moves

\* A call that begins reads the row, or creates it.
LEMMA BeginCost ==
  ASSUME TypeOK, CostInv, NEW c \in Calls, Moves(c), pc[c] = "idle",
         UNCHANGED <<total, spent, lock, owed>>,
         copy' = copy \/ copy' = [copy EXCEPT ![c] = total],
         pc'[c] \in Costing => copy'[c] = total,
         raced' = (raced \/ \E d \in Calls : pc[d] \in Running),
         \/ status' = status /\ status # "absent"
         \/ status' \in {"absent", "active"} /\ status = "absent" /\ pc'[c] \in {"opening", "refused"}
  PROVE  CostInv'
<1>. USE PcMembers, OthersStay DEF CostInv
<1>. /\ total \in Nat /\ spent \in Nat /\ copy \in [Calls -> Nat] /\ owed \in [Calls -> Nat] /\ raced \in BOOLEAN
  BY DEF TypeOK, RowTypes, CallTypes
<1>1. LockIsADraft'
  BY DEF LockIsADraft
<1>2. NothingBefore'
  BY DEF NothingBefore
<1>3. ASSUME NEW d \in Calls, pc'[d] \in Costing
      PROVE copy'[d] <= spent + owed[d] /\ (~raced' => copy'[d] = spent + owed[d])
  <2>1. CASE d = c
    BY <1>3, <2>1 DEF NothingBefore, RunningCostIsLogged
  <2>2. CASE d # c
    <3>1. pc[d] \in Costing /\ copy'[d] = copy[d] /\ (~raced' => ~raced)
      BY <1>3, <2>2
    <3>. QED
      BY <3>1 DEF CopiesAreLogged
  <2>. QED
    BY <2>1, <2>2
<1>4. ASSUME ~raced', NEW d \in Calls, NEW e \in Calls, pc'[d] \in Running, pc'[e] \in Running
      PROVE d = e
  BY <1>4
<1>5. CopiesAreLogged'
  BY <1>3, <1>4 DEF CopiesAreLogged
<1>6. RunningCostIsLogged'
  BY DEF RunningCostIsLogged
<1>. QED
  BY <1>1, <1>2, <1>5, <1>6

LEMMA ClientCost == ASSUME TypeOK, CostInv, NEW c \in Calls, Client(c) PROVE CostInv'
<1>. Moves(c)
  BY ClientMoves
<1>. USE PcMembers, BeginCost DEF Loads, Goto, row, tables, memory, reads
<1>. /\ copy \in [Calls -> Nat] /\ raced \in BOOLEAN /\ total \in Nat
     /\ pc \in [Calls -> {"idle"} \cup Running \cup Over]
  BY DEF TypeOK, RowTypes, CallTypes
<1>1. CASE StartSession(c)
  <2>1. /\ pc[c] = "idle" /\ status = "absent" /\ copy[c] = 0 /\ total = 0
        /\ \A d \in Calls : pc[d] \notin Running
    BY <1>1 DEF StartSession, CostInv, NothingBefore
  <2>2. raced' = (raced \/ \E d \in Calls : pc[d] \in Running)
    BY <1>1, <2>1 DEF StartSession
  <2>3. status' \in {"absent", "active"} /\ pc'[c] \in {"opening", "refused"}
    BY <1>1, <2>1 DEF StartSession
  <2>4. UNCHANGED <<total, spent, lock, owed, copy>>
    BY <1>1 DEF StartSession
  <2>. QED
    BY <2>1, <2>2, <2>3, <2>4
<1>2. ASSUME NEW q \in 0 .. Len(questions), SubmitAnswer(c, q) PROVE CostInv'
  <2>1. /\ pc[c] = "idle" /\ status # "absent" /\ raced' = (raced \/ \E d \in Calls : pc[d] \in Running)
        /\ UNCHANGED <<total, spent, lock, owed, status>>
    BY <1>2 DEF SubmitAnswer
  <2>2. pc'[c] \in {"refused", "scoring"} /\ IF pc'[c] = "scoring" THEN copy' = [copy EXCEPT ![c] = total] ELSE copy' = copy
    BY <1>2 DEF SubmitAnswer
  <2>. QED
    BY <2>1, <2>2
<1>3. CASE CompleteAgain(c)
  <2>1. /\ pc[c] = "idle" /\ status # "absent" /\ raced' = (raced \/ \E d \in Calls : pc[d] \in Running)
        /\ UNCHANGED <<total, spent, lock, owed, status, copy>> /\ pc'[c] \in {"refused", "end"}
    BY <1>3 DEF CompleteAgain
  <2>. QED
    BY <2>1
<1>4. CASE Complete(c)
  <2>1. /\ pc[c] = "idle" /\ status # "absent" /\ raced' = (raced \/ \E d \in Calls : pc[d] \in Running)
        /\ UNCHANGED <<total, spent, lock, owed, status>> /\ copy' = [copy EXCEPT ![c] = total]
    BY <1>4 DEF Complete
  <2>. QED
    BY <2>1
<1>5. CASE Share(c)
  <2>1. /\ pc[c] = "idle" /\ status # "absent" /\ raced' = (raced \/ \E d \in Calls : pc[d] \in Running)
        /\ UNCHANGED <<total, spent, lock, owed, status, copy>> /\ pc'[c] \in {"refused", "issuing", "end"}
    BY <1>5 DEF Share
  <2>. QED
    BY <2>1
<1>. QED
  BY <1>1, <1>2, <1>3, <1>4, <1>5 DEF Client

\* A cost that is logged, and perhaps committed.
LEMMA LoggedCost ==
  ASSUME TypeOK, CostInv, NEW c \in Calls, NEW cost \in Costs, NEW commits \in BOOLEAN, LogCost(c, cost, commits),
         Moves(c), pc[c] \in Costing, pc'[c] # "issuing", UNCHANGED raced, status' # "absent",
         ~commits => pc'[c] \in Drafting
  PROVE  CostInv'
<1>. USE PcMembers, OthersStay, MockAssumption DEF CostInv
<1>. /\ total \in Nat /\ spent \in Nat /\ copy \in [Calls -> Nat] /\ owed \in [Calls -> Nat] /\ raced \in BOOLEAN
     /\ cost \in Nat /\ cost > 0 /\ lock \in {NoCall, c}
  BY DEF TypeOK, RowTypes, CallTypes, LogCost, Free
<1>0. /\ copy' = [copy EXCEPT ![c] = copy[c] + cost]
      /\ \/ commits /\ lock' = NoCall /\ total' = copy[c] + cost /\ spent' = spent + owed[c] + cost
            /\ owed' = [owed EXCEPT ![c] = 0]
         \/ ~commits /\ lock' = c /\ total' = total /\ spent' = spent /\ owed' = [owed EXCEPT ![c] = owed[c] + cost]
  BY DEF LogCost
<1>1. LockIsADraft'
  BY <1>0 DEF LockIsADraft
<1>2. NothingBefore'
  BY <1>0 DEF NothingBefore
<1>3. copy[c] <= spent + owed[c] /\ (~raced => copy[c] = spent + owed[c])
  BY DEF CopiesAreLogged
<1>4. ASSUME NEW d \in Calls, pc'[d] \in Costing
      PROVE copy'[d] <= spent' + owed'[d] /\ (~raced' => copy'[d] = spent' + owed'[d])
  <2>1. CASE d = c
    BY <1>0, <1>3, <2>1
  <2>2. CASE d # c
    <3>1. pc[d] \in Costing /\ copy'[d] = copy[d] /\ owed'[d] = owed[d] /\ spent <= spent'
      BY <1>0, <1>4, <2>2
    <3>2. copy[d] <= spent + owed[d] /\ raced
      BY <2>2, <3>1 DEF CopiesAreLogged
    <3>. QED
      BY <1>0, <3>1, <3>2
  <2>. QED
    BY <2>1, <2>2
<1>5. ASSUME ~raced', NEW d \in Calls, NEW e \in Calls, pc'[d] \in Running, pc'[e] \in Running
      PROVE d = e
  <2>1. pc[d] \in Running /\ pc[e] \in Running /\ ~raced
    BY <1>5
  <2>. QED
    BY <2>1 DEF CopiesAreLogged
<1>6. CopiesAreLogged'
  BY <1>4, <1>5 DEF CopiesAreLogged
<1>7. RunningCostIsLogged'
  BY <1>0, <1>3 DEF RunningCostIsLogged
<1>. QED
  BY <1>1, <1>2, <1>6, <1>7

\* A step that ends a call or moves it on, and frees the row with what the call has spent.
LEMMA FreedCost ==
  ASSUME TypeOK, CostInv, NEW c \in Calls, Moves(c), pc[c] \in Running, pc'[c] # "issuing",
         UNCHANGED <<raced, status, copy>>,
         \/ UNCHANGED <<total, spent, lock, owed>> /\ (pc[c] \in Drafting => pc'[c] \in Drafting)
         \/ /\ pc'[c] \notin Running /\ lock' = (IF lock = c THEN NoCall ELSE lock)
            /\ owed' = [owed EXCEPT ![c] = 0]
            /\ \/ UNCHANGED <<total, spent>>
               \/ /\ pc[c] \in Costing /\ total' = (IF lock = c THEN copy[c] ELSE total)
                  /\ spent' = spent + owed[c],
         pc'[c] \in Costing => pc[c] \in Costing /\ pc[c] # "opening" /\ owed' = owed /\ spent' = spent
  PROVE  CostInv'
<1>. USE PcMembers, OthersStay, MockAssumption DEF CostInv
<1>. /\ total \in Nat /\ spent \in Nat /\ copy \in [Calls -> Nat] /\ owed \in [Calls -> Nat] /\ raced \in BOOLEAN
  BY DEF TypeOK, RowTypes, CallTypes
<1>1. LockIsADraft'
  BY DEF LockIsADraft
<1>2. NothingBefore'
  BY DEF NothingBefore, LockIsADraft
<1>3. ASSUME NEW d \in Calls, pc'[d] \in Costing
      PROVE copy'[d] <= spent' + owed'[d] /\ (~raced' => copy'[d] = spent' + owed'[d])
  <2>1. CASE d = c
    BY <1>3, <2>1 DEF CopiesAreLogged
  <2>2. CASE d # c
    <3>1. pc[d] \in Costing /\ copy'[d] = copy[d] /\ owed'[d] = owed[d] /\ spent <= spent'
      BY <1>3, <2>2
    <3>2. copy[d] <= spent + owed[d] /\ raced
      BY <2>2, <3>1 DEF CopiesAreLogged
    <3>. QED
      BY <3>1, <3>2
  <2>. QED
    BY <2>1, <2>2
<1>4. ASSUME ~raced', NEW d \in Calls, NEW e \in Calls, pc'[d] \in Running, pc'[e] \in Running
      PROVE d = e
  <2>1. pc[d] \in Running /\ pc[e] \in Running /\ ~raced
    BY <1>4
  <2>. QED
    BY <2>1 DEF CopiesAreLogged
<1>5. CopiesAreLogged'
  BY <1>3, <1>4 DEF CopiesAreLogged
<1>6. RunningCostIsLogged'
  BY DEF RunningCostIsLogged, CopiesAreLogged, LockIsADraft
<1>. QED
  BY <1>1, <1>2, <1>5, <1>6

LEMMA ServerCost == ASSUME TypeOK, CostInv, NEW c \in Calls, Server(c) PROVE CostInv'
<1>. Moves(c) /\ pc[c] \in Running
  BY ServerMoves
<1>. /\ stale \in BOOLEAN /\ pc \in [Calls -> {"idle"} \cup Running \cup Over]
     /\ copy \in [Calls -> Nat] /\ owed \in [Calls -> Nat] /\ lock \in Calls \cup {NoCall}
  BY DEF TypeOK, RowTypes, CallTypes
<1>0. pc[c] = "opening" \/ status # "absent"
  BY DEF CostInv, NothingBefore
<1>. USE PcMembers DEF Goto, row, tables, memory, reads
<1>1. CASE ProbeCount(c)
  BY <1>1, FreedCost DEF ProbeCount
<1>2. CASE SelectorFails(c)
  BY <1>2, FreedCost DEF SelectorFails
<1>3. CASE IssueShareToken(c)
  BY <1>3, FreedCost DEF IssueShareToken
<1>4. CASE Fail(c)
  BY <1>4, FreedCost DEF Fail
<1>5. ASSUME NEW cost \in Costs, FirstQuestion(c, cost) PROVE CostInv'
  <2>1. LogCost(c, cost, TRUE) /\ pc[c] \in Costing /\ pc'[c] # "issuing" /\ UNCHANGED raced
    BY <1>5 DEF FirstQuestion
  <2>2. status' # "absent" /\ (~TRUE => pc'[c] \in Drafting)
    BY <1>0, <1>5 DEF FirstQuestion
  <2>. QED
    BY <2>1, <2>2, LoggedCost
<1>6. ASSUME NEW cost \in Costs, NEW signal \in {"none", "other", "mild", "severe"}, Scored(c, cost, signal) PROVE CostInv'
  <2>1. LogCost(c, cost, signal # "none") /\ pc[c] \in Costing /\ pc'[c] # "issuing" /\ UNCHANGED raced
    BY <1>6 DEF Scored
  <2>2. status' # "absent" /\ (~(signal # "none") => pc'[c] \in Drafting)
    BY <1>0, <1>6 DEF Scored
  <2>3. (signal # "none") \in BOOLEAN
    OBVIOUS
  <2>. QED
    BY <2>1, <2>2, <2>3, LoggedCost
<1>7. ASSUME NEW cost \in Costs, NEW action \in {"probe", "move_on", "end_question"}, Reacted(c, cost, action) PROVE CostInv'
  <2>1. LogCost(c, cost, TRUE) /\ pc[c] \in Costing /\ pc'[c] # "issuing" /\ UNCHANGED raced
    BY <1>7 DEF Reacted
  <2>2. status' # "absent" /\ (~TRUE => pc'[c] \in Drafting)
    BY <1>0, <1>7 DEF Reacted
  <2>. QED
    BY <2>1, <2>2, LoggedCost
<1>8. ASSUME NEW cost \in Costs, NEW action \in {"probe", "move_on", "end_question"}, ReactedMovesOn(c, cost, action) PROVE CostInv'
  <2>1. LogCost(c, cost, stale) /\ pc[c] \in Costing /\ pc'[c] # "issuing" /\ UNCHANGED raced
    BY <1>8 DEF ReactedMovesOn
  <2>2. status' # "absent" /\ (~stale => pc'[c] \in Drafting)
    BY <1>0, <1>8 DEF ReactedMovesOn
  <2>. QED
    BY <2>1, <2>2, LoggedCost
<1>9. ASSUME NEW cost \in Costs, NEW text \in BOOLEAN, Selected(c, cost, text) PROVE CostInv'
  <2>1. LogCost(c, cost, TRUE) /\ pc[c] \in Costing /\ pc'[c] # "issuing" /\ UNCHANGED raced
    BY <1>9 DEF Selected
  <2>2. status' # "absent" /\ (~TRUE => pc'[c] \in Drafting)
    BY <1>0, <1>9 DEF Selected
  <2>. QED
    BY <2>1, <2>2, LoggedCost
<1>10. ASSUME NEW cost \in Costs, NEW addressed \in BOOLEAN, Analysed(c, cost, addressed) PROVE CostInv'
  <2>1. LogCost(c, cost, TRUE) /\ pc[c] \in Costing /\ pc'[c] # "issuing" /\ UNCHANGED raced
    BY <1>10 DEF Analysed
  <2>2. status' # "absent" /\ (~TRUE => pc'[c] \in Drafting)
    BY <1>0, <1>10 DEF Analysed
  <2>. QED
    BY <2>1, <2>2, LoggedCost
<1>. QED
  BY <1>1, <1>2, <1>3, <1>4, <1>5, <1>6, <1>7, <1>8, <1>9, <1>10 DEF Server
(***************************************************************************)
(* The report.                                                             *)
(***************************************************************************)
ReportStep == ReportInv' /\ (report # NoCall => UNCHANGED <<report, rated, status>>)

LEMMA ClientReport == ASSUME TypeOK, ReportInv, NEW c \in Calls, Client(c) PROVE ReportStep
<1>. USE DEF ReportInv, ReportStep, row, tables
<1>1. CASE StartSession(c)
  BY <1>1 DEF StartSession
<1>2. ASSUME NEW q \in 0 .. Len(questions), SubmitAnswer(c, q)
      PROVE  ReportStep
  BY <1>2 DEF SubmitAnswer
<1>3. CASE CompleteAgain(c)
  BY <1>3 DEF CompleteAgain
<1>4. CASE Complete(c)
  BY <1>4 DEF Complete
<1>5. CASE Share(c)
  BY <1>5 DEF Share
<1>. QED
  BY <1>1, <1>2, <1>3, <1>4, <1>5 DEF Client

LEMMA ServerReport == ASSUME TypeOK, ReportInv, NEW c \in Calls, Server(c) PROVE ReportStep
<1>. USE MockAssumption DEF ReportInv, ReportStep, row, tables
<1>1. CASE ProbeCount(c)
  BY <1>1 DEF ProbeCount
<1>2. CASE SelectorFails(c)
  BY <1>2 DEF SelectorFails
<1>3. CASE IssueShareToken(c)
  BY <1>3 DEF IssueShareToken
<1>4. CASE Fail(c)
  BY <1>4 DEF Fail
<1>5. ASSUME NEW cost \in Costs, FirstQuestion(c, cost)
      PROVE  ReportStep
  BY <1>5 DEF FirstQuestion
<1>6. ASSUME NEW cost \in Costs, NEW signal \in {"none", "other", "mild", "severe"}, Scored(c, cost, signal)
      PROVE  ReportStep
  BY <1>6 DEF Scored
<1>7. ASSUME NEW cost \in Costs, NEW action \in {"probe", "move_on", "end_question"}, Reacted(c, cost, action)
      PROVE  ReportStep
  BY <1>7 DEF Reacted
<1>8. ASSUME NEW cost \in Costs, NEW action \in {"probe", "move_on", "end_question"}, ReactedMovesOn(c, cost, action)
      PROVE  ReportStep
  BY <1>8 DEF ReactedMovesOn
<1>9. ASSUME NEW cost \in Costs, NEW text \in BOOLEAN, Selected(c, cost, text)
      PROVE  ReportStep
  BY <1>9 DEF Selected
<1>10. ASSUME NEW cost \in Costs, NEW addressed \in BOOLEAN, Analysed(c, cost, addressed)
      PROVE  ReportStep
  BY <1>10 DEF Analysed
<1>. QED
  BY <1>1, <1>2, <1>3, <1>4, <1>5, <1>6, <1>7, <1>8, <1>9, <1>10 DEF Server

(***************************************************************************)
(* The answers and the probes.                                             *)
(***************************************************************************)
\* What a step of a call leaves alone, and when it may commit its answer.
AnswerStep(c) ==
  /\ pc[c] = "idle" => answers' = answers /\ pc'[c] \notin Drafting \cup {"probe"}
  /\ pc[c] # "idle" => UNCHANGED asked
  /\ \A d \in Calls \ {c} : asked'[d] = asked[d] /\ seen'[d] = seen[d]
  /\ lock' \in {lock, NoCall, c} /\ (lock' # lock => lock \in {NoCall, c})
  /\ answers' \in {answers, answers \cup {c}} /\ (c \in answers' => c \in answers \/ lock \in {NoCall, c})
  /\ pc'[c] \in Drafting => lock' = c \/ c \in answers'
  /\ pc'[c] = "probe" => c \in answers'

LEMMA ClientAnswers == ASSUME TypeOK, NEW c \in Calls, Client(c) PROVE AnswerStep(c) /\ ~Counted(c)'
<1>. USE PcMembers DEF AnswerStep, Counted, Loads, Goto, row, tables, memory, reads
<1>. /\ pc \in [Calls -> {"idle"} \cup Running \cup Over] /\ asked \in [Calls -> Nat] /\ seen \in [Calls -> SUBSET Calls]
  BY DEF TypeOK, CallTypes
<1>1. CASE StartSession(c)
  BY <1>1 DEF StartSession
<1>2. ASSUME NEW q \in 0 .. Len(questions), SubmitAnswer(c, q)
      PROVE  AnswerStep(c) /\ ~Counted(c)'
  BY <1>2 DEF SubmitAnswer
<1>3. CASE CompleteAgain(c)
  BY <1>3 DEF CompleteAgain
<1>4. CASE Complete(c)
  BY <1>4 DEF Complete
<1>5. CASE Share(c)
  BY <1>5 DEF Share
<1>. QED
  BY <1>1, <1>2, <1>3, <1>4, <1>5 DEF Client

\* The model asks for another answer to the same question, and may.
Probed(c) ==
  /\ pc[c] = "reacting" /\ pc' = [pc EXCEPT ![c] = "probe"] /\ lock' = NoCall /\ UNCHANGED <<asked, seen>>
  /\ Cardinality(seen[c]) < MaxProbes

LEMMA CountIsNat == ASSUME TypeOK, NEW c \in Calls PROVE Cardinality(seen[c]) \in Nat
  BY MockAssumption, FS_Subset, FS_CardinalityType DEF TypeOK, CallTypes

LEMMA ServerAnswers ==
  ASSUME TypeOK, AnswersInv, NEW c \in Calls, Server(c)
  PROVE  AnswerStep(c) /\ (ProbeCount(c) \/ Probed(c) \/ ~Counted(c)')
<1>. DEFINE Goal == AnswerStep(c) /\ (ProbeCount(c) \/ Probed(c) \/ ~Counted(c)')
<1>. USE PcMembers, MockAssumption, CountIsNat DEF Goal, AnswerStep, Counted, Probed, LogCost, Free, Goto, row, tables, memory, reads
<1>. /\ pc \in [Calls -> {"idle"} \cup Running \cup Over] /\ asked \in [Calls -> Nat] /\ seen \in [Calls -> SUBSET Calls]
     /\ stale \in BOOLEAN /\ MaxProbes \in Nat /\ lock \in Calls \cup {NoCall}
  BY DEF TypeOK, RowTypes, CallTypes
<1>1. CASE ProbeCount(c)
  BY <1>1 DEF ProbeCount, AnswersInv
<1>2. CASE SelectorFails(c)
  BY <1>2 DEF SelectorFails, AnswersInv
<1>3. CASE IssueShareToken(c)
  BY <1>3 DEF IssueShareToken
<1>4. CASE Fail(c)
  BY <1>4 DEF Fail
<1>5. ASSUME NEW cost \in Costs, FirstQuestion(c, cost)
      PROVE  Goal
  BY <1>5 DEF FirstQuestion
<1>6. ASSUME NEW cost \in Costs, NEW signal \in {"none", "other", "mild", "severe"}, Scored(c, cost, signal)
      PROVE  Goal
  BY <1>6 DEF Scored
<1>7. ASSUME NEW cost \in Costs, NEW action \in {"probe", "move_on", "end_question"}, Reacted(c, cost, action)
      PROVE  Goal
  <2>1. AnswerStep(c)
    BY <1>7 DEF Reacted
  <2>2. /\ pc[c] = "reacting" /\ pc'[c] \in {"capped", "probe", "stay"} /\ pc' = [pc EXCEPT ![c] = pc'[c]]
        /\ lock' = NoCall /\ UNCHANGED <<asked, seen>>
    BY <1>7 DEF Reacted
  <2>3. ASSUME pc'[c] = "probe" PROVE Cardinality(seen[c]) < MaxProbes
    <3>1. action = "probe" /\ ~MovesOn(c, action)
      BY <1>7, <2>3 DEF Reacted
    <3>. QED
      BY <3>1 DEF MovesOn
  <2>. QED
    BY <2>1, <2>2, <2>3
<1>8. ASSUME NEW cost \in Costs, NEW action \in {"probe", "move_on", "end_question"}, ReactedMovesOn(c, cost, action)
      PROVE  Goal
  BY <1>8 DEF ReactedMovesOn
<1>9. ASSUME NEW cost \in Costs, NEW text \in BOOLEAN, Selected(c, cost, text)
      PROVE  Goal
  BY <1>9 DEF Selected
<1>10. ASSUME NEW cost \in Costs, NEW addressed \in BOOLEAN, Analysed(c, cost, addressed)
      PROVE  Goal
  BY <1>10 DEF Analysed
<1>. QED
  BY <1>1, <1>2, <1>3, <1>4, <1>5, <1>6, <1>7, <1>8, <1>9, <1>10 DEF Server

LEMMA AnswersStep == ASSUME TypeOK, AnswersInv, NEW c \in Calls, Moves(c), AnswerStep(c) PROVE AnswersInv'
<1>1. /\ \A d \in Calls \ {c} : pc'[d] = pc[d] /\ (lock' # d => lock # d)
      /\ pc'[c] # "idle" /\ answers \subseteq Calls
  BY OthersStay, MockAssumption DEF AnswerStep, TypeOK, RowTypes
<1>2. /\ answers \subseteq answers' /\ answers' \subseteq answers \cup {c}
  BY DEF AnswerStep
<1>. QED
  BY <1>1, <1>2 DEF AnswersInv, AnswerStep

\* A call that neither counts nor is counted leaves the order of the others alone.
LEMMA UncountedProbes ==
  ASSUME TypeOK, AnswersInv, ProbeInv, NEW c \in Calls, Moves(c), AnswerStep(c), ~Counted(c)'
  PROVE  ProbeInv'
<1>1. \A d \in Calls \ {c} : pc'[d] = pc[d] /\ asked'[d] = asked[d] /\ seen'[d] = seen[d]
  BY OthersStay DEF AnswerStep
<1>2. ASSUME NEW d \in Calls, Counted(d)' PROVE d # c /\ Counted(d)
  BY <1>1, <1>2 DEF Counted
<1>3. \A a \in answers : a \in answers' /\ asked'[a] = asked[a]
  BY <1>1 DEF AnswerStep, AnswersInv, TypeOK, RowTypes
<1>4. CountsAnswers'
  <2>. SUFFICES ASSUME NEW d \in Calls, Counted(d)'
                PROVE  /\ d \in seen'[d] /\ seen'[d] \subseteq AnswersTo(asked[d])' \cup {d}
                       /\ lock' = d => AnswersTo(asked[d])' \subseteq seen'[d]
    BY DEF CountsAnswers
  <2>1. d # c /\ Counted(d) /\ asked'[d] = asked[d] /\ seen'[d] = seen[d]
    BY <1>1, <1>2
  <2>2. d \in seen[d] /\ seen[d] \subseteq AnswersTo(asked[d]) \cup {d}
    BY <2>1 DEF ProbeInv, CountsAnswers
  <2>3. seen'[d] \subseteq AnswersTo(asked[d])' \cup {d}
    BY <1>3, <2>1, <2>2 DEF AnswersTo
  <2>4. ASSUME lock' = d PROVE AnswersTo(asked[d])' \subseteq seen'[d]
    <3>1. lock = d /\ answers' = answers
      BY <2>1, <2>4, MockAssumption DEF AnswerStep
    <3>2. AnswersTo(asked[d]) \subseteq seen[d]
      BY <2>1, <3>1 DEF ProbeInv, CountsAnswers
    <3>. QED
      BY <1>3, <2>1, <3>1, <3>2 DEF AnswersTo
  <2>. QED
    BY <2>1, <2>2, <2>3, <2>4
<1>5. CountsAreOrdered'
  BY <1>1, <1>2 DEF ProbeInv, CountsAreOrdered
<1>6. LastProbe'
  <2>1. \A d \in Calls : pc'[d] = "probe" => d # c /\ pc[d] = "probe"
    BY <1>1 DEF Counted
  <2>2. pc[c] # "probe"
    BY PcMembers DEF Moves
  <2>3. \A q : ProbesOf(q)' = ProbesOf(q)
    BY <1>1, <2>1, <2>2 DEF ProbesOf
  <2>. QED
    BY <1>1, <2>1, <2>2, <2>3 DEF ProbeInv, LastProbe, ProbesOf
<1>. QED
  BY <1>4, <1>5, <1>6 DEF ProbeInv

\* Whoever counts sees every answer but the one of the call that holds the row, which
\* has seen its own.
LEMMA CountedProbes ==
  ASSUME TypeOK, AnswersInv, ProbeInv, NEW c \in Calls, ProbeCount(c) PROVE ProbeInv'
<1>. USE PcMembers DEF Goto
<1>0. /\ UNCHANGED <<answers, lock, asked>> /\ pc[c] = "counting" /\ pc'[c] = "reacting"
      /\ \A d \in Calls \ {c} : pc'[d] = pc[d] /\ seen'[d] = seen[d]
      /\ seen'[c] = {a \in answers \cup {c} : asked[a] = asked[c]}
  BY DEF ProbeCount, row, tables, TypeOK, CallTypes
<1>1. \A q : AnswersTo(q)' = AnswersTo(q) /\ ProbesOf(q)' = ProbesOf(q)
  BY <1>0 DEF AnswersTo, ProbesOf
<1>2. /\ c \in seen'[c] /\ seen'[c] = AnswersTo(asked[c]) \cup {c}
      /\ lock # c => c \in answers
  BY <1>0 DEF AnswersTo, AnswersInv
<1>3. \A d \in Calls \ {c} : Counted(d)' => Counted(d)
  BY <1>0 DEF Counted
<1>4. CountsAnswers'
  BY <1>0, <1>1, <1>2, <1>3 DEF ProbeInv, CountsAnswers
<1>5. ASSUME NEW d \in Calls \ {c}, Counted(d)', asked[d] = asked[c]
      PROVE  /\ c \in seen[d] \/ seen[d] \subseteq seen'[c]
             /\ d \in seen'[c] \/ seen'[c] \subseteq seen[d]
  <2>1. CASE d \in answers
    BY <1>2, <1>3, <1>5, <2>1 DEF ProbeInv, CountsAnswers, AnswersTo
  <2>2. CASE d \notin answers
    <3>1. lock = d /\ c \in answers
      BY <1>2, <1>3, <1>5, <2>2 DEF AnswersInv, Counted
    <3>2. AnswersTo(asked[c]) \subseteq seen[d]
      BY <1>3, <1>5, <3>1 DEF ProbeInv, CountsAnswers
    <3>. QED
      BY <1>2, <3>1, <3>2 DEF AnswersTo
  <2>. QED
    BY <2>1, <2>2
<1>6. CountsAreOrdered'
  BY <1>0, <1>3, <1>5 DEF ProbeInv, CountsAreOrdered
<1>7. LastProbe'
  BY <1>0, <1>1 DEF ProbeInv, LastProbe, ProbesOf
<1>. QED
  BY <1>4, <1>6, <1>7 DEF ProbeInv

\* A probe that has not seen all the others was seen by the one that had.
LEMMA ProbedProbes ==
  ASSUME TypeOK, AnswersInv, ProbeInv, NEW c \in Calls, AnswerStep(c), Probed(c) PROVE ProbeInv'
<1>. USE PcMembers
<1>0. /\ UNCHANGED <<asked, seen>> /\ lock' = NoCall /\ pc[c] = "reacting" /\ pc'[c] = "probe"
      /\ \A d \in Calls \ {c} : pc'[d] = pc[d]
      /\ Cardinality(seen[c]) < MaxProbes /\ answers \subseteq answers'
  BY DEF Probed, AnswerStep, TypeOK, CallTypes
<1>1. \A d \in Calls : Counted(d)' <=> Counted(d)
  BY <1>0 DEF Counted
<1>2. CountsAnswers'
  BY <1>0, <1>1, MockAssumption DEF ProbeInv, CountsAnswers, AnswersTo
<1>3. CountsAreOrdered'
  BY <1>0, <1>1 DEF ProbeInv, CountsAreOrdered
<1>4. ASSUME NEW e \in Calls, pc'[e] = "probe"
      PROVE  \E m \in ProbesOf(asked[e])' : ProbesOf(asked[e])' \subseteq seen[m]
  <2>1. CASE asked[e] # asked[c]
    <3>1. ProbesOf(asked[e])' = ProbesOf(asked[e]) /\ pc[e] = "probe"
      BY <1>0, <1>4, <2>1 DEF ProbesOf
    <3>. QED
      BY <3>1 DEF ProbeInv, LastProbe
  <2>2. CASE asked[e] = asked[c]
    <3>1. ProbesOf(asked[e])' = ProbesOf(asked[c]) \cup {c}
      BY <1>0, <2>2 DEF ProbesOf
    <3>2. c \in seen[c]
      BY <1>0 DEF ProbeInv, CountsAnswers, Counted
    <3>3. CASE ProbesOf(asked[c]) \subseteq seen[c]
      BY <3>1, <3>2, <3>3
    <3>4. ASSUME NEW d \in ProbesOf(asked[c]), d \notin seen[c]
          PROVE  \E m \in ProbesOf(asked[e])' : ProbesOf(asked[e])' \subseteq seen[m]
      <4>1. PICK m \in ProbesOf(asked[c]) : ProbesOf(asked[c]) \subseteq seen[m]
        BY <3>4 DEF ProbeInv, LastProbe, ProbesOf
      <4>2. c \in seen[m]
        BY <1>0, <3>4, <4>1 DEF ProbeInv, CountsAreOrdered, Counted, ProbesOf
      <4>. QED
        BY <3>1, <4>1, <4>2
    <3>. QED
      BY <3>3, <3>4
  <2>. QED
    BY <2>1, <2>2
<1>5. LastProbe'
  BY <1>0, <1>4 DEF ProbeInv, LastProbe
<1>. QED
  BY <1>2, <1>3, <1>5 DEF ProbeInv

(***************************************************************************)
(* The specification.                                                      *)
(***************************************************************************)
LEMMA StepInvariant == ASSUME IInv, [Next]_vars PROVE IInv'
<1>. USE DEF IInv
<1>1. ASSUME NEW c \in Calls, Client(c) PROVE IInv'
  <2>1. Moves(c) /\ AnswerStep(c) /\ ~Counted(c)'
    BY <1>1, ClientMoves, ClientAnswers
  <2>2. AnswersInv' /\ ProbeInv'
    BY <2>1, AnswersStep, UncountedProbes
  <2>. QED
    BY <1>1, <2>2, ClientTypes, ClientCost, ClientReport DEF ReportStep
<1>2. ASSUME NEW c \in Calls, Server(c) PROVE IInv'
  <2>1. Moves(c) /\ AnswerStep(c) /\ (ProbeCount(c) \/ Probed(c) \/ ~Counted(c)')
    BY <1>2, ServerMoves, ServerAnswers
  <2>2. AnswersInv' /\ ProbeInv'
    BY <2>1, AnswersStep, UncountedProbes, CountedProbes, ProbedProbes
  <2>. QED
    BY <1>2, <2>2, ServerTypes, ServerCost, ServerReport DEF ReportStep
<1>3. CASE UNCHANGED vars
  <2>. USE <1>3 DEF vars, row, tables, memory, reads
  <2>1. TypeOK'
    BY DEF TypeOK, RowTypes, CallTypes
  <2>2. CostInv'
    BY DEF CostInv, LockIsADraft, NothingBefore, CopiesAreLogged, RunningCostIsLogged
  <2>3. AnswersInv' /\ ReportInv'
    BY DEF AnswersInv, ReportInv
  <2>4. ProbeInv'
    BY DEF ProbeInv, CountsAnswers, CountsAreOrdered, LastProbe, Counted, AnswersTo, ProbesOf
  <2>. QED
    BY <2>1, <2>2, <2>3, <2>4
<1>. QED
  BY <1>1, <1>2, <1>3 DEF Next

\* The invariant of the interview: what a call has read of the row and of the answers
\* is worth, in every state the calls of a session can bring about.
THEOREM Invariant == Spec => []IInv
<1>. QED
  BY InitInvariant, StepInvariant, PTL DEF Spec

\* The running cost never claims more than the log, and without a race all of it.
THEOREM CostIsLogged == Spec => []RunningCostIsLogged
<1>1. IInv => RunningCostIsLogged
  BY DEF IInv, CostInv
<1>. QED
  BY <1>1, Invariant, PTL

LEMMA ProbesAreFewer == IInv => ProbesAreBounded
<1>. SUFFICES ASSUME IInv, NEW q \in DOMAIN questions PROVE Cardinality(ProbesOf(q)) < MaxProbes
  BY DEF ProbesAreBounded, ProbesOf
<1>1. CASE ProbesOf(q) = {}
  BY <1>1, FS_EmptySet, MockAssumption
<1>2. ASSUME NEW d \in ProbesOf(q) PROVE Cardinality(ProbesOf(q)) < MaxProbes
  <2>1. PICK m \in ProbesOf(q) : ProbesOf(q) \subseteq seen[m]
    BY <1>2 DEF IInv, ProbeInv, LastProbe, ProbesOf
  <2>2. IsFiniteSet(seen[m]) /\ Cardinality(seen[m]) < MaxProbes
    BY <2>1, MockAssumption, FS_Subset DEF IInv, ProbeInv, LastProbe, ProbesOf, TypeOK, CallTypes
  <2>3. Cardinality(ProbesOf(q)) <= Cardinality(seen[m]) /\ IsFiniteSet(ProbesOf(q))
    BY <2>1, <2>2, FS_Subset
  <2>. QED
    BY <2>2, <2>3, FS_CardinalityType, MockAssumption
<1>. QED
  BY <1>1, <1>2

\* However the answers to a question arrive, it is probed fewer than MAX_PROBES times.
THEOREM ProbesBounded == Spec => []ProbesAreBounded
<1>. QED
  BY Invariant, ProbesAreFewer, PTL

\* The first report of a session stands, and comes with the status and the score.
THEOREM FirstReportStands == Spec => ReportStands
<1>. DEFINE Stands == /\ (report' # NoCall) = (status' = "completed")
                      /\ report # NoCall => UNCHANGED <<report, rated, status>>
<1>1. ASSUME IInv, [Next]_vars PROVE [Stands]_vars
  <2>1. ASSUME NEW c \in Calls, Client(c) \/ Server(c) PROVE Stands
    <3>1. ReportStep
      BY <1>1, <2>1, ClientReport, ServerReport DEF IInv
    <3>. QED
      BY <3>1 DEF ReportStep, ReportInv
  <2>. QED
    BY <1>1, <2>1 DEF Next
<1>. QED
  BY <1>1, Invariant, PTL DEF Spec, ReportStands
=============================================================================
