--------------------------- MODULE DiagnosticProofs ---------------------------
(***************************************************************************)
(* The invariant of DiagnosticSession holds at every step, and what        *)
(* follows from it.                                                        *)
(***************************************************************************)
EXTENDS DiagnosticSession, TLAPS

LEMMA PcMembers ==
  {"idle", "end", "aborted", "submitted", "over", "leaving", "clicking", "asking", "reply",
   "wrap", "noting", "judging", "rejudging", "judged", "saved"} \subseteq PcStates
  BY DEF PcStates, Running, Locking, Judging

LEMMA InitInvariant == Init => IInv
<1>. SUFFICES ASSUME Init PROVE IInv
  OBVIOUS
<1>1. TypeOK
  <2>0. verdicts \in Seq(Calls) /\ verdict \in 0 .. Len(verdicts)
    BY DEF Init
  <2>1. RowTypes
    <3>1. turnsCount \in Nat /\ studentTurns \in Nat /\ spent \in Nat /\ agentTurns \in Seq(Nat)
      BY DEF Init
    <3>2. status \in Statuses /\ capped \in BOOLEAN /\ {clicked, lock} \subseteq {NoCall}
      BY DEF Init, Statuses
    <3>. QED
      BY <2>0, <3>1, <3>2 DEF RowTypes
  <2>2. CallTypes
    BY PcMembers DEF Init, CallTypes
  <2>. QED
    BY <2>1, <2>2 DEF TypeOK
<1>2. Opening /\ LockHeld /\ LateCallsFail
  BY DEF Init, Opening, LockHeld, LateCallsFail, Locking
<1>3. /\ MarkerMeansOver /\ VerdictCalls /\ AgentTurnsConsecutive
      /\ CapEndsConversation /\ CompletedHasItsVerdict
  BY DEF Init, MarkerMeansOver, VerdictCalls, AgentTurnsConsecutive, CapEndsConversation,
         CompletedHasItsVerdict
<1>. QED
  BY <1>1, <1>2, <1>3 DEF IInv

LEMMA StartingStep == ASSUME IInv, Starting PROVE IInv'
<1> USE CostsAssumption, NoCallAssumption
    DEF IInv, TypeOK, RowTypes, CallTypes, Opening, LockHeld, MarkerMeansOver, LateCallsFail, VerdictCalls,
        AgentTurnsConsecutive, CapEndsConversation, CompletedHasItsVerdict, Statuses,
        session, ledger, copies
<1>1. CASE StartOpen
  BY <1>1 DEF StartOpen
<1>2. CASE StartFail
  BY <1>2 DEF StartFail
<1>3. ASSUME NEW cost \in Costs, StartCapped(cost) PROVE IInv'
  BY <1>3 DEF StartCapped, Locking
<1>4. ASSUME NEW cost \in Costs, NEW ready \in BOOLEAN, StartReply(cost, ready) PROVE IInv'
  BY <1>4 DEF StartReply, Locking
<1>. QED
  BY <1>1, <1>2, <1>3, <1>4 DEF Starting

\* A call loads the session.
LEMMA LoadStep ==
  ASSUME IInv, NEW c \in Calls, TypeOK',
         start = "known", pc[c] = "idle",
         pc' = [pc EXCEPT ![c] = pc'[c]],
         pc'[c] \in {"submitted", "noting", "judging", "leaving", "clicking"},
         late' = late \/ late' = [late EXCEPT ![c] = capped],
         UNCHANGED <<session, ledger, lock, start, number, owed>>
  PROVE  IInv'
<1>1. \A i \in DOMAIN verdicts : verdicts[i] \in Calls /\ verdicts[i] # c
  <2>1. verdicts \in Seq(Calls) /\ VerdictCalls
    BY DEF IInv, TypeOK, RowTypes, CallTypes
  <2>. QED
    BY <2>1 DEF VerdictCalls
<1>2. \A d \in Calls \ {c} : pc'[d] = pc[d] /\ late'[d] = late[d]
  BY DEF IInv, TypeOK, RowTypes, CallTypes
<1>3. Opening' /\ MarkerMeansOver' /\ AgentTurnsConsecutive' /\ CapEndsConversation'
  BY <1>2 DEF IInv, Opening, MarkerMeansOver, AgentTurnsConsecutive, CapEndsConversation,
              session, ledger
<1>4. LockHeld'
  BY <1>2 DEF IInv, LockHeld, Locking, session
<1>5. LateCallsFail'
  BY <1>2 DEF IInv, TypeOK, RowTypes, CallTypes, LateCallsFail, ledger
<1>6. VerdictCalls'
  BY <1>1, <1>2 DEF IInv, VerdictCalls, session
<1>7. CompletedHasItsVerdict'
  <2>1. verdict \in 0 .. Len(verdicts) /\ CompletedHasItsVerdict /\ verdicts \in Seq(Calls)
    BY DEF IInv, TypeOK, RowTypes, CallTypes
  <2>2. status' = status /\ verdict' = verdict /\ verdicts' = verdicts
    BY DEF session
  <2>. QED
    BY <1>1, <1>2, <2>1, <2>2 DEF CompletedHasItsVerdict
<1>. QED
  BY <1>3, <1>4, <1>5, <1>6, <1>7 DEF IInv

LEMMA ClientStep == ASSUME IInv, TypeOK', NEW c \in Calls, Client(c) PROVE IInv'
<1> USE DEF Goto, copies
<1>0. pc \in [Calls -> PcStates]
  BY DEF IInv, TypeOK, RowTypes, CallTypes
<1>1. CASE SubmitLoad(c)
  BY <1>0, <1>1, LoadStep DEF SubmitLoad
<1>2. CASE AbandonLoad(c)
  BY <1>0, <1>2, LoadStep DEF AbandonLoad
<1>3. CASE ClickLoad(c)
  BY <1>0, <1>3, LoadStep DEF ClickLoad
<1>4. ASSUME NEW note \in BOOLEAN, FinalizeLoad(c, note) PROVE IInv'
  BY <1>0, <1>4, LoadStep DEF FinalizeLoad
<1>. QED
  BY <1>1, <1>2, <1>3, <1>4 DEF Client

(***************************************************************************)
(* Types.                                                                  *)
(***************************************************************************)
\* The program counter of one call moves to a state it has.
LEMMA PcTypes ==
  ASSUME CallTypes, NEW c \in Calls, NEW to \in PcStates
  PROVE  [pc EXCEPT ![c] = to] \in [Calls -> PcStates]
  BY DEF CallTypes

LEMMA StepCallTypes ==
  ASSUME TypeOK, NEW c \in Calls, Client(c) \/ Server(c) \/ Abort(c)
  PROVE  CallTypes'
<1> USE CostsAssumption, PcMembers, PcTypes DEF Goto, session, ledger, copies
<1>0. CallTypes /\ spent \in Nat /\ capped \in BOOLEAN /\ turnsCount \in Nat /\ agentTurns \in Seq(Nat)
  BY DEF TypeOK, RowTypes
<1>1. CASE SubmitLoad(c)
  BY <1>0, <1>1 DEF SubmitLoad, CallTypes
<1>2. CASE SubmitLock(c)
  BY <1>0, <1>2 DEF SubmitLock, CallTypes
<1>3. CASE SubmitCommit(c)
  BY <1>0, <1>3 DEF SubmitCommit, CallTypes
<1>4. CASE CostCapExceeded(c)
  BY <1>0, <1>4 DEF CostCapExceeded, CallTypes
<1>5. CASE FinalizeNote(c)
  BY <1>0, <1>5 DEF FinalizeNote, CallTypes
<1>6. CASE SaveVerdict(c)
  BY <1>0, <1>6 DEF SaveVerdict, CallTypes
<1>7. CASE CompleteSession(c)
  BY <1>0, <1>7 DEF CompleteSession, CallTypes
<1>8. CASE AbandonLoad(c)
  BY <1>0, <1>8 DEF AbandonLoad, CallTypes
<1>9. CASE AbandonCommit(c)
  BY <1>0, <1>9 DEF AbandonCommit, CallTypes
<1>10. CASE ClickLoad(c)
  BY <1>0, <1>10 DEF ClickLoad, CallTypes
<1>11. CASE ClickStamp(c)
  BY <1>0, <1>11 DEF ClickStamp, CallTypes
<1>12. CASE Abort(c)
  BY <1>0, <1>12 DEF Abort, CallTypes
<1>13. ASSUME NEW note \in BOOLEAN, FinalizeLoad(c, note) PROVE CallTypes'
  BY <1>0, <1>13 DEF FinalizeLoad, CallTypes
<1>14. ASSUME NEW cost \in Costs, NEW ready \in BOOLEAN, SubmitAnswer(c, cost, ready) PROVE CallTypes'
  BY <1>0, <1>14 DEF SubmitAnswer, CallTypes
<1>15. ASSUME NEW cost \in Costs, NEW passed \in BOOLEAN, VerdictAttempt(c, cost, passed) PROVE CallTypes'
  BY <1>0, <1>15 DEF VerdictAttempt, CallTypes
<1>. QED
  BY <1>1, <1>2, <1>3, <1>4, <1>5, <1>6, <1>7, <1>8, <1>9, <1>10, <1>11, <1>12, <1>13, <1>14, <1>15 DEF Client, Server

LEMMA StepRowTypes ==
  ASSUME TypeOK, NEW c \in Calls, Client(c) \/ Server(c) \/ Abort(c)
  PROVE  RowTypes'
<1> USE DEF Statuses, session, ledger, copies
<1>0. RowTypes /\ number[c] \in Nat /\ count[c] \in Nat /\ owed[c] \in Nat
  BY DEF TypeOK, CallTypes
<1>1. CASE SubmitLoad(c)
  BY <1>0, <1>1 DEF SubmitLoad, RowTypes
<1>2. CASE SubmitLock(c)
  BY <1>0, <1>2 DEF SubmitLock, RowTypes
<1>3. CASE SubmitCommit(c)
  BY <1>0, <1>3 DEF SubmitCommit, RowTypes
<1>4. CASE CostCapExceeded(c)
  <2>1. status' \in Statuses /\ capped' \in BOOLEAN /\ lock' \in Calls \cup {NoCall}
    BY <1>4 DEF CostCapExceeded
  <2>2. spent' \in Nat
    BY <1>0, <1>4 DEF CostCapExceeded, RowTypes
  <2>3. turnsCount' \in Nat /\ studentTurns' \in Nat
    BY <1>0, <1>4 DEF CostCapExceeded, RowTypes
  <2>4. UNCHANGED <<agentTurns, verdicts, verdict, clicked>>
    BY <1>4 DEF CostCapExceeded
  <2>. QED
    BY <1>0, <2>1, <2>2, <2>3, <2>4 DEF RowTypes
<1>5. CASE FinalizeNote(c)
  BY <1>0, <1>5 DEF FinalizeNote, RowTypes
<1>6. CASE SaveVerdict(c)
  BY <1>0, <1>6 DEF SaveVerdict, RowTypes
<1>7. CASE CompleteSession(c)
  BY <1>0, <1>7 DEF CompleteSession, RowTypes
<1>8. CASE AbandonLoad(c)
  BY <1>0, <1>8 DEF AbandonLoad, RowTypes
<1>9. CASE AbandonCommit(c)
  BY <1>0, <1>9 DEF AbandonCommit, RowTypes
<1>10. CASE ClickLoad(c)
  BY <1>0, <1>10 DEF ClickLoad, RowTypes
<1>11. CASE ClickStamp(c)
  BY <1>0, <1>11 DEF ClickStamp, RowTypes
<1>12. CASE Abort(c)
  BY <1>0, <1>12 DEF Abort, RowTypes
<1>13. ASSUME NEW note \in BOOLEAN, FinalizeLoad(c, note) PROVE RowTypes'
  BY <1>0, <1>13 DEF FinalizeLoad, RowTypes
<1>14. ASSUME NEW cost \in Costs, NEW ready \in BOOLEAN, SubmitAnswer(c, cost, ready) PROVE RowTypes'
  BY <1>0, <1>14 DEF SubmitAnswer, RowTypes
<1>15. ASSUME NEW cost \in Costs, NEW passed \in BOOLEAN, VerdictAttempt(c, cost, passed) PROVE RowTypes'
  BY <1>0, <1>15 DEF VerdictAttempt, RowTypes
<1>. QED
  BY <1>1, <1>2, <1>3, <1>4, <1>5, <1>6, <1>7, <1>8, <1>9, <1>10, <1>11, <1>12, <1>13, <1>14, <1>15 DEF Client, Server

(***************************************************************************)
(* The steps of a running call.                                            *)
(***************************************************************************)
Done == {"saved", "end", "aborted"}

\* What a step does to the budget and to the verdicts.
LEMMA LedgerStep ==
  ASSUME IInv, TypeOK', NEW c \in Calls,
         \A d \in Calls \ {c} : pc'[d] = pc[d] /\ owed'[d] = owed[d],
         late' = late, spent' >= spent,
         pc'[c] = "over" => spent' + owed'[c] > CostCap,
         capped => capped', capped' => capped \/ spent' > CostCap,
         late[c] => pc'[c] \notin {"judged", "saved"},
         pc[c] \in Done => pc'[c] \in Done,
         verdicts' = verdicts
           \/ (verdicts' = Append(verdicts, c) /\ pc'[c] = "saved")
  PROVE  MarkerMeansOver' /\ LateCallsFail' /\ VerdictCalls'
<1>1. MarkerMeansOver'
  <2>1. /\ MarkerMeansOver /\ CostCap \in Nat
        /\ spent \in Nat /\ owed \in [Calls -> Nat] /\ spent' \in Nat /\ owed' \in [Calls -> Nat]
    BY CostsAssumption DEF IInv, TypeOK, RowTypes, CallTypes
  <2>2. ASSUME NEW d \in Calls \ {c}, pc'[d] = "over" PROVE spent' + owed'[d] > CostCap
    BY <2>1, <2>2 DEF MarkerMeansOver
  <2>. QED
    BY <2>1, <2>2 DEF MarkerMeansOver
<1>2. LateCallsFail'
  BY DEF IInv, TypeOK, RowTypes, CallTypes, LateCallsFail
<1>3. verdicts \in Seq(Calls) /\ VerdictCalls
  BY DEF IInv, TypeOK, RowTypes, CallTypes
<1>4. \A i \in DOMAIN verdicts : pc'[verdicts[i]] \in Done /\ ~late'[verdicts[i]]
  BY <1>3 DEF VerdictCalls, Done
<1>5. VerdictCalls'
  BY <1>3, <1>4 DEF VerdictCalls, Done
<1>. QED
  BY <1>1, <1>2, <1>5

\* A step that commits no agent turn.
LEMMA TurnsStep ==
  ASSUME IInv, TypeOK', NEW c \in Calls, pc[c] # "idle",
         \A d \in Calls \ {c} : pc'[d] = pc[d] /\ number'[d] = number[d],
         agentTurns' = agentTurns, start' = start,
         lock' = lock \/ lock \in {NoCall, c},
         pc'[c] \in Locking =>
           /\ lock' = c
           /\ number'[c] = Len(agentTurns) + 1
           /\ pc'[c] = "reply" => number'[c] < MaxTurns,
         status' = status \/ status' # "active"
  PROVE  Opening' /\ LockHeld' /\ AgentTurnsConsecutive' /\ CapEndsConversation'
<1>1. Opening' /\ AgentTurnsConsecutive' /\ CapEndsConversation'
  BY DEF IInv, Opening, AgentTurnsConsecutive, CapEndsConversation
<1>2. ASSUME NEW d \in Calls \ {c}, pc'[d] \in Locking
      PROVE  lock' = d /\ number'[d] = Len(agentTurns') + 1 /\ (pc'[d] = "reply" => number'[d] < MaxTurns)
  BY <1>2, NoCallAssumption DEF IInv, LockHeld
<1>3. ASSUME pc'[c] \in Locking
      PROVE  lock' = c /\ number'[c] = Len(agentTurns') + 1 /\ (pc'[c] = "reply" => number'[c] < MaxTurns)
  BY <1>3
<1>4. LockHeld'
  BY <1>2, <1>3 DEF LockHeld
<1>. QED
  BY <1>1, <1>4

\* A step that does not complete the session.
LEMMA StatusStep ==
  ASSUME IInv, NEW c \in Calls, pc[c] # "end",
         \A d \in Calls \ {c} : pc'[d] = pc[d],
         status' = status \/ status' # "completed",
         verdict' = verdict,
         verdicts' = verdicts \/ verdicts' = Append(verdicts, c)
  PROVE  CompletedHasItsVerdict'
<1>1. CompletedHasItsVerdict /\ verdict \in 0 .. Len(verdicts) /\ verdicts \in Seq(Calls)
  BY DEF IInv, TypeOK, RowTypes, CallTypes
<1>. QED
  BY <1>1 DEF CompletedHasItsVerdict

\* What the three lemmas leave to the actions.
LEMMA Assemble ==
  ASSUME TypeOK', Opening', LockHeld', AgentTurnsConsecutive', CapEndsConversation',
         MarkerMeansOver', LateCallsFail', VerdictCalls', CompletedHasItsVerdict'
  PROVE  IInv'
  BY DEF IInv

LEMMA SubmitLockStep ==
  ASSUME IInv, TypeOK', NEW c \in Calls, SubmitLock(c)
  PROVE  IInv'
<1> USE DEF Goto, session, ledger, copies
<1>1. /\ pc \in [Calls -> PcStates] /\ number \in [Calls -> Nat]
      /\ owed \in [Calls -> Nat] /\ spent \in Nat
      /\ LockHeld /\ LateCallsFail /\ MarkerMeansOver
  BY DEF IInv, TypeOK, RowTypes, CallTypes
<1>2. pc[c] \notin {"idle", "end"}
  BY DEF SubmitLock, Running, Locking, Judging
<1>3. \A d \in Calls \ {c} : pc'[d] = pc[d] /\ number'[d] = number[d] /\ owed'[d] = owed[d]
  BY <1>1 DEF SubmitLock
<1>4. MarkerMeansOver' /\ LateCallsFail' /\ VerdictCalls'
  <2>1. late[c] => capped /\ spent > CostCap /\ pc[c] \notin {"judged", "saved"}
    BY <1>1 DEF LateCallsFail, MarkerMeansOver
  <2>2. /\ late' = late /\ spent' >= spent
        /\ capped => capped'
        /\ capped' => capped \/ spent' > CostCap
        /\ late[c] => pc'[c] \notin {"judged", "saved"}
        /\ pc'[c] = "over" => spent' + owed'[c] > CostCap
    BY <1>1, <2>1, CostsAssumption DEF SubmitLock
  <2>3. /\ pc[c] \in Done => pc'[c] \in Done
        /\ verdicts' = verdicts \/ (verdicts' = Append(verdicts, c) /\ pc'[c] = "saved")
    BY <1>1 DEF SubmitLock, Done, Running
  <2>. QED
    BY <1>3, <2>2, <2>3, LedgerStep
<1>5. Opening' /\ LockHeld' /\ AgentTurnsConsecutive' /\ CapEndsConversation'
  BY <1>1, <1>2, <1>3, TurnsStep DEF SubmitLock, Free, Locking, LockHeld
<1>6. CompletedHasItsVerdict'
  BY <1>2, <1>3, StatusStep DEF SubmitLock
<1>. QED
  BY <1>4, <1>5, <1>6, Assemble

LEMMA FinalizeNoteStep ==
  ASSUME IInv, TypeOK', NEW c \in Calls, FinalizeNote(c)
  PROVE  IInv'
<1> USE DEF Goto, session, ledger, copies
<1>1. /\ pc \in [Calls -> PcStates] /\ number \in [Calls -> Nat]
      /\ owed \in [Calls -> Nat] /\ spent \in Nat
      /\ LockHeld /\ LateCallsFail /\ MarkerMeansOver
  BY DEF IInv, TypeOK, RowTypes, CallTypes
<1>2. pc[c] \notin {"idle", "end"}
  BY DEF FinalizeNote, Running, Locking, Judging
<1>3. \A d \in Calls \ {c} : pc'[d] = pc[d] /\ number'[d] = number[d] /\ owed'[d] = owed[d]
  BY <1>1 DEF FinalizeNote
<1>4. MarkerMeansOver' /\ LateCallsFail' /\ VerdictCalls'
  <2>1. late[c] => capped /\ spent > CostCap /\ pc[c] \notin {"judged", "saved"}
    BY <1>1 DEF LateCallsFail, MarkerMeansOver
  <2>2. /\ late' = late /\ spent' >= spent
        /\ capped => capped'
        /\ capped' => capped \/ spent' > CostCap
        /\ late[c] => pc'[c] \notin {"judged", "saved"}
        /\ pc'[c] = "over" => spent' + owed'[c] > CostCap
    BY <1>1, <2>1, CostsAssumption DEF FinalizeNote
  <2>3. /\ pc[c] \in Done => pc'[c] \in Done
        /\ verdicts' = verdicts \/ (verdicts' = Append(verdicts, c) /\ pc'[c] = "saved")
    BY <1>1 DEF FinalizeNote, Done, Running
  <2>. QED
    BY <1>3, <2>2, <2>3, LedgerStep
<1>5. Opening' /\ LockHeld' /\ AgentTurnsConsecutive' /\ CapEndsConversation'
  BY <1>1, <1>2, <1>3, TurnsStep DEF FinalizeNote, Free, Locking, LockHeld
<1>6. CompletedHasItsVerdict'
  BY <1>2, <1>3, StatusStep DEF FinalizeNote
<1>. QED
  BY <1>4, <1>5, <1>6, Assemble

LEMMA SaveVerdictStep ==
  ASSUME IInv, TypeOK', NEW c \in Calls, SaveVerdict(c)
  PROVE  IInv'
<1> USE DEF Goto, session, ledger, copies
<1>1. /\ pc \in [Calls -> PcStates] /\ number \in [Calls -> Nat]
      /\ owed \in [Calls -> Nat] /\ spent \in Nat
      /\ LockHeld /\ LateCallsFail /\ MarkerMeansOver
  BY DEF IInv, TypeOK, RowTypes, CallTypes
<1>2. pc[c] \notin {"idle", "end"}
  BY DEF SaveVerdict, Running, Locking, Judging
<1>3. \A d \in Calls \ {c} : pc'[d] = pc[d] /\ number'[d] = number[d] /\ owed'[d] = owed[d]
  BY <1>1 DEF SaveVerdict
<1>4. MarkerMeansOver' /\ LateCallsFail' /\ VerdictCalls'
  <2>1. late[c] => capped /\ spent > CostCap /\ pc[c] \notin {"judged", "saved"}
    BY <1>1 DEF LateCallsFail, MarkerMeansOver
  <2>2. /\ late' = late /\ spent' >= spent
        /\ capped => capped'
        /\ capped' => capped \/ spent' > CostCap
        /\ late[c] => pc'[c] \notin {"judged", "saved"}
        /\ pc'[c] = "over" => spent' + owed'[c] > CostCap
    BY <1>1, <2>1, CostsAssumption DEF SaveVerdict
  <2>3. /\ pc[c] \in Done => pc'[c] \in Done
        /\ verdicts' = verdicts \/ (verdicts' = Append(verdicts, c) /\ pc'[c] = "saved")
    BY <1>1 DEF SaveVerdict, Done, Running
  <2>. QED
    BY <1>3, <2>2, <2>3, LedgerStep
<1>5. Opening' /\ LockHeld' /\ AgentTurnsConsecutive' /\ CapEndsConversation'
  BY <1>1, <1>2, <1>3, TurnsStep DEF SaveVerdict, Free, Locking, LockHeld
<1>6. CompletedHasItsVerdict'
  BY <1>2, <1>3, StatusStep DEF SaveVerdict
<1>. QED
  BY <1>4, <1>5, <1>6, Assemble

LEMMA AbandonCommitStep ==
  ASSUME IInv, TypeOK', NEW c \in Calls, AbandonCommit(c)
  PROVE  IInv'
<1> USE DEF Goto, session, ledger, copies
<1>1. /\ pc \in [Calls -> PcStates] /\ number \in [Calls -> Nat]
      /\ owed \in [Calls -> Nat] /\ spent \in Nat
      /\ LockHeld /\ LateCallsFail /\ MarkerMeansOver
  BY DEF IInv, TypeOK, RowTypes, CallTypes
<1>2. pc[c] \notin {"idle", "end"}
  BY DEF AbandonCommit, Running, Locking, Judging
<1>3. \A d \in Calls \ {c} : pc'[d] = pc[d] /\ number'[d] = number[d] /\ owed'[d] = owed[d]
  BY <1>1 DEF AbandonCommit
<1>4. MarkerMeansOver' /\ LateCallsFail' /\ VerdictCalls'
  <2>1. late[c] => capped /\ spent > CostCap /\ pc[c] \notin {"judged", "saved"}
    BY <1>1 DEF LateCallsFail, MarkerMeansOver
  <2>2. /\ late' = late /\ spent' >= spent
        /\ capped => capped'
        /\ capped' => capped \/ spent' > CostCap
        /\ late[c] => pc'[c] \notin {"judged", "saved"}
        /\ pc'[c] = "over" => spent' + owed'[c] > CostCap
    BY <1>1, <2>1, CostsAssumption DEF AbandonCommit
  <2>3. /\ pc[c] \in Done => pc'[c] \in Done
        /\ verdicts' = verdicts \/ (verdicts' = Append(verdicts, c) /\ pc'[c] = "saved")
    BY <1>1 DEF AbandonCommit, Done, Running
  <2>. QED
    BY <1>3, <2>2, <2>3, LedgerStep
<1>5. Opening' /\ LockHeld' /\ AgentTurnsConsecutive' /\ CapEndsConversation'
  BY <1>1, <1>2, <1>3, TurnsStep DEF AbandonCommit, Free, Locking, LockHeld
<1>6. CompletedHasItsVerdict'
  BY <1>2, <1>3, StatusStep DEF AbandonCommit
<1>. QED
  BY <1>4, <1>5, <1>6, Assemble

LEMMA ClickStampStep ==
  ASSUME IInv, TypeOK', NEW c \in Calls, ClickStamp(c)
  PROVE  IInv'
<1> USE DEF Goto, session, ledger, copies
<1>1. /\ pc \in [Calls -> PcStates] /\ number \in [Calls -> Nat]
      /\ owed \in [Calls -> Nat] /\ spent \in Nat
      /\ LockHeld /\ LateCallsFail /\ MarkerMeansOver
  BY DEF IInv, TypeOK, RowTypes, CallTypes
<1>2. pc[c] \notin {"idle", "end"}
  BY DEF ClickStamp, Running, Locking, Judging
<1>3. \A d \in Calls \ {c} : pc'[d] = pc[d] /\ number'[d] = number[d] /\ owed'[d] = owed[d]
  BY <1>1 DEF ClickStamp
<1>4. MarkerMeansOver' /\ LateCallsFail' /\ VerdictCalls'
  <2>1. late[c] => capped /\ spent > CostCap /\ pc[c] \notin {"judged", "saved"}
    BY <1>1 DEF LateCallsFail, MarkerMeansOver
  <2>2. /\ late' = late /\ spent' >= spent
        /\ capped => capped'
        /\ capped' => capped \/ spent' > CostCap
        /\ late[c] => pc'[c] \notin {"judged", "saved"}
        /\ pc'[c] = "over" => spent' + owed'[c] > CostCap
    BY <1>1, <2>1, CostsAssumption DEF ClickStamp
  <2>3. /\ pc[c] \in Done => pc'[c] \in Done
        /\ verdicts' = verdicts \/ (verdicts' = Append(verdicts, c) /\ pc'[c] = "saved")
    BY <1>1 DEF ClickStamp, Done, Running
  <2>. QED
    BY <1>3, <2>2, <2>3, LedgerStep
<1>5. Opening' /\ LockHeld' /\ AgentTurnsConsecutive' /\ CapEndsConversation'
  BY <1>1, <1>2, <1>3, TurnsStep DEF ClickStamp, Free, Locking, LockHeld
<1>6. CompletedHasItsVerdict'
  BY <1>2, <1>3, StatusStep DEF ClickStamp
<1>. QED
  BY <1>4, <1>5, <1>6, Assemble

LEMMA CostCapExceededStep ==
  ASSUME IInv, TypeOK', NEW c \in Calls, CostCapExceeded(c)
  PROVE  IInv'
<1> USE DEF Goto, session, ledger, copies
<1>1. /\ pc \in [Calls -> PcStates] /\ number \in [Calls -> Nat]
      /\ owed \in [Calls -> Nat] /\ spent \in Nat
      /\ LockHeld /\ LateCallsFail /\ MarkerMeansOver
  BY DEF IInv, TypeOK, RowTypes, CallTypes
<1>2. pc[c] \notin {"idle", "end"}
  BY DEF CostCapExceeded, Running, Locking, Judging
<1>3. \A d \in Calls \ {c} : pc'[d] = pc[d] /\ number'[d] = number[d] /\ owed'[d] = owed[d]
  BY <1>1 DEF CostCapExceeded
<1>4. MarkerMeansOver' /\ LateCallsFail' /\ VerdictCalls'
  <2>1. late[c] => capped /\ spent > CostCap /\ pc[c] \notin {"judged", "saved"}
    BY <1>1 DEF LateCallsFail, MarkerMeansOver
  <2>0. /\ spent + owed[c] > CostCap /\ owed[c] \in Nat
        /\ spent' = spent + owed[c] /\ capped' = TRUE /\ late' = late /\ pc'[c] = "end"
    BY <1>1 DEF CostCapExceeded, MarkerMeansOver
  <2>2. /\ late' = late /\ spent' >= spent
        /\ capped => capped'
        /\ capped' => capped \/ spent' > CostCap
        /\ late[c] => pc'[c] \notin {"judged", "saved"}
        /\ pc'[c] = "over" => spent' + owed'[c] > CostCap
    BY <1>1, <2>0, <2>1, CostsAssumption
  <2>3. /\ pc[c] \in Done => pc'[c] \in Done
        /\ verdicts' = verdicts \/ (verdicts' = Append(verdicts, c) /\ pc'[c] = "saved")
    BY <1>1 DEF CostCapExceeded, Done, Running
  <2>. QED
    BY <1>3, <2>2, <2>3, LedgerStep
<1>5. Opening' /\ LockHeld' /\ AgentTurnsConsecutive' /\ CapEndsConversation'
  BY <1>1, <1>2, <1>3, TurnsStep DEF CostCapExceeded, Free, Locking, LockHeld
<1>6. CompletedHasItsVerdict'
  BY <1>2, <1>3, StatusStep DEF CostCapExceeded
<1>. QED
  BY <1>4, <1>5, <1>6, Assemble

LEMMA AbortStep ==
  ASSUME IInv, TypeOK', NEW c \in Calls, Abort(c)
  PROVE  IInv'
<1> USE DEF Goto, session, ledger, copies
<1>1. /\ pc \in [Calls -> PcStates] /\ number \in [Calls -> Nat]
      /\ owed \in [Calls -> Nat] /\ spent \in Nat
      /\ LockHeld /\ LateCallsFail /\ MarkerMeansOver
  BY DEF IInv, TypeOK, RowTypes, CallTypes
<1>2. pc[c] \notin {"idle", "end"}
  BY DEF Abort, Running, Locking, Judging
<1>3. \A d \in Calls \ {c} : pc'[d] = pc[d] /\ number'[d] = number[d] /\ owed'[d] = owed[d]
  BY <1>1 DEF Abort
<1>4. MarkerMeansOver' /\ LateCallsFail' /\ VerdictCalls'
  <2>1. late[c] => capped /\ spent > CostCap /\ pc[c] \notin {"judged", "saved"}
    BY <1>1 DEF LateCallsFail, MarkerMeansOver
  <2>2. /\ late' = late /\ spent' >= spent
        /\ capped => capped'
        /\ capped' => capped \/ spent' > CostCap
        /\ late[c] => pc'[c] \notin {"judged", "saved"}
        /\ pc'[c] = "over" => spent' + owed'[c] > CostCap
    BY <1>1, <2>1, CostsAssumption DEF Abort
  <2>3. /\ pc[c] \in Done => pc'[c] \in Done
        /\ verdicts' = verdicts \/ (verdicts' = Append(verdicts, c) /\ pc'[c] = "saved")
    BY <1>1 DEF Abort, Done, Running
  <2>. QED
    BY <1>3, <2>2, <2>3, LedgerStep
<1>5. Opening' /\ LockHeld' /\ AgentTurnsConsecutive' /\ CapEndsConversation'
  BY <1>1, <1>2, <1>3, TurnsStep DEF Abort, Free, Locking, LockHeld
<1>6. CompletedHasItsVerdict'
  BY <1>2, <1>3, StatusStep DEF Abort
<1>. QED
  BY <1>4, <1>5, <1>6, Assemble

LEMMA SubmitAnswerStep ==
  ASSUME IInv, TypeOK', NEW c \in Calls, NEW cost \in Costs, NEW ready \in BOOLEAN, SubmitAnswer(c, cost, ready)
  PROVE  IInv'
<1> USE DEF Goto, session, ledger, copies
<1>1. /\ pc \in [Calls -> PcStates] /\ number \in [Calls -> Nat]
      /\ owed \in [Calls -> Nat] /\ spent \in Nat
      /\ LockHeld /\ LateCallsFail /\ MarkerMeansOver
  BY DEF IInv, TypeOK, RowTypes, CallTypes
<1>2. pc[c] \notin {"idle", "end"}
  BY DEF SubmitAnswer, Running, Locking, Judging
<1>3. \A d \in Calls \ {c} : pc'[d] = pc[d] /\ number'[d] = number[d] /\ owed'[d] = owed[d]
  BY <1>1 DEF SubmitAnswer
<1>4. MarkerMeansOver' /\ LateCallsFail' /\ VerdictCalls'
  <2>1. late[c] => capped /\ spent > CostCap /\ pc[c] \notin {"judged", "saved"}
    BY <1>1 DEF LateCallsFail, MarkerMeansOver
  <2>2. /\ late' = late /\ spent' >= spent
        /\ capped => capped'
        /\ capped' => capped \/ spent' > CostCap
        /\ late[c] => pc'[c] \notin {"judged", "saved"}
        /\ pc'[c] = "over" => spent' + owed'[c] > CostCap
    BY <1>1, <2>1, CostsAssumption DEF SubmitAnswer, Accumulated
  <2>3. /\ pc[c] \in Done => pc'[c] \in Done
        /\ verdicts' = verdicts \/ (verdicts' = Append(verdicts, c) /\ pc'[c] = "saved")
    BY <1>1 DEF SubmitAnswer, Done, Running
  <2>. QED
    BY <1>3, <2>2, <2>3, LedgerStep
<1>5. Opening' /\ LockHeld' /\ AgentTurnsConsecutive' /\ CapEndsConversation'
  BY <1>1, <1>2, <1>3, CostsAssumption, TurnsStep DEF SubmitAnswer, AtOrPastCap, Free, Locking, LockHeld
<1>6. CompletedHasItsVerdict'
  BY <1>2, <1>3, StatusStep DEF SubmitAnswer
<1>. QED
  BY <1>4, <1>5, <1>6, Assemble

LEMMA VerdictAttemptStep ==
  ASSUME IInv, TypeOK', NEW c \in Calls, NEW cost \in Costs, NEW passed \in BOOLEAN, VerdictAttempt(c, cost, passed)
  PROVE  IInv'
<1> USE DEF Goto, session, ledger, copies
<1>1. /\ pc \in [Calls -> PcStates] /\ number \in [Calls -> Nat]
      /\ owed \in [Calls -> Nat] /\ spent \in Nat
      /\ LockHeld /\ LateCallsFail /\ MarkerMeansOver
  BY DEF IInv, TypeOK, RowTypes, CallTypes
<1>2. pc[c] \notin {"idle", "end"}
  BY DEF VerdictAttempt, Running, Locking, Judging
<1>3. \A d \in Calls \ {c} : pc'[d] = pc[d] /\ number'[d] = number[d] /\ owed'[d] = owed[d]
  BY <1>1 DEF VerdictAttempt
<1>4. MarkerMeansOver' /\ LateCallsFail' /\ VerdictCalls'
  <2>1. late[c] => capped /\ spent > CostCap /\ pc[c] \notin {"judged", "saved"}
    BY <1>1 DEF LateCallsFail, MarkerMeansOver
  <2>2. /\ late' = late /\ spent' >= spent
        /\ capped => capped'
        /\ capped' => capped \/ spent' > CostCap
        /\ late[c] => pc'[c] \notin {"judged", "saved"}
        /\ pc'[c] = "over" => spent' + owed'[c] > CostCap
    BY <1>1, <2>1, CostsAssumption DEF VerdictAttempt, Accumulated
  <2>3. /\ pc[c] \in Done => pc'[c] \in Done
        /\ verdicts' = verdicts \/ (verdicts' = Append(verdicts, c) /\ pc'[c] = "saved")
    BY <1>1 DEF VerdictAttempt, Done, Running
  <2>. QED
    BY <1>3, <2>2, <2>3, LedgerStep
<1>5. Opening' /\ LockHeld' /\ AgentTurnsConsecutive' /\ CapEndsConversation'
  BY <1>1, <1>2, <1>3, TurnsStep DEF VerdictAttempt, Free, Locking, LockHeld
<1>6. CompletedHasItsVerdict'
  BY <1>2, <1>3, StatusStep DEF VerdictAttempt
<1>. QED
  BY <1>4, <1>5, <1>6, Assemble

(***************************************************************************)
(* The two steps that publish: an agent turn, a verdict.                   *)
(***************************************************************************)
LEMMA SubmitCommitStep ==
  ASSUME IInv, TypeOK', NEW c \in Calls, SubmitCommit(c)
  PROVE  IInv'
<1> USE DEF session, ledger, copies
<1>1. /\ pc \in [Calls -> PcStates] /\ number \in [Calls -> Nat]
      /\ owed \in [Calls -> Nat] /\ spent \in Nat /\ agentTurns \in Seq(Nat)
      /\ LockHeld /\ LateCallsFail /\ AgentTurnsConsecutive /\ CapEndsConversation /\ Opening
  BY DEF IInv, TypeOK, RowTypes, CallTypes
<1>2. /\ pc[c] \in {"reply", "wrap"} /\ pc'[c] = "end"
      /\ \A d \in Calls \ {c} : pc'[d] = pc[d] /\ number'[d] = number[d] /\ owed'[d] = owed[d]
  BY <1>1 DEF SubmitCommit
<1>3. lock = c /\ number[c] = Len(agentTurns) + 1 /\ (pc[c] = "reply" => number[c] < MaxTurns)
  BY <1>1, <1>2 DEF LockHeld, Locking
<1>4. MarkerMeansOver' /\ LateCallsFail' /\ VerdictCalls'
  <2>1. /\ late' = late /\ spent' >= spent /\ capped' = capped /\ verdicts' = verdicts
    BY <1>1 DEF SubmitCommit
  <2>. QED
    BY <1>2, <2>1, LedgerStep DEF Done
<1>5. agentTurns' = Append(agentTurns, Len(agentTurns) + 1) /\ Len(agentTurns') = Len(agentTurns) + 1
  BY <1>1, <1>3 DEF SubmitCommit
<1>6. AgentTurnsConsecutive'
  BY <1>1, <1>5 DEF AgentTurnsConsecutive
<1>7. CapEndsConversation'
  <2>1. CASE pc[c] = "wrap"
    BY <2>1 DEF SubmitCommit, CapEndsConversation
  <2>2. CASE pc[c] = "reply"
    BY <1>1, <1>3, <1>5, <2>2, CostsAssumption DEF CapEndsConversation
  <2>. QED
    BY <1>2, <2>1, <2>2
<1>8. LockHeld'
  <2>1. ASSUME NEW d \in Calls \ {c} PROVE pc[d] \notin Locking
    BY <1>1, <1>3 DEF LockHeld
  <2>. QED
    BY <1>2, <2>1 DEF LockHeld, Locking
<1>9. Opening'
  BY <1>1, <1>2 DEF SubmitCommit, Opening
<1>10. CompletedHasItsVerdict'
  BY <1>2, StatusStep DEF SubmitCommit
<1>. QED
  BY <1>4, <1>6, <1>7, <1>8, <1>9, <1>10, Assemble

LEMMA CompleteSessionStep ==
  ASSUME IInv, TypeOK', NEW c \in Calls, CompleteSession(c)
  PROVE  IInv'
<1> USE DEF Goto, session, ledger, copies
<1>1. /\ pc \in [Calls -> PcStates] /\ spent \in Nat /\ verdicts \in Seq(Calls)
  BY DEF IInv, TypeOK, RowTypes, CallTypes
<1>2. /\ pc[c] = "saved" /\ pc'[c] = "end"
      /\ \A d \in Calls \ {c} : pc'[d] = pc[d] /\ number'[d] = number[d] /\ owed'[d] = owed[d]
  BY <1>1 DEF CompleteSession
<1>3. MarkerMeansOver' /\ LateCallsFail' /\ VerdictCalls'
  <2>1. late' = late /\ spent' >= spent /\ capped' = capped /\ verdicts' = verdicts
    BY <1>1 DEF CompleteSession
  <2>. QED
    BY <1>2, <2>1, LedgerStep DEF Done
<1>4. Opening' /\ LockHeld' /\ AgentTurnsConsecutive' /\ CapEndsConversation'
  BY <1>2, TurnsStep DEF CompleteSession, Locking
<1>5. CompletedHasItsVerdict'
  BY <1>1, <1>2 DEF CompleteSession, CompletedHasItsVerdict
<1>. QED
  BY <1>3, <1>4, <1>5, Assemble

(***************************************************************************)
(* Every step keeps the invariant.                                         *)
(***************************************************************************)
LEMMA CallStep ==
  ASSUME IInv, NEW c \in Calls, Client(c) \/ Server(c) \/ Abort(c)
  PROVE  IInv'
<1>1. TypeOK'
  BY StepRowTypes, StepCallTypes DEF IInv, TypeOK
<1>2. CASE Client(c)
  BY <1>1, <1>2, ClientStep
<1>3. CASE Server(c)
  BY <1>1, <1>3, SubmitLockStep, SubmitAnswerStep, SubmitCommitStep, CostCapExceededStep,
     FinalizeNoteStep, VerdictAttemptStep, SaveVerdictStep, CompleteSessionStep,
     AbandonCommitStep, ClickStampStep
     DEF Server
<1>. QED
  BY <1>1, <1>2, <1>3, AbortStep

LEMMA StutterStep == ASSUME IInv, UNCHANGED vars PROVE IInv'
  BY DEF vars, session, ledger, copies, IInv, TypeOK, RowTypes, CallTypes, Opening, LockHeld,
         MarkerMeansOver, LateCallsFail, VerdictCalls, AgentTurnsConsecutive,
         CapEndsConversation, CompletedHasItsVerdict

\* The invariant holds for any number of racing calls, any prices and caps.
THEOREM Invariant == Spec => []IInv
<1>1. IInv /\ [Next]_vars => IInv'
  BY StartingStep, CallStep, StutterStep DEF Next
<1>. QED
  BY <1>1, InitInvariant, PTL DEF Spec

\* Every variable keeps its type.
THEOREM TypeCorrect == Spec => []TypeOK
  BY Invariant, PTL DEF IInv

\* Racing submit_turn calls number the agent turns 1, 2, 3, ... although each
\* checked the session before the other committed.
THEOREM TurnsConsecutive == Spec => []AgentTurnsConsecutive
  BY Invariant, PTL DEF IInv

\* A session at the soft cap never takes another turn.
THEOREM CapEnds == Spec => []CapEndsConversation
  BY Invariant, PTL DEF IInv

\* finalize_session never shows a completed session without its verdict.
THEOREM CompletedVerdict == Spec => []CompletedHasItsVerdict
  BY Invariant, PTL DEF IInv

\* No finalize that starts after the cost cap was exceeded delivers a verdict.
THEOREM CappedWithoutVerdict == Spec => []CappedSessionGetsNoVerdict
<1>1. IInv => CappedSessionGetsNoVerdict
  BY DEF IInv, LateCallsFail, VerdictCalls, CappedSessionGetsNoVerdict
<1>. QED
  BY <1>1, Invariant, PTL
=============================================================================
