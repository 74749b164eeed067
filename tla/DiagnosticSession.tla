-------------------------- MODULE DiagnosticSession --------------------------
(***************************************************************************)
(* The life of one readiness diagnostic session                            *)
(* (services/readiness_orchestrator.py, record_click of                    *)
(* services/readiness_north_star.py) under concurrent HTTP calls.          *)
(*                                                                         *)
(* Each call is one transaction per commit, READ COMMITTED.  An UPDATE of  *)
(* the session row holds its row lock to the commit; the INSERTs of turns, *)
(* log rows and verdicts take only key-share locks and wait for nobody.    *)
(* The calls to the language model run between two steps of a call.        *)
(***************************************************************************)
EXTENDS Integers, Sequences, FiniteSets

CONSTANTS
  Calls,         \* HTTP calls that may be made about the session
  Kind,          \* what each call is: submit, finalize, abandon or click
  Costs,         \* rupees one model call may cost (0: it failed)
  CostCap,       \* COST_CAP_INR
  MaxTurns,      \* MAX_TURNS
  NoCall         \* nobody

ASSUME KindAssumption == Kind \in [Calls -> {"submit", "finalize", "abandon", "click"}]
ASSUME CostsAssumption == Costs \subseteq Nat /\ CostCap \in Nat /\ MaxTurns \in Nat \ {0, 1}
ASSUME NoCallAssumption == NoCall \notin Calls

VARIABLES
  status,        \* none, active, finalizing, completed or abandoned
  turnsCount,    \* turns_count of the session row
  agentTurns,    \* turn numbers of the committed agent turns, oldest first
  studentTurns,  \* committed student turns
  verdicts,      \* committed verdict rows: the call that wrote each
  verdict,       \* verdict_id: index into verdicts, 0 when null
  clicked,       \* next_action_clicked_at: the call that stamped it, or NoCall
  spent,         \* sum of cost_inr over the committed log rows
  capped,        \* a cap_exceeded marker row is committed
  lock,          \* the call holding the lock of the session row, or NoCall
  start,         \* start_session: idle, open, known (the client has the id) or failed
  pc,            \* where each call is
  count,         \* its copy of turns_count
  number,        \* submit: the number of its agent turn
  owed,          \* cost of the log rows it has not committed yet
  late           \* history: the marker was on record when it loaded the session

session == <<status, turnsCount, agentTurns, studentTurns, verdicts, verdict, clicked>>
ledger  == <<spent, capped>>
copies  == <<count, number, late>>
vars    == <<session, ledger, lock, start, pc, copies, owed>>

Statuses == {"none", "active", "finalizing", "completed", "abandoned"}
Locking  == {"asking", "reply", "wrap"}            \* submit_turn, row lock held
Judging  == {"noting", "judging", "rejudging", "judged", "saved"}
Running  == Locking \cup Judging \cup {"submitted", "over", "leaving", "clicking"}
PcStates == Running \cup {"idle", "end", "aborted"}

RowTypes ==
  /\ status \in Statuses
  /\ turnsCount \in Nat
  /\ agentTurns \in Seq(Nat)
  /\ studentTurns \in Nat
  /\ verdicts \in Seq(Calls)
  /\ verdict \in 0 .. Len(verdicts)
  /\ clicked \in Calls \cup {NoCall}
  /\ spent \in Nat /\ capped \in BOOLEAN
  /\ lock \in Calls \cup {NoCall}

CallTypes ==
  /\ start \in {"idle", "open", "known", "failed"}
  /\ pc \in [Calls -> PcStates]
  /\ count \in [Calls -> Nat] /\ number \in [Calls -> Nat]
  /\ owed \in [Calls -> Nat] /\ late \in [Calls -> BOOLEAN]

TypeOK == RowTypes /\ CallTypes

Init ==
  /\ status = "none" /\ start = "idle"
  /\ turnsCount = 0 /\ agentTurns = << >> /\ studentTurns = 0
  /\ verdicts = << >> /\ verdict = 0
  /\ clicked = NoCall /\ lock = NoCall
  /\ spent = 0 /\ capped = FALSE
  /\ pc = [c \in Calls |-> "idle"]
  /\ count = [c \in Calls |-> 0] /\ number = [c \in Calls |-> 0]
  /\ owed = [c \in Calls |-> 0] /\ late = [c \in Calls |-> FALSE]

Goto(c, from, to) == pc[c] = from /\ pc' = [pc EXCEPT ![c] = to]
Free(c) == lock \in {NoCall, c}

(*************************** start_session ********************************)
\* The session row is committed before the model is asked.
StartOpen ==
  /\ start = "idle"
  /\ start' = "open" /\ status' = "active"
  /\ UNCHANGED <<turnsCount, agentTurns, studentTurns, verdicts, verdict, clicked,
                 ledger, lock, pc, copies, owed>>

\* The opening turn; nobody else has the session's id yet.
StartReply(cost, ready) ==
  /\ start = "open"
  /\ cost <= CostCap
  /\ start' = "known"
  /\ status' = IF ready THEN "finalizing" ELSE status
  /\ agentTurns' = <<1>> /\ turnsCount' = 1
  /\ spent' = cost
  /\ UNCHANGED <<studentTurns, verdicts, verdict, clicked, capped, lock, pc, copies, owed>>

\* _enforce_cost_cap raises: the id never reaches the client.
StartCapped(cost) ==
  /\ start = "open"
  /\ cost > CostCap
  /\ start' = "failed" /\ status' = "finalizing"
  /\ spent' = cost /\ capped' = TRUE
  /\ UNCHANGED <<turnsCount, agentTurns, studentTurns, verdicts, verdict, clicked,
                 lock, pc, copies, owed>>

\* Any other exception leaves the committed, empty session.
StartFail ==
  /\ start = "open"
  /\ start' = "failed"
  /\ UNCHANGED <<session, ledger, lock, pc, copies, owed>>

(**************************** submit_turn *********************************)
\* _load_active_session; the student turn is inserted, not yet committed.
SubmitLoad(c) ==
  /\ Kind[c] = "submit" /\ start = "known" /\ status = "active"
  /\ Goto(c, "idle", "submitted")
  /\ count' = [count EXCEPT ![c] = turnsCount]
  /\ late' = [late EXCEPT ![c] = capped]
  /\ UNCHANGED <<session, ledger, lock, start, number, owed>>

\* Mutant: the turns are counted without the row lock.
SubmitUnlocked(c) ==
  /\ Goto(c, "submitted", "asking")
  /\ number' = [number EXCEPT ![c] = Len(agentTurns) + 1]
  /\ UNCHANGED <<session, ledger, lock, start, count, late, owed>>

\* The SELECT of _count_agent_turns autoflushes turns_count += 1, which takes
\* the row lock; the count sees what was committed by then.
SubmitLock(c) ==
  /\ Free(c)
  /\ Goto(c, "submitted", "asking")
  /\ lock' = c
  /\ number' = [number EXCEPT ![c] = Len(agentTurns) + 1]
  /\ UNCHANGED <<session, ledger, start, count, late, owed>>

Accumulated(c, cost) == spent + owed[c] + cost

\* Mutant: off by one.
PastCap(n) == n > MaxTurns

AtOrPastCap(n) == n >= MaxTurns

\* The interviewer answers, its cost is logged and the sum checked.
SubmitAnswer(c, cost, ready) ==
  /\ Goto(c, "asking", IF Accumulated(c, cost) > CostCap THEN "over"
                       ELSE IF ready \/ AtOrPastCap(number[c]) THEN "wrap" ELSE "reply")
  /\ owed' = [owed EXCEPT ![c] = @ + cost]
  /\ UNCHANGED <<session, ledger, lock, start, copies>>

\* The commit of both turns, the counter and the log row.
SubmitCommit(c) ==
  /\ pc[c] \in {"reply", "wrap"}
  /\ pc' = [pc EXCEPT ![c] = "end"]
  /\ status' = IF pc[c] = "wrap" THEN "finalizing" ELSE status
  /\ agentTurns' = Append(agentTurns, number[c])
  /\ studentTurns' = studentTurns + 1
  /\ turnsCount' = count[c] + 2
  /\ spent' = spent + owed[c] /\ owed' = [owed EXCEPT ![c] = 0]
  /\ lock' = NoCall
  /\ UNCHANGED <<verdicts, verdict, clicked, capped, start, copies>>

(************************** _enforce_cost_cap *****************************)
\* The sum is over the cap: marker row, status and whatever the call has
\* flushed so far are committed, then the call fails with 429.
CostCapExceeded(c) ==
  /\ Free(c)
  /\ Goto(c, "over", "end")
  /\ status' = "finalizing"
  /\ capped' = TRUE
  /\ spent' = spent + owed[c] /\ owed' = [owed EXCEPT ![c] = 0]
  /\ lock' = NoCall
  /\ IF Kind[c] = "submit"
       THEN studentTurns' = studentTurns + 1 /\ turnsCount' = count[c] + 1
       ELSE UNCHANGED <<studentTurns, turnsCount>>
  /\ UNCHANGED <<agentTurns, verdicts, verdict, clicked, start, copies>>

(************************** finalize_session ******************************)
FinalizeLoad(c, closingNote) ==
  /\ Kind[c] = "finalize" /\ start = "known" /\ status \in {"active", "finalizing"}
  /\ Goto(c, "idle", IF closingNote THEN "noting" ELSE "judging")
  /\ count' = [count EXCEPT ![c] = turnsCount]
  /\ late' = [late EXCEPT ![c] = capped]
  /\ UNCHANGED <<session, ledger, lock, start, number, owed>>

\* The closing note is a student turn of its own commit.
FinalizeNote(c) ==
  /\ Free(c)
  /\ Goto(c, "noting", "judging")
  /\ studentTurns' = studentTurns + 1
  /\ turnsCount' = count[c] + 1
  /\ UNCHANGED <<status, agentTurns, verdicts, verdict, clicked, ledger, lock, start,
                 copies, owed>>

\* Mutant: only this call's own spending is checked.
VerdictAttemptOwnCost(c, cost, passed) ==
  /\ pc[c] \in {"judging", "rejudging"}
  /\ pc' = [pc EXCEPT ![c] = IF owed[c] + cost > CostCap THEN "over"
                             ELSE IF passed \/ pc[c] = "rejudging" THEN "judged"
                             ELSE "rejudging"]
  /\ owed' = [owed EXCEPT ![c] = @ + cost]
  /\ UNCHANGED <<session, ledger, lock, start, copies>>

\* One round of _generate_verdict; a verdict that does not validate is
\* generated once more, then taken as it is.
VerdictAttempt(c, cost, passed) ==
  /\ pc[c] \in {"judging", "rejudging"}
  /\ pc' = [pc EXCEPT ![c] = IF Accumulated(c, cost) > CostCap THEN "over"
                             ELSE IF passed \/ pc[c] = "rejudging" THEN "judged"
                             ELSE "rejudging"]
  /\ owed' = [owed EXCEPT ![c] = @ + cost]
  /\ UNCHANGED <<session, ledger, lock, start, copies>>

\* The verdict row is committed, with the log rows ...
SaveVerdict(c) ==
  /\ Goto(c, "judged", "saved")
  /\ verdicts' = Append(verdicts, c)
  /\ spent' = spent + owed[c] /\ owed' = [owed EXCEPT ![c] = 0]
  /\ UNCHANGED <<status, turnsCount, agentTurns, studentTurns, verdict, clicked, capped,
                 lock, start, copies>>

\* Mutant: the session is completed before its verdict is written.
CompleteFirst(c) ==
  /\ Free(c)
  /\ pc[c] = "judged"
  /\ status' = "completed"
  /\ UNCHANGED <<turnsCount, agentTurns, studentTurns, verdicts, verdict, clicked, ledger,
                 lock, start, pc, copies, owed>>

\* ... and linked by a second commit, which completes the session.
CompleteSession(c) ==
  /\ Free(c)
  /\ Goto(c, "saved", "end")
  /\ \E i \in DOMAIN verdicts : verdicts[i] = c /\ verdict' = i
  /\ status' = "completed"
  /\ UNCHANGED <<turnsCount, agentTurns, studentTurns, verdicts, clicked, ledger, lock,
                 start, copies, owed>>

(********************* abandon_session, record_click **********************)
AbandonLoad(c) ==
  /\ Kind[c] = "abandon" /\ start = "known" /\ status \in {"active", "finalizing"}
  /\ Goto(c, "idle", "leaving")
  /\ UNCHANGED <<session, ledger, lock, start, copies, owed>>

AbandonCommit(c) ==
  /\ Free(c)
  /\ Goto(c, "leaving", "end")
  /\ status' = "abandoned"
  /\ UNCHANGED <<turnsCount, agentTurns, studentTurns, verdicts, verdict, clicked, ledger,
                 lock, start, copies, owed>>

\* A click on a session already stamped changes nothing.
ClickLoad(c) ==
  /\ Kind[c] = "click" /\ start = "known" /\ verdict # 0 /\ clicked = NoCall
  /\ Goto(c, "idle", "clicking")
  /\ UNCHANGED <<session, ledger, lock, start, copies, owed>>

ClickStamp(c) ==
  /\ Free(c)
  /\ Goto(c, "clicking", "end")
  /\ clicked' = c
  /\ UNCHANGED <<status, turnsCount, agentTurns, studentTurns, verdicts, verdict, ledger,
                 lock, start, copies, owed>>

(******************************* behaviour ********************************)
\* Mutant: a failed call keeps the row lock.
AbortLocked(c) ==
  /\ pc[c] \in Running
  /\ pc' = [pc EXCEPT ![c] = "aborted"]
  /\ owed' = [owed EXCEPT ![c] = 0]
  /\ UNCHANGED <<session, ledger, lock, start, copies>>

\* An exception or a restart: what the call has not committed is rolled back.
Abort(c) ==
  /\ pc[c] \in Running
  /\ pc' = [pc EXCEPT ![c] = "aborted"]
  /\ owed' = [owed EXCEPT ![c] = 0]
  /\ lock' = IF lock = c THEN NoCall ELSE lock
  /\ UNCHANGED <<session, ledger, start, copies>>

Starting ==
  \/ StartOpen \/ StartFail
  \/ \E cost \in Costs : StartCapped(cost) \/ \E ready \in BOOLEAN : StartReply(cost, ready)

Client(c) ==
  \/ SubmitLoad(c) \/ AbandonLoad(c) \/ ClickLoad(c)
  \/ \E closingNote \in BOOLEAN : FinalizeLoad(c, closingNote)

Server(c) ==
  \/ SubmitLock(c) \/ SubmitCommit(c) \/ CostCapExceeded(c)
  \/ \E cost \in Costs, yes \in BOOLEAN : SubmitAnswer(c, cost, yes) \/ VerdictAttempt(c, cost, yes)
  \/ FinalizeNote(c) \/ SaveVerdict(c) \/ CompleteSession(c)
  \/ AbandonCommit(c) \/ ClickStamp(c)

Next == Starting \/ \E c \in Calls : Client(c) \/ Server(c) \/ Abort(c)

Spec == Init /\ [][Next]_vars

\* The event loop keeps running an accepted call.  A lock is released when
\* its holder commits, so a waiting call may be passed over by others, but
\* there are finitely many of them.
FairSpec == Spec /\ \A c \in Calls : WF_vars(Server(c))

(******************************* properties *******************************)
\* The agent turns of a session are numbered 1, 2, 3, ... without gap or
\* repetition although submit_turn checks the session long before it counts:
\* the autoflushed UPDATE makes racing submits take turns.
AgentTurnsConsecutive == \A i \in DOMAIN agentTurns : agentTurns[i] = i

\* Whatever interleaves, a session whose turns have reached the soft cap has
\* left `active`: it takes no new turn.
CapEndsConversation == Len(agentTurns) >= MaxTurns => status # "active"

\* A completed session is linked to a verdict whose call wrote it and linked
\* it itself: the two commits of finalize_session never show the status
\* before the verdict.
CompletedHasItsVerdict ==
  status = "completed" => verdict # 0 /\ pc[verdicts[verdict]] = "end"

\* Once a marker row is on record, a finalize that starts later never gets as
\* far as writing a verdict: an over-cap session stays without one for ever.
CappedSessionGetsNoVerdict ==
  \A c \in Calls : late[c] => /\ pc[c] \notin {"judged", "saved"}
                              /\ \A i \in DOMAIN verdicts : verdicts[i] # c

\* Every accepted call ends, waits for the session's row lock included.
CallsSettle == \A c \in Calls : pc[c] \in Running ~> pc[c] \in {"end", "aborted"}

(***************************************************************************)
(* The inductive invariant.                                                *)
(***************************************************************************)
\* Until the client has the id, nobody else acts on the session.
Opening ==
  start \in {"idle", "open"} =>
    /\ ~capped /\ agentTurns = << >>
    /\ \A c \in Calls : pc[c] = "idle"

\* The row lock belongs to the call that is between its count and its commit,
\* so the number it took is still the next one.
LockHeld ==
  \A c \in Calls : pc[c] \in Locking =>
    /\ lock = c
    /\ number[c] = Len(agentTurns) + 1
    /\ pc[c] = "reply" => number[c] < MaxTurns

\* A call fails, and the marker is written, only with the budget spent.
MarkerMeansOver ==
  /\ capped => spent > CostCap
  /\ \A c \in Calls : pc[c] = "over" => spent + owed[c] > CostCap

\* Nothing brings an over-budget session a verdict.
LateCallsFail ==
  \A c \in Calls : late[c] => capped /\ pc[c] \notin {"judged", "saved"}

\* Verdicts were written by calls that got that far in time.
VerdictCalls ==
  \A i \in DOMAIN verdicts :
    pc[verdicts[i]] \in {"saved", "end", "aborted"} /\ ~late[verdicts[i]]

\* The invariant the proofs carry from step to step.
IInv ==
  /\ TypeOK
  /\ Opening /\ LockHeld
  /\ MarkerMeansOver /\ LateCallsFail /\ VerdictCalls
  /\ AgentTurnsConsecutive /\ CapEndsConversation /\ CompletedHasItsVerdict
=============================================================================
