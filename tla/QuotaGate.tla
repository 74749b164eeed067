------------------------------ MODULE QuotaGate ------------------------------
(***************************************************************************)
(* The quota of the tailored-resume agent during the migration from        *)
(* generation_logs to agent_invocation_log (services/quota_service.py,     *)
(* services/agent_invocation_logger.py,                                    *)
(* services/tailored_resume_service.py).  Every quota check reads both     *)
(* tables, records on one row of migration_gates whether they agree, and   *)
(* believes the old table until enough consecutive checks have agreed.     *)
(*                                                                         *)
(* Transactions are READ COMMITTED: each SELECT is a step of its own, and  *)
(* the UPDATE of the gate row holds its lock to the end of the             *)
(* transaction, over every later check of it.  total_checks, the count and *)
(* payload of divergences and updated_at are only reported, and left out.  *)
(***************************************************************************)
EXTENDS Integers, FiniteSets, FiniteSetTheorems

CONSTANTS
  Requests,      \* HTTP calls that may be made
  Owner,         \* the user of each
  Kind,          \* "generate", or "view" (GET /quota, POST /intake)
  DailyLimit, MonthlyLimit,
  Threshold,     \* AGREEMENT_THRESHOLD
  MonthLength,   \* days of a month
  MaxDay,        \* bound: days that pass
  NoRequest

ASSUME KindAssumption == Kind \in [Requests -> {"generate", "view"}]
ASSUME LimitsAssumption == {DailyLimit, MonthlyLimit, Threshold, MonthLength} \subseteq Nat \ {0}
ASSUME DaysAssumption == MaxDay \in Nat
ASSUME RequestsAssumption == IsFiniteSet(Requests) /\ NoRequest \notin Requests

VARIABLES
  legacy,        \* requests with a consuming row in generation_logs
  ledger,        \* requests with a consuming row in agent_invocation_log
  dated,         \* created_at of those rows
  today,
  gate,          \* the committed row of migration_gates
  lock,          \* the request holding its row lock, or NoRequest
  pc,
  now,           \* check_quota: the day it takes its windows from
  pass,          \* check_quota call of the request: 1, and 2 and 3 after a generation
  round,         \* _count_events call of check_quota: ever, day, month
  read,          \* counts read in this round: legacy, ledger
  snap,          \* the gate row as read or written by this transaction
  used,          \* what each round returned
  late           \* history: the quota was used up when the request came in

logs == <<legacy, ledger, dated>>
local == <<now, pass, round, read, snap, used, late>>
vars == <<logs, today, gate, lock, pc, local>>

Rounds == 1 .. 3
Checking == {"legacy", "new", "gate", "write"}
PcStates == Checking \cup {"idle", "decided", "working", "end", "aborted"}
Running == Checking \cup {"decided", "working"}
GateRow == [agreements : Nat, flipped : BOOLEAN]

TypeOK ==
  /\ legacy \in SUBSET Requests /\ ledger \in SUBSET Requests
  /\ dated \in [Requests -> Nat] /\ today \in Nat
  /\ gate \in GateRow
  /\ lock \in Requests \cup {NoRequest}
  /\ pc \in [Requests -> PcStates]
  /\ now \in [Requests -> Nat] /\ pass \in [Requests -> Rounds] /\ round \in [Requests -> Rounds]
  /\ read \in [Requests -> [legacy : Nat, ledger : Nat]]
  /\ snap \in [Requests -> GateRow]
  /\ used \in [Requests -> [Rounds -> Nat]]
  /\ late \in [Requests -> BOOLEAN]

FreshGate == [agreements |-> 0, flipped |-> FALSE]
NoCounts == [legacy |-> 0, ledger |-> 0]
NothingUsed == [i \in Rounds |-> 0]

Init ==
  /\ legacy = {} /\ ledger = {} /\ dated = [r \in Requests |-> 0] /\ today = 1
  /\ gate = FreshGate /\ lock = NoRequest
  /\ pc = [r \in Requests |-> "idle"]
  /\ now = [r \in Requests |-> 0]
  /\ pass = [r \in Requests |-> 1] /\ round = [r \in Requests |-> 1]
  /\ read = [r \in Requests |-> NoCounts]
  /\ snap = [r \in Requests |-> FreshGate]
  /\ used = [r \in Requests |-> NothingUsed]
  /\ late = [r \in Requests |-> FALSE]

Goto(r, from, to) == pc[r] = from /\ pc' = [pc EXCEPT ![r] = to]
Free(r) == lock \in {NoRequest, r}

(****************************** check_quota *******************************)
MonthStart(day) == day - ((day - 1) % MonthLength)

\* The `since` of each of its three _count_events calls.
Since(day, i) == CASE i = 1 -> 0 [] i = 2 -> day [] i = 3 -> MonthStart(day)

Events(table, user, since) == {q \in table : Owner[q] = user /\ dated[q] >= since}

CountEvents(table, user, since) == Cardinality(Events(table, user, since))

\* Mutant: one generation too many.
AllowsOneMore(n) == n[1] = 0 \/ (n[2] <= DailyLimit /\ n[3] <= MonthlyLimit)

\* check_quota's answer; the first generation is always free.
Allowed(n) == n[1] = 0 \/ (n[2] < DailyLimit /\ n[3] < MonthlyLimit)

Begin(r) ==
  /\ Goto(r, "idle", "legacy")
  /\ now' = [now EXCEPT ![r] = today]
  /\ late' = [late EXCEPT ![r] =
                \/ CountEvents(legacy, Owner[r], today) >= DailyLimit
                \/ CountEvents(legacy, Owner[r], MonthStart(today)) >= MonthlyLimit]
  /\ UNCHANGED <<logs, today, gate, lock, pass, round, read, snap, used>>

ReadLegacy(r) ==
  /\ Goto(r, "legacy", "new")
  /\ read' = [read EXCEPT ![r].legacy =
                CountEvents(legacy, Owner[r], Since(now[r], round[r]))]
  /\ UNCHANGED <<logs, today, gate, lock, now, pass, round, snap, used, late>>

ReadNew(r) ==
  /\ Goto(r, "new", "gate")
  /\ read' = [read EXCEPT ![r].ledger =
                CountEvents(ledger, Owner[r], Since(now[r], round[r]))]
  /\ UNCHANGED <<logs, today, gate, lock, now, pass, round, snap, used, late>>

\* The row as committed, or as this transaction has written it.
ReadGate(r) ==
  /\ Goto(r, "gate", "write")
  /\ snap' = IF lock = r THEN snap ELSE [snap EXCEPT ![r] = gate]
  /\ UNCHANGED <<logs, today, gate, lock, now, pass, round, read, used, late>>

\* record_parity_check: the columns its UPDATE sets, computed from the row it
\* read before; those it does not set stay as they are by then.
Recorded(row, current, agree) ==
  IF agree THEN [current EXCEPT !.agreements = row.agreements + 1,
                                !.flipped = row.flipped \/ row.agreements + 1 >= Threshold]
           ELSE [current EXCEPT !.agreements = 0]

\* The UPDATE waits for the row lock; has_flipped then reads this
\* transaction's own row.
WriteGate(r) ==
  /\ Free(r)
  /\ pc[r] = "write"
  /\ lock' = r
  /\ LET row == Recorded(snap[r], IF lock = r THEN snap[r] ELSE gate,
                         read[r].legacy = read[r].ledger)
         n   == IF row.flipped THEN read[r].ledger ELSE read[r].legacy
         last == round[r] = 3 \/ (round[r] = 1 /\ n = 0)
     IN /\ snap' = [snap EXCEPT ![r] = row]
        /\ used' = [used EXCEPT ![r][round[r]] = n]
        /\ pc' = [pc EXCEPT ![r] = IF last THEN "decided" ELSE "legacy"]
        /\ round' = [round EXCEPT ![r] = IF last THEN 1 ELSE @ + 1]
  /\ read' = [read EXCEPT ![r] = NoCounts]
  /\ UNCHANGED <<logs, today, gate, now, pass, late>>

\* The locals of a call, gone with its transaction.
Forget(r) ==
  /\ now' = [now EXCEPT ![r] = 0]
  /\ round' = [round EXCEPT ![r] = 1]
  /\ read' = [read EXCEPT ![r] = NoCounts]
  /\ snap' = [snap EXCEPT ![r] = FreshGate]
  /\ used' = [used EXCEPT ![r] = NothingUsed]
  /\ UNCHANGED <<pass, late>>

CommitGate(r) == gate' = snap[r] /\ lock' = NoRequest /\ Forget(r)

(************************ generate_tailored_resume ************************)
\* Mutant: the `started` event is not committed.
AdmitUncommitted(r) ==
  /\ Kind[r] = "generate" /\ pass[r] = 1 /\ Allowed(used[r])
  /\ Goto(r, "decided", "working")
  /\ UNCHANGED <<logs, today, gate, lock, local>>

\* The `started` event is committed, and with it the checks.
Admit(r) ==
  /\ Kind[r] = "generate" /\ pass[r] = 1 /\ Allowed(used[r])
  /\ Goto(r, "decided", "working")
  /\ CommitGate(r)
  /\ UNCHANGED <<logs, today>>

\* ... or the `quota_blocked` event.
Refuse(r) ==
  /\ Kind[r] = "generate" /\ pass[r] = 1 /\ ~Allowed(used[r])
  /\ Goto(r, "decided", "end")
  /\ CommitGate(r)
  /\ UNCHANGED <<logs, today>>

\* _log_event of a completed or failed run, both tables in one commit.
LogEvent(r) ==
  /\ legacy' = legacy \cup {r}
  /\ ledger' = ledger \cup {r}
  /\ dated' = [dated EXCEPT ![r] = today]

\* The response counts the quota twice more, in the service and the route.
Complete(r) ==
  /\ Goto(r, "working", "legacy")
  /\ LogEvent(r)
  /\ pass' = [pass EXCEPT ![r] = 2]
  /\ now' = [now EXCEPT ![r] = today]
  /\ UNCHANGED <<today, gate, lock, round, read, snap, used, late>>

\* The cost cap or any exception of the pipeline.
Fail(r) ==
  /\ Goto(r, "working", "end")
  /\ LogEvent(r)
  /\ UNCHANGED <<today, gate, lock, local>>

\* Mutant: the insert is nested, so that the rest is committed without it.
LogLegacyAlone(r) ==
  /\ Goto(r, "working", "end")
  /\ legacy' = legacy \cup {r}
  /\ dated' = [dated EXCEPT ![r] = today]
  /\ UNCHANGED <<ledger, today, gate, lock, local>>

\* The flush of the two rows fails: log_invocation swallows the exception, but
\* the session refuses the commit that follows, and that of the `failed` event
\* too.  Neither table gets a row.
LogRefused(r) ==
  /\ Goto(r, "working", "aborted")
  /\ Forget(r)
  /\ UNCHANGED <<logs, today, gate, lock>>

Recount(r) ==
  /\ pass[r] = 2
  /\ Goto(r, "decided", "legacy")
  /\ pass' = [pass EXCEPT ![r] = 3]
  /\ now' = [now EXCEPT ![r] = today]
  /\ UNCHANGED <<logs, today, gate, lock, round, read, snap, used, late>>

\* The end of a request that only reports the quota: get_db commits.
Respond(r) ==
  /\ Kind[r] = "view" \/ pass[r] = 3
  /\ Goto(r, "decided", "end")
  /\ CommitGate(r)
  /\ UNCHANGED <<logs, today>>

(******************************* behaviour ********************************)
\* Mutant: the row lock of a failed request stays.
AbortLocked(r) ==
  /\ pc[r] \in Running
  /\ pc' = [pc EXCEPT ![r] = "aborted"]
  /\ Forget(r)
  /\ UNCHANGED <<logs, today, gate, lock>>

\* A crash, or an exception outside the pipeline: rollback.
Abort(r) ==
  /\ pc[r] \in Running
  /\ pc' = [pc EXCEPT ![r] = "aborted"]
  /\ lock' = IF lock = r THEN NoRequest ELSE lock
  /\ Forget(r)
  /\ UNCHANGED <<logs, today, gate>>

NextDay ==
  /\ today < MaxDay
  /\ today' = today + 1
  /\ UNCHANGED <<logs, gate, lock, pc, local>>

Check(r) == ReadLegacy(r) \/ ReadNew(r) \/ ReadGate(r) \/ WriteGate(r)

Server(r) ==
  \/ Check(r)
  \/ Admit(r) \/ Refuse(r) \/ Complete(r) \/ Fail(r) \/ LogRefused(r)
  \/ Recount(r) \/ Respond(r)

Next == NextDay \/ \E r \in Requests : Begin(r) \/ Server(r) \/ Abort(r)

Spec == Init /\ [][Next]_vars

\* The event loop keeps running an accepted request, and model calls end.
FairSpec == Spec /\ \A r \in Requests : WF_vars(Server(r))

(******************************* properties *******************************)
\* A request that comes in when the day's or the month's quota is on record
\* as used up never runs the pipeline, whatever commits while its six SELECTs
\* run, whichever table it ends up believing, whether the runs that used the
\* quota up completed or failed, and though the insert into the new table may
\* fail without a word.
UsedUpQuotaBlocks == \A r \in Requests : late[r] => pc[r] # "working" /\ r \notin legacy

\* The gate row is shared by all users: no request keeps it locked while a
\* model is running.
GateFreeWhileGenerating == \A r \in Requests : pc[r] = "working" => lock # r

\* Every accepted request ends, however many wait for the gate row.
RequestsSettle == \A r \in Requests : pc[r] \in Running ~> pc[r] \in {"end", "aborted"}

(***************************************************************************)
(* Why a used-up quota blocks: the inductive invariant.                    *)
(***************************************************************************)
\* A request holds the lock of the gate row from its first UPDATE to its
\* commit, and every decision is taken under it.
LockInv ==
  /\ lock # NoRequest => pc[lock] \in Checking \cup {"decided"}
  /\ \A r \in Requests : pc[r] = "decided" => lock = r

\* The two rows of a run are committed together.
SameRuns == legacy = ledger

\* A request is on record once, when its run has ended.
RunInv == \A r \in Requests :
  /\ pc[r] = "idle" => pass[r] = 1 /\ round[r] = 1 /\ ~late[r]
  /\ pc[r] = "working" => pass[r] = 1
  /\ pass[r] = 1 /\ pc[r] \notin {"end", "aborted"} => r \notin legacy

DayFull(r) == CountEvents(legacy, Owner[r], now[r]) >= DailyLimit
MonthFull(r) == CountEvents(legacy, Owner[r], MonthStart(now[r])) >= MonthlyLimit

\* What request r has read so far of its i-th window is at least n.
Seen(r, i, n) ==
  /\ round[r] = i /\ pc[r] \in {"new", "gate", "write"} => read[r].legacy >= n
  /\ round[r] = i /\ pc[r] \in {"gate", "write"} => read[r].ledger >= n
  /\ round[r] > i \/ pc[r] = "decided" => used[r][i] >= n

\* A request that came in late goes on seeing the full window it came in to.
Blocked(r) ==
  /\ pass[r] = 1 /\ r \notin legacy /\ pc[r] # "working"
  /\ pc[r] \in Checking \cup {"decided"} =>
       /\ Seen(r, 1, 1)
       /\ \/ DayFull(r) /\ Seen(r, 2, DailyLimit)
          \/ MonthFull(r) /\ Seen(r, 3, MonthlyLimit)

LateInv == \A r \in Requests : late[r] => Blocked(r)

IInv == TypeOK /\ SameRuns /\ LockInv /\ RunInv /\ LateInv
=============================================================================
