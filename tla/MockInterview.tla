---------------------------- MODULE MockInterview ----------------------------
(***************************************************************************)
(* One session of the v3 mock interview (services/mock_interview_service.py *)
(* behind api/v1/routes/mock_interview.py) under concurrent HTTP calls.    *)
(*                                                                         *)
(* A call reads the session row once and keeps its copy.  Every logged     *)
(* cost is flushed as an UPDATE of that row, so the call holds the row's   *)
(* lock from there to its next commit; what it inserts meanwhile is seen   *)
(* by itself alone.  The memory service commits in the middle of a call.   *)
(* The language models answer between two steps.                           *)
(***************************************************************************)
EXTENDS Integers, Sequences, FiniteSets

CONSTANTS
  Calls,         \* HTTP calls about the session
  Kind,          \* what each call is: start, answer, complete or share
  Costs,         \* rupees a call of a model may cost
  CostCap,       \* COST_CAP_INR
  MaxProbes,     \* MAX_PROBES_PER_QUESTION
  NoCall         \* nobody

\* A model that answers reports its tokens, and they have a price.  Answers are counted.
ASSUME MockAssumption ==
  /\ IsFiniteSet(Calls)
  /\ Kind \in [Calls -> {"start", "answer", "complete", "share"}]
  /\ Costs \subseteq Nat \ {0} /\ CostCap \in Nat /\ MaxProbes \in Nat \ {0}
  /\ NoCall \notin Calls

VARIABLES
  status,        \* interview_sessions.status; absent before the row is committed
  total,         \* total_cost_inr of the row
  token,         \* share_token: the call that issued it, or NoCall
  questions,     \* the position of each committed question, in the order of the commits
  answers,       \* the committed answers, each named after its call
  report,        \* the call whose report is committed, or NoCall
  rated,         \* the answers overall_score is the mean of
  spent,         \* sum of the committed mock_cost_log rows
  weakness,      \* a concept of the user's ledger: none, open or addressed
  stale,         \* the ledger has a row past its horizon
  lock,          \* the call holding the lock of the session row, or NoCall
  pc,            \* where each call is
  asked,         \* answer: the question it answers, an index of questions
  copy,          \* total_cost_inr of its own session object
  owed,          \* cost of the log rows it has flushed and not committed
  seen,          \* the answers it has read: to its question, or all of them to rate
  prior,         \* answer: how many questions it has read
  given,         \* share: the token it returned, or NoCall
  raced          \* history: a call has met another one under way

row    == <<status, total, token>>
tables == <<questions, answers, report, rated, spent>>
memory == <<weakness, stale>>
reads  == <<asked, seen, prior, given>>
vars   == <<row, tables, memory, lock, pc, copy, owed, reads, raced>>

\* An answer is in its table and not committed, unless the ledger has been.
Drafting == {"counting", "reacting", "selecting"}
Running  == {"opening", "scoring", "analysing", "issuing"} \cup Drafting
Over     == {"refused", "failed", "probe", "stay", "next", "capped", "end"}

RowTypes ==
  /\ status \in {"absent", "active", "completed"} /\ total \in Nat /\ token \in Calls \cup {NoCall}
  /\ questions \in Seq(Nat) /\ answers \subseteq Calls /\ rated \subseteq Calls
  /\ report \in Calls \cup {NoCall} /\ spent \in Nat
  /\ weakness \in {"none", "open", "addressed"} /\ stale \in BOOLEAN
  /\ lock \in Calls \cup {NoCall}

CallTypes ==
  /\ pc \in [Calls -> {"idle"} \cup Running \cup Over]
  /\ asked \in [Calls -> Nat] /\ copy \in [Calls -> Nat] /\ owed \in [Calls -> Nat]
  /\ seen \in [Calls -> SUBSET Calls] /\ prior \in [Calls -> Nat]
  /\ given \in [Calls -> Calls \cup {NoCall}] /\ raced \in BOOLEAN

TypeOK == RowTypes /\ CallTypes

Init ==
  /\ status = "absent" /\ total = 0 /\ token = NoCall
  /\ questions = << >> /\ answers = {} /\ report = NoCall /\ rated = {} /\ spent = 0
  /\ weakness \in {"none", "open"} /\ stale \in BOOLEAN
  /\ lock = NoCall /\ raced = FALSE
  /\ pc = [c \in Calls |-> "idle"]
  /\ asked = [c \in Calls |-> 0] /\ copy = [c \in Calls |-> 0] /\ owed = [c \in Calls |-> 0]
  /\ seen = [c \in Calls |-> {}] /\ prior = [c \in Calls |-> 0]
  /\ given = [c \in Calls |-> NoCall]

Goto(c, from, to) == pc[c] = from /\ pc' = [pc EXCEPT ![c] = to]
Free(c) == lock \in {NoCall, c}

\* _load_session: the caller's own row; anything else is a 404.
Loads(c, kind, to) ==
  /\ Kind[c] = kind /\ status # "absent" /\ Goto(c, "idle", to)
  /\ raced' = (raced \/ \E d \in Calls : pc[d] \in Running)

\* Mutant: the commit adds what the copy has already.
LogCostTwice(c, cost, commits) ==
  /\ Free(c)
  /\ copy' = [copy EXCEPT ![c] = @ + cost]
  /\ IF commits
       THEN /\ lock' = NoCall /\ total' = copy[c] + owed[c] + cost
            /\ spent' = spent + owed[c] + cost /\ owed' = [owed EXCEPT ![c] = 0]
       ELSE lock' = c /\ owed' = [owed EXCEPT ![c] = @ + cost] /\ UNCHANGED <<total, spent>>

\* _log_cost flushes a log row and the sum of the copy; whoever holds the row is waited
\* for.  The caller may commit before anybody else can tell.
LogCost(c, cost, commits) ==
  /\ Free(c)
  /\ copy' = [copy EXCEPT ![c] = @ + cost]
  /\ IF commits
       THEN /\ lock' = NoCall /\ total' = copy[c] + cost
            /\ spent' = spent + owed[c] + cost /\ owed' = [owed EXCEPT ![c] = 0]
       ELSE lock' = c /\ owed' = [owed EXCEPT ![c] = @ + cost] /\ UNCHANGED <<total, spent>>

\* _prune_stale: what it deletes is committed, and whatever else is flushed with it.
PruneStale == stale' = FALSE

(***************************** start_session ******************************)
\* The row is flushed; the pruning of the ledger commits it before its first question.
\* One mode is refused.
StartSession(c) ==
  /\ Kind[c] = "start" /\ status = "absent" /\ \A d \in Calls : pc[d] # "opening"
  /\ \/ Goto(c, "idle", "refused") /\ UNCHANGED <<status, stale>>
     \/ /\ Goto(c, "idle", "opening")
        /\ status' = IF stale THEN "active" ELSE status
        /\ PruneStale
  /\ UNCHANGED <<total, token, tables, weakness, lock, copy, owed, reads, raced>>

\* The selector's question; none at all is an error (Fail).
FirstQuestion(c, cost) ==
  /\ Goto(c, "opening", "end") /\ LogCost(c, cost, TRUE)
  /\ status' = IF status = "absent" THEN "active" ELSE status
  /\ questions' = Append(questions, 1)
  /\ UNCHANGED <<token, answers, report, rated, memory, reads, raced>>

(***************************** submit_answer ******************************)
\* Refused once the session is completed, or for a question of another session (0).
SubmitAnswer(c, q) ==
  /\ Loads(c, "answer", IF status = "completed" \/ q = 0 THEN "refused" ELSE "scoring")
  /\ q \in 0 .. Len(questions)
  /\ IF pc'[c] = "scoring"
       THEN asked' = [asked EXCEPT ![c] = q] /\ copy' = [copy EXCEPT ![c] = total]
       ELSE UNCHANGED <<asked, copy>>
  /\ UNCHANGED <<row, tables, memory, lock, owed, seen, prior, given>>

\* An upsert on the concept, unless no signal names it; only a severe one opens it again.
WithSignal(signal) ==
  IF signal \in {"none", "other"} \/ (weakness = "addressed" /\ signal = "mild")
    THEN weakness ELSE "open"

\* The answer is inserted with its evaluation; any signal of a weakness is committed,
\* and the answer and its cost with it.
Scored(c, cost, signal) ==
  /\ Goto(c, "scoring", "counting") /\ LogCost(c, cost, signal # "none")
  /\ answers' = IF signal = "none" THEN answers ELSE answers \cup {c}
  /\ weakness' = WithSignal(signal)
  /\ UNCHANGED <<status, token, questions, report, rated, stale, reads, raced>>

\* Mutant: the answers are counted before this one is among them.
ProbeCountBefore(c) ==
  /\ Goto(c, "counting", "reacting")
  /\ seen' = [seen EXCEPT ![c] = {a \in answers \ {c} : asked[a] = asked[c]}]
  /\ UNCHANGED <<row, tables, memory, lock, copy, owed, asked, prior, given, raced>>

\* _probe_count: every answer to the question, this one included.
ProbeCount(c) ==
  /\ Goto(c, "counting", "reacting")
  /\ seen' = [seen EXCEPT ![c] = {a \in answers \cup {c} : asked[a] = asked[c]}]
  /\ UNCHANGED <<row, tables, memory, lock, copy, owed, asked, prior, given, raced>>

MovesOn(c, action) == action = "move_on" \/ (action = "probe" /\ Cardinality(seen[c]) >= MaxProbes)
Capped(c, cost) == copy[c] + cost > CostCap

\* The interviewer stays on the question (by a probe or otherwise), or the cap is hit:
\* the answer is complete.
Reacted(c, cost, action) ==
  /\ Capped(c, cost) \/ ~MovesOn(c, action)
  /\ Goto(c, "reacting", IF Capped(c, cost) THEN "capped" ELSE IF action = "probe" THEN "probe" ELSE "stay")
  /\ LogCost(c, cost, TRUE)
  /\ answers' = answers \cup {c}
  /\ UNCHANGED <<status, token, questions, report, rated, memory, reads, raced>>

\* It moves on: the questions are read, then the ledger, whose pruning commits.
ReactedMovesOn(c, cost, action) ==
  /\ ~Capped(c, cost) /\ MovesOn(c, action)
  /\ Goto(c, "reacting", "selecting") /\ LogCost(c, cost, stale)
  /\ prior' = [prior EXCEPT ![c] = Len(questions)]
  /\ answers' = IF stale THEN answers \cup {c} ELSE answers
  /\ PruneStale
  /\ UNCHANGED <<status, token, questions, report, rated, weakness, asked, seen, given, raced>>

\* The next question, unless the selector's payload has no text.
Selected(c, cost, text) ==
  /\ Goto(c, "selecting", IF text THEN "next" ELSE "end") /\ LogCost(c, cost, TRUE)
  /\ questions' = IF text THEN Append(questions, prior[c] + 1) ELSE questions
  /\ answers' = answers \cup {c}
  /\ UNCHANGED <<status, token, report, rated, memory, reads, raced>>

\* A selector that fails is passed over: the answer is committed without a question.
SelectorFails(c) ==
  /\ Goto(c, "selecting", "end")
  /\ answers' = answers \cup {c}
  /\ total' = IF lock = c THEN copy[c] ELSE total
  /\ spent' = spent + owed[c] /\ owed' = [owed EXCEPT ![c] = 0]
  /\ lock' = IF lock = c THEN NoCall ELSE lock
  /\ UNCHANGED <<status, token, questions, report, rated, memory, copy, reads, raced>>

(**************************** complete_session ****************************)
\* A completed session returns its report, and a 409 without one.
CompleteAgain(c) ==
  /\ status = "completed" /\ Loads(c, "complete", IF report = NoCall THEN "refused" ELSE "end")
  /\ UNCHANGED <<row, tables, memory, lock, copy, owed, reads>>

\* The transcript and the answers are read, then the ledger.
Complete(c) ==
  /\ status = "active" /\ Loads(c, "complete", "analysing")
  /\ copy' = [copy EXCEPT ![c] = total] /\ seen' = [seen EXCEPT ![c] = answers]
  /\ PruneStale
  /\ UNCHANGED <<row, tables, weakness, lock, owed, asked, prior, given>>

\* mark_addressed: the analyst may name the concept.
MarkAddressed(addressed) ==
  weakness' = IF addressed /\ weakness = "open" THEN "addressed" ELSE weakness

\* Mutant: a report there is gives way to the new one.
AnalysedUpserts(c, cost, addressed) ==
  /\ Goto(c, "analysing", "end") /\ LogCost(c, cost, TRUE)
  /\ report' = c /\ rated' = seen[c] /\ status' = "completed"
  /\ MarkAddressed(addressed)
  /\ UNCHANGED <<token, questions, answers, stale, reads, raced>>

\* The report, the score and the status go in one commit, with what the analyst found
\* addressed.  session_id is unique: after another report this one fails (Fail).
Analysed(c, cost, addressed) ==
  /\ report = NoCall
  /\ Goto(c, "analysing", "end") /\ LogCost(c, cost, TRUE)
  /\ report' = c /\ rated' = seen[c] /\ status' = "completed"
  /\ MarkAddressed(addressed)
  /\ UNCHANGED <<token, questions, answers, stale, reads, raced>>

(************************** issue_share_token *****************************)
\* Only a completed session is shared; a token it has is returned.
Share(c) ==
  /\ Loads(c, "share", IF status # "completed" THEN "refused"
                       ELSE IF token = NoCall THEN "issuing" ELSE "end")
  /\ given' = IF status = "completed" THEN [given EXCEPT ![c] = token] ELSE given
  /\ UNCHANGED <<row, tables, memory, lock, copy, owed, asked, seen, prior>>

IssueShareToken(c) ==
  /\ Goto(c, "issuing", "end") /\ lock = NoCall
  /\ token' = c /\ given' = [given EXCEPT ![c] = c]
  /\ UNCHANGED <<status, total, tables, memory, lock, copy, owed, asked, seen, prior, raced>>

(******************************* get_db ***********************************)
\* An exception of a model or of the database: what is not committed is rolled back.
Fail(c) ==
  /\ pc[c] \in Running /\ pc' = [pc EXCEPT ![c] = "failed"]
  /\ lock' = IF lock = c THEN NoCall ELSE lock
  /\ owed' = [owed EXCEPT ![c] = 0]
  /\ UNCHANGED <<row, tables, memory, copy, reads, raced>>

Client(c) ==
  \/ StartSession(c) \/ (\E q \in 0 .. Len(questions) : SubmitAnswer(c, q))
  \/ CompleteAgain(c) \/ Complete(c) \/ Share(c)

Server(c) ==
  \/ ProbeCount(c) \/ SelectorFails(c) \/ IssueShareToken(c) \/ Fail(c)
  \/ \E cost \in Costs :
       \/ FirstQuestion(c, cost)
       \/ \E signal \in {"none", "other", "mild", "severe"} : Scored(c, cost, signal)
       \/ \E action \in {"probe", "move_on", "end_question"} :
            Reacted(c, cost, action) \/ ReactedMovesOn(c, cost, action)
       \/ \E text \in BOOLEAN : Selected(c, cost, text)
       \/ \E addressed \in BOOLEAN : Analysed(c, cost, addressed)

Next == \E c \in Calls : Client(c) \/ Server(c)
Spec == Init /\ [][Next]_vars

(***************************************************************************)
(* Properties.                                                             *)
(***************************************************************************)
\* The running cost, which the cap is read from, never claims more than the log, and
\* it claims all of it as long as no call has met another: not a commit in the middle
\* of a call, a selector that failed or a call that was rolled back loses a rupee.
RunningCostIsLogged == total <= spent /\ (~raced => total = spent)

\* A question is probed fewer times than MAX_PROBES_PER_QUESTION, the answers that
\* arrive together included: the row lock taken with the scorer's cost orders them.
ProbesAreBounded ==
  \A q \in DOMAIN questions : Cardinality({c \in Calls : asked[c] = q /\ pc[c] = "probe"}) < MaxProbes

\* A session is completed once: the report and the score of the first analyst stand
\* whatever calls were under way, and they came together with the status.
ReportStands ==
  [][/\ (report' # NoCall) = (status' = "completed")
     /\ report # NoCall => UNCHANGED <<report, rated, status>>]_vars

(***************************************************************************)
(* The inductive invariant.                                                *)
(***************************************************************************)
\* Calls whose copy of the running cost will be written back.
Costing == Running \ {"issuing"}

\* The row is locked by a call that has written an answer and not committed its cost.
LockIsADraft ==
  /\ lock \in Calls => pc[lock] \in Drafting
  /\ \A c \in Calls : lock # c <=> owed[c] = 0

\* Before the session is there only its start is under way, and nothing is spent.
NothingBefore ==
  /\ status = "absent" => total = 0 /\ spent = 0 /\ \A c \in Calls : pc[c] \in Running => pc[c] = "opening"
  /\ \A c \in Calls : pc[c] = "idle" => copy[c] = 0 /\ owed[c] = 0

\* A copy holds no cost but its own that is not in the log, and if nobody else
\* is under way it holds all of them.
CopiesAreLogged ==
  /\ \A c \in Calls : pc[c] \in Costing => copy[c] <= spent + owed[c] /\ (~raced => copy[c] = spent + owed[c])
  /\ ~raced => \A c, d \in Calls : pc[c] \in Running /\ pc[d] \in Running => c = d

CostInv == LockIsADraft /\ NothingBefore /\ CopiesAreLogged /\ RunningCostIsLogged

\* An answer that is written and not committed is that of the call that holds the row.
AnswersInv ==
  /\ \A a \in answers : pc[a] # "idle"
  /\ \A c \in Calls : pc[c] \in Drafting /\ lock # c => c \in answers
  /\ \A c \in Calls : pc[c] = "probe" => c \in answers

\* A call that has counted the answers to its question and acts on the number.
Counted(c) == pc[c] \in {"reacting", "probe"}
AnswersTo(q) == {a \in answers : asked[a] = q}
ProbesOf(q) == {c \in Calls : asked[c] = q /\ pc[c] = "probe"}

CountsAnswers ==
  \A c \in Calls : Counted(c) =>
    /\ c \in seen[c] /\ seen[c] \subseteq AnswersTo(asked[c]) \cup {c}
    /\ lock = c => AnswersTo(asked[c]) \subseteq seen[c]

\* Of two calls that count, the later to commit its answer has seen all the other has.
CountsAreOrdered ==
  \A c, d \in Calls : Counted(c) /\ Counted(d) /\ asked[c] = asked[d] =>
    c \in seen[d] \/ seen[d] \subseteq seen[c]

\* One of the probes of a question has seen all of them, and was allowed.
LastProbe ==
  /\ \A c \in Calls : pc[c] = "probe" => Cardinality(seen[c]) < MaxProbes
  /\ \A c \in Calls : pc[c] = "probe" =>
       \E m \in ProbesOf(asked[c]) : ProbesOf(asked[c]) \subseteq seen[m]

ProbeInv == CountsAnswers /\ CountsAreOrdered /\ LastProbe

ReportInv == report # NoCall <=> status = "completed"

\* The invariant the proofs carry from step to step.
IInv == TypeOK /\ CostInv /\ AnswersInv /\ ProbeInv /\ ReportInv
=============================================================================
