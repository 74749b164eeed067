------------------------------ MODULE Practice ------------------------------
(***************************************************************************)
(* The two pages on which code is submitted: the practice workspace (run,  *)
(* AI review, submit, reset) and the exercise page (explain, submit,       *)
(* reference solution).  Both poll their active submission until it is     *)
(* graded; polls answer late and out of order.                             *)
(***************************************************************************)
EXTENDS Screen

CONSTANT MaxSubmissions

\* The code in an editor: nothing, the starter, or what the n-th edit left.
Nothing == 0
Starter == 1
NoSubmission == [id |-> 0, status |-> "none"]

(***************************************************************************)
(* Submissions and their polling, shared by the two pages.  The active     *)
(* submission is raced if a poll of an earlier one was out when it became  *)
(* the active one.                                                         *)
(***************************************************************************)
Submissions ==
  [graded |-> <<>>, submitting |-> FALSE, active |-> 0, shown |-> NoSubmission,
   polls |-> {}, raced |-> FALSE]
WithSubmissions(page) ==
  [f \in DOMAIN page \cup DOMAIN Submissions |-> IF f \in DOMAIN page THEN page[f] ELSE Submissions[f]]

Polling == s.active # 0 /\ s.shown.status \in {"none", "pending"}

\* The interval ticks; an answer may have been read at any time since.
PollTicks ==
  /\ Polling /\ Cardinality(s.polls) < 2
  /\ Set([s EXCEPT !.polls = @ \cup {[id |-> s.active, status |-> s.graded[s.active]]}])

PollLands(p) ==
  /\ p \in s.polls
  /\ \E status \in {p.status, s.graded[p.id]} :
       Set([s EXCEPT !.polls = @ \ {p}, !.shown = [id |-> p.id, status |-> status]])

PollFails(p) == p \in s.polls /\ Set([s EXCEPT !.polls = @ \ {p}])

Grade(id) ==
  /\ s.graded[id] = "pending"
  /\ \E verdict \in {"passed", "failed"} : Set([s EXCEPT !.graded[id] = verdict])

\* Mutant: what was on screen stays until the first poll.
SubmittedUnshown(st) ==
  [st EXCEPT !.graded = Append(@, "pending"), !.active = Len(st.graded) + 1, !.submitting = FALSE,
             !.raced = st.polls # {}]

Submitted(st) ==
  LET id == Len(st.graded) + 1
  IN [st EXCEPT !.graded = Append(@, "pending"), !.active = id,
                !.shown = [id |-> id, status |-> "pending"], !.submitting = FALSE,
                !.raced = st.polls # {}]

SubmitLands == s.submitting /\ Set(Submitted(s))

(***************************************************************************)
(* The workspace.                                                          *)
(***************************************************************************)
WorkspaceFields ==
  [screen |-> "practice", acts |-> 0, exercise |-> "loading", code |-> Nothing, tab |-> "output",
   running |-> FALSE, ran |-> Nothing, runResult |-> Nothing, runError |-> FALSE,
   reviewing |-> FALSE, asked |-> Nothing, review |-> Nothing, reviewError |-> FALSE,
   badge |-> FALSE, resetConfirm |-> FALSE, resetTimers |-> 0]

PracticeInit(sc) == sc = WithSubmissions(WorkspaceFields)

AtWork == s.exercise # "error" /\ Acts
WorkClick == [s EXCEPT !.acts = @ + 1]

\* The first answer fills the editor with the starter code.
ExerciseLoads ==
  s.exercise = "loading" /\ Set([s EXCEPT !.exercise = "here", !.code = Starter])
ExerciseErrs == s.exercise = "loading" /\ Set([s EXCEPT !.exercise = "error"])

EditCode == AtWork /\ Set([WorkClick EXCEPT !.code = s.acts + 2])

handleRun ==
  /\ AtWork /\ ~s.running
  /\ Set([WorkClick EXCEPT !.running = TRUE, !.runError = FALSE, !.tab = "output", !.ran = s.code])
RunLands == s.running /\ Set([s EXCEPT !.running = FALSE, !.runResult = s.ran])
RunFails == s.running /\ Set([s EXCEPT !.running = FALSE, !.runError = TRUE])

handleGetReview ==
  /\ AtWork /\ ~s.reviewing
  /\ Set([WorkClick EXCEPT !.reviewing = TRUE, !.asked = s.code, !.tab = "review",
                           !.badge = FALSE, !.reviewError = FALSE])
ReviewLands ==
  s.reviewing /\ Set([s EXCEPT !.reviewing = FALSE, !.review = s.asked, !.reviewError = FALSE,
                               !.badge = @ \/ s.tab # "review"])
ReviewFails == s.reviewing /\ Set([s EXCEPT !.reviewing = FALSE, !.reviewError = TRUE])

handleSubmitWork ==
  /\ AtWork /\ ~s.submitting /\ Len(s.graded) < MaxSubmissions
  /\ Set([WorkClick EXCEPT !.submitting = TRUE, !.tab = "tests", !.shown = NoSubmission])

\* The message goes to the output tab.
SubmitErrs == s.submitting /\ Set([s EXCEPT !.submitting = FALSE, !.runError = TRUE])

\* The first click asks, a second one within its four seconds resets.
handleReset ==
  /\ AtWork
  /\ IF s.resetConfirm
     THEN Set([WorkClick EXCEPT !.code = Starter, !.resetConfirm = FALSE])
     ELSE Set([WorkClick EXCEPT !.resetConfirm = TRUE, !.resetTimers = @ + 1])
ResetTimer ==
  s.resetTimers > 0 /\ Set([s EXCEPT !.resetConfirm = FALSE, !.resetTimers = @ - 1])

OutputPanel(tab) ==
  AtWork /\ tab # s.tab /\ Set([WorkClick EXCEPT !.tab = tab, !.badge = @ /\ tab # "review"])

PracticeClicks ==
  \/ EditCode \/ handleRun \/ handleGetReview \/ handleSubmitWork \/ handleReset
  \/ \E tab \in {"output", "review", "tests", "history"} : OutputPanel(tab)
PracticeAnswers ==
  \/ ExerciseLoads \/ ExerciseErrs \/ RunLands \/ RunFails \/ ReviewLands \/ ReviewFails
  \/ SubmitLands \/ SubmitErrs \/ ResetTimer \/ \E id \in DOMAIN s.graded : Grade(id)
PracticePolls == PollTicks \/ \E p \in s.polls : PollLands(p) \/ PollFails(p)

PracticeNext == On("practice") /\ (PracticeClicks \/ PracticeAnswers \/ PracticePolls)
\* Nothing is promised of the polls: a tick may find the server down for ever.
PracticeFairness == WF_s(On("practice") /\ PracticeAnswers)
PracticeBusy == s.running \/ s.reviewing \/ s.submitting \/ s.exercise = "loading"

(***************************************************************************)
(* The exercise page.                                                      *)
(***************************************************************************)
ExerciseFields ==
  [screen |-> "exercise", acts |-> 0, code |-> Starter, explain |-> FALSE, error |-> FALSE,
   history |-> {}, historyDue |-> FALSE, solution |-> "hidden", refused |-> FALSE]

ExerciseInit(sc) == sc = WithSubmissions(ExerciseFields)

SubmitForm == ~s.submitting /\ ~s.explain
handleSubmit(code) ==
  /\ Acts /\ SubmitForm
  /\ IF code = Nothing
     THEN Set([WorkClick EXCEPT !.code = code, !.error = TRUE])
     ELSE Set([WorkClick EXCEPT !.code = code, !.error = FALSE, !.shown = NoSubmission,
                                !.explain = TRUE])
CancelExplain == Acts /\ s.explain /\ ~s.submitting /\ Set([WorkClick EXCEPT !.explain = FALSE])

performSubmit ==
  /\ Acts /\ s.explain /\ ~s.submitting /\ Len(s.graded) < MaxSubmissions
  /\ Set([WorkClick EXCEPT !.submitting = TRUE])

Explained == s.submitting /\ Set([Submitted(s) EXCEPT !.explain = FALSE, !.historyDue = TRUE])
ExplainedFails ==
  s.submitting /\ Set([s EXCEPT !.submitting = FALSE, !.explain = FALSE, !.error = TRUE])

\* A verdict also asks for the history again.
ExercisePollLands(p) ==
  /\ p \in s.polls
  /\ \E status \in {p.status, s.graded[p.id]} :
       Set([s EXCEPT !.polls = @ \ {p}, !.shown = [id |-> p.id, status |-> status],
                     !.historyDue = @ \/ status # "pending"])

HistoryLands ==
  /\ s.historyDue
  /\ Set([s EXCEPT !.historyDue = FALSE,
                   !.history = {[id |-> i, status |-> s.graded[i]] : i \in DOMAIN s.graded}])
HistoryFails == s.historyDue /\ Set([s EXCEPT !.historyDue = FALSE])

Unlocks(history) ==
  \/ \E h \in history : h.status = "passed"
  \/ Cardinality({h \in history : h.status = "failed"}) >= 3
solutionUnlocked == Unlocks(s.history)

handleRevealSolution ==
  Acts /\ solutionUnlocked /\ s.solution = "hidden" /\ Set([WorkClick EXCEPT !.solution = "asked"])
HideSolution == Acts /\ s.solution = "shown" /\ Set([WorkClick EXCEPT !.solution = "hidden"])

\* The backend decides over the submissions it has.
SolutionLands ==
  /\ s.solution = "asked"
  /\ LET allowed == Unlocks({[id |-> i, status |-> s.graded[i]] : i \in DOMAIN s.graded})
     IN Set([s EXCEPT !.solution = IF allowed THEN "shown" ELSE "hidden", !.refused = ~allowed])
SolutionFails == s.solution = "asked" /\ Set([s EXCEPT !.solution = "hidden"])

ExerciseClicks ==
  \/ \E code \in {Nothing, Starter} : handleSubmit(code)
  \/ CancelExplain \/ performSubmit \/ handleRevealSolution \/ HideSolution
ExerciseAnswers ==
  \/ Explained \/ ExplainedFails \/ HistoryLands \/ HistoryFails \/ SolutionLands \/ SolutionFails
  \/ \E id \in DOMAIN s.graded : Grade(id)
ExercisePolls == PollTicks \/ \E p \in s.polls : ExercisePollLands(p) \/ PollFails(p)

ExerciseNext == On("exercise") /\ (ExerciseClicks \/ ExerciseAnswers \/ ExercisePolls)
ExerciseFairness == WF_s(On("exercise") /\ ExerciseAnswers)
ExerciseBusy == s.submitting \/ s.historyDue \/ s.solution = "asked"

(***************************************************************************)
(* Properties.                                                             *)
(***************************************************************************)
OnSubmissions == On("practice") \/ On("exercise")
VerdictShown == s.shown.status \in {"passed", "failed"}

\* The verdict on screen is the one the server gave the submission the page holds as the
\* active one, except where a poll of an earlier submission was still out when this one
\* was accepted: the page does not tell the two apart, and what PollsUntilGraded says
\* is then false. The output and the review on screen are those of the code they were
\* asked for.
VerdictsBelong ==
  /\ OnSubmissions /\ VerdictShown /\ ~s.raced =>
       s.shown.id = s.active /\ s.shown.status = s.graded[s.active]
  /\ On("practice") =>
       /\ ~s.running /\ ~s.runError => s.runResult = s.ran
       /\ ~s.reviewing /\ ~s.reviewError => s.review = s.asked

\* practice/[problemId]/page.tsx, "Poll the active submission until graded.": the page
\* that has stopped to poll has a verdict of its active submission. A poll of the
\* submission before it, sent before and answered after, stops it as well.
PollsUntilGraded ==
  OnSubmissions /\ s.active # 0 /\ ~Polling => s.graded[s.active] # "pending"

\* exercises/[id]/page.tsx, "so we don't show a button that always 403s": a history
\* that lags behind the server never offers a solution the server refuses.
SolutionNeverRefused == On("exercise") => ~s.refused
=============================================================================
