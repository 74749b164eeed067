------------------------------- MODULE Career -------------------------------
(***************************************************************************)
(* The career pages: the demo JD match view and the application kit of the *)
(* readiness workspace, JD fit analysis with its library, the interview    *)
(* bank's mock interview and its story bank.                               *)
(***************************************************************************)
EXTENDS Screen

Tap == [s EXCEPT !.acts = @ + 1]

(***************************************************************************)
(* JdMatchViewLegacy.  A text is known by the edit or the preset that left *)
(* it; a score by the text it is of and by who computed it.                *)
(***************************************************************************)
JdMatchInit(sc) ==
  sc = [screen |-> "jdMatch", acts |-> 0, jdText |-> 0, score |-> [of |-> 0, by |-> "demo"],
        timers |-> <<>>, asked |-> 0, recomputing |-> FALSE]

EditJdText == Acts /\ Set([Tap EXCEPT !.jdText = s.acts + 1])

\* A timer shows the local score; the backend scores the text of the last render.
\* A later mutate takes the callback of an earlier one.
rescore(target, text) ==
  Set([Tap EXCEPT !.timers = Append(@, target), !.recomputing = TRUE, !.jdText = text,
                  !.asked = s.jdText + 1])
Rescore == Acts /\ rescore(s.jdText, s.jdText)
onChip == Acts /\ rescore(s.acts + 1, s.acts + 1)
RescoreTimer ==
  /\ s.timers # <<>>
  /\ Set([s EXCEPT !.timers = Tail(@), !.recomputing = FALSE,
                   !.score = [of |-> Head(s.timers), by |-> "demo"]])
FitScoreLands ==
  s.asked # 0 /\ Set([s EXCEPT !.asked = 0, !.score = [of |-> s.asked - 1, by |-> "backend"]])
FitScoreFails == s.asked # 0 /\ Set([s EXCEPT !.asked = 0])

JdMatchNext ==
  On("jdMatch") /\ (EditJdText \/ Rescore \/ onChip \/ RescoreTimer \/ FitScoreLands \/ FitScoreFails)
JdMatchFairness == WF_s(On("jdMatch") /\ (RescoreTimer \/ FitScoreLands \/ FitScoreFails))
JdMatchBusy == s.timers # <<>> \/ s.asked # 0

(***************************************************************************)
(* DecoderCard, the live JD match view.  A text is the number of the edit  *)
(* that left it, and long enough to decode or not.                         *)
(***************************************************************************)
NoDecode == [of |-> 0, score |-> "none"]
DecoderInit(sc) ==
  sc = [screen |-> "decoder", acts |-> 0, jdText |-> 0, long |-> FALSE, tooShort |-> FALSE,
        decoding |-> 0, failed |-> FALSE, result |-> NoDecode]

\* The text can be edited while it is decoded.
EditDecoderText(long) == Acts /\ Set([Tap EXCEPT !.jdText = s.acts + 1, !.long = long])
\* A refused text leaves the result on show; a decode takes it away.
DecoderSubmit ==
  /\ Acts /\ s.jdText # 0 /\ s.decoding = 0
  /\ Set(IF ~s.long THEN [Tap EXCEPT !.tooShort = TRUE, !.failed = FALSE]
         ELSE [Tap EXCEPT !.tooShort = FALSE, !.failed = FALSE, !.decoding = s.jdText, !.result = NoDecode])
\* A student with little activity gets no number.
DecoderLands(score) ==
  s.decoding # 0 /\ Set([s EXCEPT !.decoding = 0, !.result = [of |-> s.decoding, score |-> score]])
DecoderFails == s.decoding # 0 /\ Set([s EXCEPT !.decoding = 0, !.failed = TRUE])

DecoderClicks == (\E long \in BOOLEAN : EditDecoderText(long)) \/ DecoderSubmit
DecoderAnswers == (\E score \in {"number", "thin data"} : DecoderLands(score)) \/ DecoderFails
DecoderNext == On("decoder") /\ (DecoderClicks \/ DecoderAnswers)
DecoderFairness == WF_s(On("decoder") /\ DecoderAnswers)
DecoderBusy == s.decoding # 0

(***************************************************************************)
(* ReadinessScreen, whose views all stay mounted, and its KitView: the     *)
(* export counts up to a hundred by threes, its view on show or not.       *)
(***************************************************************************)
NAV_ITEMS == {"overview", "resume", "jd", "interview", "proof", "kit"}
KitInit(sc) ==
  sc = [screen |-> "kit", acts |-> 0, activeView |-> "overview", overlay |-> FALSE, pct |-> 0, done |-> FALSE, interval |-> FALSE]

\* The overlay covers the view and the navigation.
open(view) ==
  Acts /\ ~s.overlay /\ view # s.activeView /\ Set([Tap EXCEPT !.activeView = view])
startExport ==
  /\ Acts /\ s.activeView = "kit" /\ ~s.overlay
  /\ Set([Tap EXCEPT !.overlay = TRUE, !.pct = 0, !.done = FALSE, !.interval = TRUE])
ExportTick ==
  /\ s.interval
  /\ LET next == IF s.pct + 3 > 100 THEN 100 ELSE s.pct + 3
     IN Set([s EXCEPT !.pct = next, !.interval = next < 100, !.done = @ \/ next = 100])
ExportOverlay == [shown |-> s.overlay, closes |-> s.done]
closeOverlay == Acts /\ ExportOverlay.shown /\ ExportOverlay.closes /\ Set([Tap EXCEPT !.overlay = FALSE])

KitNext ==
  On("kit") /\ (startExport \/ ExportTick \/ closeOverlay \/ \E view \in NAV_ITEMS : open(view))
KitFairness == WF_s(On("kit") /\ ExportTick)
KitBusy == s.overlay /\ ~s.done

(***************************************************************************)
(* JdFitPage.  Loading an item of the library resets the mutations, which  *)
(* drops the answer of a pending one.                                      *)
(***************************************************************************)
NoFit == [pending |-> FALSE, of |-> 0, data |-> FALSE, actions |-> FALSE, error |-> FALSE]

JdFitInit(sc) ==
  sc = [screen |-> "jdFit", acts |-> 0, jdText |-> FALSE, item |-> 0, fit |-> NoFit, plan |-> NoFit,
        saving |-> "no", saved |-> FALSE, deleting |-> "no", library |-> 1, listed |-> 0,
        known |-> FALSE, read |-> "sent", seen |-> 0, msg |-> FALSE, msgTimers |-> 0]

EditFitText == Acts /\ Set([Tap EXCEPT !.jdText = ~@])
analyze ==
  Acts /\ s.jdText /\ ~s.fit.pending /\ Set([Tap EXCEPT !.fit = [NoFit EXCEPT !.pending = TRUE, !.of = s.item]])
\* The answer may hold no verdict, or one without actions.
FitLands(actions) ==
  s.fit.pending /\ Set([s EXCEPT !.fit.pending = FALSE, !.fit.data = TRUE, !.fit.actions = actions])
FitFails == s.fit.pending /\ Set([s EXCEPT !.fit.pending = FALSE, !.fit.error = TRUE])
LearningPlan ==
  Acts /\ s.jdText /\ ~s.plan.pending /\ Set([Tap EXCEPT !.plan = [NoFit EXCEPT !.pending = TRUE, !.of = s.item]])
PlanLands == s.plan.pending /\ Set([s EXCEPT !.plan.pending = FALSE, !.plan.data = TRUE])
PlanFails == s.plan.pending /\ Set([s EXCEPT !.plan.pending = FALSE, !.plan.error = TRUE])

handleSave ==
  Acts /\ s.fit.data /\ s.saving = "no" /\ s.jdText /\ Set([Tap EXCEPT !.saving = "sent", !.saved = FALSE])
SaveServed == s.saving = "sent" /\ Set([s EXCEPT !.saving = "served", !.library = @ + 1])
SaveLands ==
  s.saving = "served" /\ Set([s EXCEPT !.saving = "no", !.saved = TRUE, !.read = Refetch(@, s.known)])
SaveFails == s.saving # "no" /\ Set([s EXCEPT !.saving = "no"])

\* The list does not hold the text: the student is to paste it again.
\* Mutant: the analysis of the item before stays on screen.
LoadKeepsFit ==
  /\ Acts /\ s.listed > 0
  /\ Set([Tap EXCEPT !.jdText = FALSE, !.item = s.acts + 1])

handleLoad ==
  /\ Acts /\ s.listed > 0
  /\ Set([Tap EXCEPT !.jdText = FALSE, !.item = s.acts + 1, !.fit = NoFit, !.plan = NoFit])
DeleteJd == Acts /\ s.listed > 0 /\ s.deleting = "no" /\ Set([Tap EXCEPT !.deleting = "sent"])
\* An item that is gone already is refused.
DeleteServed ==
  s.deleting = "sent" /\ s.library > 0 /\ Set([s EXCEPT !.deleting = "served", !.library = @ - 1])
DeleteLands ==
  s.deleting = "served" /\ Set([s EXCEPT !.deleting = "no", !.read = Refetch(@, s.known)])
DeleteFails == s.deleting # "no" /\ Set([s EXCEPT !.deleting = "no"])
LibraryServed == s.read = "sent" /\ Set([s EXCEPT !.read = "served", !.seen = s.library])
LibraryLands == s.read = "served" /\ Set([s EXCEPT !.read = "no", !.listed = s.seen, !.known = TRUE])
LibraryFails == s.read # "no" /\ Set([s EXCEPT !.read = "no"])

\* The message of a second click goes with the timer of the first.
TopActions == s.fit.data /\ s.fit.actions
handleAddToStudyPlan == Acts /\ TopActions /\ Set([Tap EXCEPT !.msg = TRUE, !.msgTimers = @ + 1])
StudyPlanTimer == s.msgTimers > 0 /\ Set([s EXCEPT !.msg = FALSE, !.msgTimers = @ - 1])

JdFitClicks ==
  EditFitText \/ analyze \/ LearningPlan \/ handleSave \/ handleLoad \/ DeleteJd \/ handleAddToStudyPlan
JdFitAnswers ==
  \/ (\E actions \in BOOLEAN : FitLands(actions)) \/ FitFails \/ PlanLands \/ PlanFails
  \/ SaveServed \/ SaveLands \/ SaveFails \/ DeleteServed \/ DeleteLands \/ DeleteFails
  \/ LibraryServed \/ LibraryLands \/ LibraryFails \/ StudyPlanTimer

JdFitNext == On("jdFit") /\ (JdFitClicks \/ JdFitAnswers)
JdFitFairness == WF_s(On("jdFit") /\ JdFitAnswers)
JdFitBusy == s.fit.pending \/ s.plan.pending \/ {s.saving, s.deleting, s.read} # {"no"}

(***************************************************************************)
(* ResumePage: the stored resume, its regenerations, and the Copy buttons. *)
(* A version of the resume is a number, zero when there is none yet.       *)
(***************************************************************************)
ResumeInit(sc) ==
  sc = [screen |-> "resume", acts |-> 0, stored |-> 0, shown |-> 0, loaded |-> FALSE, reading |-> TRUE,
        regenerating |-> FALSE, copied |-> FALSE, copyTimers |-> 0]

ResumeReads == s.reading /\ Set([s EXCEPT !.reading = FALSE, !.shown = s.stored, !.loaded = TRUE])
ResumeReadFails == s.reading /\ Set([s EXCEPT !.reading = FALSE, !.loaded = TRUE])
\* "Regenerate" and "Force Refresh" are disabled together.
ResumeActions == s.loaded /\ ~s.regenerating
handleRegenerate == Acts /\ ResumeActions /\ Set([Tap EXCEPT !.regenerating = TRUE])
Regenerated ==
  s.regenerating /\ Set([s EXCEPT !.regenerating = FALSE, !.stored = @ + 1, !.reading = TRUE])
RegenerateFails == s.regenerating /\ Set([s EXCEPT !.regenerating = FALSE])
ResumeSections == s.loaded /\ s.shown > 0
CopyButton == Acts /\ ResumeSections /\ Set([Tap EXCEPT !.copied = TRUE, !.copyTimers = @ + 1])
SuggestionTimer == s.copyTimers > 0 /\ Set([s EXCEPT !.copied = FALSE, !.copyTimers = @ - 1])

ResumeAnswers ==
  ResumeReads \/ ResumeReadFails \/ Regenerated \/ RegenerateFails \/ SuggestionTimer
ResumeNext == On("resume") /\ (handleRegenerate \/ CopyButton \/ ResumeAnswers)
ResumeFairness == WF_s(On("resume") /\ ResumeAnswers)
ResumeBusy == s.reading \/ s.regenerating \/ s.copyTimers > 0

(***************************************************************************)
(* QuestionBankTab: one reading for every text that was searched; the list *)
(* is that of the text in the field, and empty until it has landed.        *)
(***************************************************************************)
QuestionsInit(sc) ==
  sc = [screen |-> "questions", acts |-> 0, query |-> 0, asked |-> {0}, landed |-> {}, failed |-> {}]

Search(query) ==
  Acts /\ query # s.query /\ Set([Tap EXCEPT !.query = query, !.asked = @ \cup ({query} \ s.landed)])
QuestionsLand(query) ==
  query \in s.asked /\ Set([s EXCEPT !.asked = @ \ {query}, !.landed = @ \cup {query}])
QuestionsFail(query) ==
  query \in s.asked /\ Set([s EXCEPT !.asked = @ \ {query}, !.failed = @ \cup {query}])

QuestionsAnswers == \E query \in s.asked : QuestionsLand(query) \/ QuestionsFail(query)
QuestionsNext == On("questions") /\ (QuestionsAnswers \/ \E query \in 0..2 : Search(query))
QuestionsFairness == WF_s(On("questions") /\ QuestionsAnswers)
QuestionsBusy == s.asked # {}

(***************************************************************************)
(* MockInterviewTab of the interview bank.  of is the session the last     *)
(* evaluation was of; a session is crossed while the evaluation of an      *)
(* answer of an earlier one may land in it, or has landed last.            *)
(***************************************************************************)
BankTab(acts, sessions) ==
  [screen |-> "bank", acts |-> acts, phase |-> "start", mode |-> FALSE, starting |-> FALSE,
   session |-> 0, sessions |-> sessions, asked |-> 0, evaluated |-> 0, more |-> FALSE,
   answer |-> FALSE, submitting |-> 0, of |-> 0, crossed |-> FALSE, completing |-> 0, final |-> 0]
BankInit(sc) == sc = BankTab(0, 0)

\* Another tab unmounts this one: its session and what was pending are forgotten.
SwitchTab == Acts /\ s' = BankTab(s.acts + 1, s.sessions)

PickMode == Acts /\ s.phase = "start" /\ ~s.mode /\ Set([Tap EXCEPT !.mode = TRUE])
handleStartBank ==
  Acts /\ s.phase = "start" /\ s.mode /\ ~s.starting /\ Set([Tap EXCEPT !.starting = TRUE])
BankStarts ==
  /\ s.starting
  /\ Set([s EXCEPT !.starting = FALSE, !.sessions = @ + 1, !.session = s.sessions + 1, !.phase = "active",
                   !.asked = 1, !.evaluated = 0, !.more = FALSE, !.answer = FALSE, !.final = 0,
                   !.crossed = s.submitting # 0])
BankStartFails == s.starting /\ Set([s EXCEPT !.starting = FALSE])

InBank == s.session # 0 /\ s.phase \in {"active", "reviewing"}
TypeBankAnswer == Acts /\ InBank /\ s.phase = "active" /\ ~s.answer /\ Set([Tap EXCEPT !.answer = TRUE])
handleSubmitAnswer ==
  /\ Acts /\ InBank /\ s.phase = "active" /\ s.answer /\ s.submitting = 0
  /\ Set([Tap EXCEPT !.submitting = s.session])

\* Whatever is on screen by then turns into the review of this answer.
EvaluationLands(more) ==
  /\ s.submitting # 0
  /\ LET st == [s EXCEPT !.submitting = 0, !.answer = FALSE, !.phase = "reviewing"]
     IN Set(IF s.session = 0 THEN st
            ELSE [st EXCEPT !.evaluated = @ + 1, !.more = more, !.asked = IF more THEN @ + 1 ELSE @,
                            !.of = s.submitting, !.crossed = @ /\ s.submitting # s.session])
EvaluationFails == s.submitting # 0 /\ Set([s EXCEPT !.submitting = 0])

RubricPanel == InBank /\ s.phase = "reviewing" /\ s.evaluated > 0
handleNextQuestion ==
  Acts /\ RubricPanel /\ s.more /\ Set([Tap EXCEPT !.phase = "active"])
handleEndBank == Acts /\ InBank /\ s.completing = 0 /\ Set([Tap EXCEPT !.completing = s.session])
BankCompletes ==
  s.completing # 0 /\ Set([s EXCEPT !.completing = 0, !.phase = "done", !.final = s.completing])
BankCompleteFails == s.completing # 0 /\ Set([s EXCEPT !.completing = 0])
InterviewComplete == s.phase = "done" /\ s.session # 0
handleResetBank ==
  /\ Acts /\ InterviewComplete
  /\ Set([Tap EXCEPT !.phase = "start", !.session = 0, !.mode = FALSE, !.answer = FALSE,
                     !.asked = 0, !.evaluated = 0, !.more = FALSE, !.final = 0])

BankClicks ==
  \/ PickMode \/ handleStartBank \/ TypeBankAnswer \/ handleSubmitAnswer \/ handleNextQuestion
  \/ handleEndBank \/ handleResetBank \/ SwitchTab
BankAnswers ==
  \/ BankStarts \/ BankStartFails \/ \E more \in BOOLEAN : EvaluationLands(more)
  \/ EvaluationFails \/ BankCompletes \/ BankCompleteFails

BankNext == On("bank") /\ (BankClicks \/ BankAnswers)
BankFairness == WF_s(On("bank") /\ BankAnswers)
BankBusy == s.starting \/ s.submitting # 0 \/ s.completing # 0

(***************************************************************************)
(* StoryBankTab: the form of a new story, the list, and deletions.  A      *)
(* story is the number the server gives it.  owed and gone are the stories *)
(* that were created and deleted, as far as the answers told the page and  *)
(* a reading of the list has followed.                                     *)
(***************************************************************************)
StoriesInit(sc) ==
  sc = [screen |-> "stories", acts |-> 0, showForm |-> FALSE, form |-> FALSE, creating |-> "no",
        deleting |-> 0, deletion |-> "no", expanded |-> 0, made |-> 0, stored |-> {}, listed |-> {},
        known |-> FALSE, read |-> "sent", seen |-> {}, failed |-> FALSE, owed |-> {}, gone |-> {}]

StoriesServed == s.read = "sent" /\ Set([s EXCEPT !.read = "served", !.seen = s.stored])
StoriesLand ==
  s.read = "served" /\ Set([s EXCEPT !.read = "no", !.listed = s.seen, !.known = TRUE, !.failed = FALSE])
StoriesReadFails == s.read # "no" /\ Set([s EXCEPT !.read = "no", !.failed = TRUE])

\* The reading that follows a change; there is none while the very first is under way.
Rereads == s.read = "no" \/ s.known

ToggleForm == Acts /\ Set([Tap EXCEPT !.showForm = ~@])
StoryForm == [shown |-> s.showForm, valid |-> s.form, saving |-> s.creating # "no"]
setField == Acts /\ StoryForm.shown /\ Set([Tap EXCEPT !.form = TRUE])
handleSubmitStory ==
  /\ Acts /\ StoryForm.shown /\ StoryForm.valid /\ ~StoryForm.saving
  /\ Set([Tap EXCEPT !.creating = "sent"])
StoryServed ==
  s.creating = "sent" /\ Set([s EXCEPT !.creating = "served", !.made = @ + 1, !.stored = @ \cup {s.made + 1}])
\* The form is emptied, and with it what was typed since the story was sent.
StoryLands ==
  /\ s.creating = "served"
  /\ Set([s EXCEPT !.creating = "no", !.form = FALSE, !.showForm = FALSE, !.read = Refetch(@, s.known),
                   !.owed = @ \cup {story \in s.stored : story = s.made /\ Rereads}])
StoryFails == s.creating # "no" /\ Set([s EXCEPT !.creating = "no"])

DeleteStory(story) ==
  /\ Acts /\ story \in s.listed /\ s.deletion = "no"
  /\ Set([Tap EXCEPT !.deleting = story, !.deletion = "sent"])
ExpandStory(story) ==
  Acts /\ story \in s.listed /\ Set([Tap EXCEPT !.expanded = IF @ = story THEN 0 ELSE story])
\* A story that is gone already is refused.
StoryDeleted ==
  /\ s.deletion = "sent" /\ s.deleting \in s.stored
  /\ Set([s EXCEPT !.deletion = "served", !.stored = @ \ {s.deleting}, !.owed = @ \ {s.deleting}])
DeletedStory ==
  /\ s.deletion = "served"
  /\ Set([s EXCEPT !.deletion = "no", !.read = Refetch(@, s.known),
                   !.gone = @ \cup {story \in {s.deleting} : Rereads}])
DeleteStoryFails == s.deletion # "no" /\ Set([s EXCEPT !.deletion = "no"])

StoriesClicks ==
  ToggleForm \/ setField \/ handleSubmitStory \/ \E story \in s.listed : DeleteStory(story) \/ ExpandStory(story)
StoriesAnswers ==
  \/ StoriesServed \/ StoriesLand \/ StoriesReadFails \/ StoryServed \/ StoryLands \/ StoryFails
  \/ StoryDeleted \/ DeletedStory \/ DeleteStoryFails

StoriesNext == On("stories") /\ (StoriesClicks \/ StoriesAnswers)
StoriesFairness == WF_s(On("stories") /\ StoriesAnswers)
StoriesBusy == {s.creating, s.deletion, s.read} # {"no"}

(***************************************************************************)
(* Properties.                                                             *)
(***************************************************************************)
\* What the fit page shows was asked for since the last item was loaded: the late
\* answer of an analysis or of a plan never appears under another item's title.
FitIsOfTheItem ==
  On("jdFit") => \A m \in {s.fit, s.plan} : m.data => m.of = s.item

\* interview-bank/page.tsx: the evaluation on show is of an answer of the session on show,
\* except in a session that started while an answer of an earlier one was out: that one
\* lands in whatever session is there, and stays until an answer of its own is evaluated.
EvaluationsOfTheSession ==
  On("bank") /\ s.session # 0 /\ s.evaluated > 0 /\ ~s.crossed => s.of = s.session

\* However saves, deletions and readings of the list overlap, once the last reading has
\* come back the list holds the stories the student was told are saved and none she was
\* told is deleted. What is saved while the very first reading is under way is only
\* promised with the next one, and a reading that failed promises nothing.
StoriesAreListed ==
  On("stories") /\ s.read = "no" /\ ~s.failed =>
    s.owed \subseteq s.listed /\ s.gone \cap s.listed = {}
=============================================================================
