-------------------------------- MODULE Studio --------------------------------
(***************************************************************************)
(* The code studio: the shared code of StudioProvider next to the code the *)
(* editor shows, the two autosaves, runs and their history, the diff view, *)
(* the warm-up and challenge drawers; what runs, saves and reviews set off *)
(* beside them (badges, toasts, the review rail); the capstone screen.     *)
(***************************************************************************)
EXTENDS Screen

CONSTANTS
  MaxHistory,        \* MAX_HISTORY: the snapshots the run history keeps
  RunsForBadge       \* the runs the second badge of the ladder takes

(***************************************************************************)
(* Code.  A text is a number: the ones below, 10 + n for the n-th edit, and *)
(* 100 + c for the text c as ruff formats it.                              *)
(***************************************************************************)
NoCode == 0
DEFAULT_CODE == 1
Linked == 2
OldDraft == 3
OldSaved == 4
Warmup == 5
ChallengeCode == 6

Difficulties == {"warmup", "intermediate", "interview"}
\* One challenge of each difficulty stands for the ladder's five.
CHALLENGES == [difficulty : Difficulties]
visibleChallenges(tab) == {c \in CHALLENGES : c.difficulty = tab}

EditorShown(st) == ~st.showDiff

\* The mount effect of the editor: what it kept, or the template, for both codes.
EditorMounts(st) ==
  LET shown == IF st.saved # NoCode THEN st.saved ELSE DEFAULT_CODE
  IN [st EXCEPT !.editor = shown, !.code = shown, !.draftDue = shown, !.saveDue = NoCode]
\* It leaves with the save that was due.
EditorUnmounts(st) == [st EXCEPT !.saveDue = NoCode, !.formatting = NoCode]

StudioFields(linked, draft, saved) ==
  [screen |-> "studio", acts |-> 0, linked |-> linked, code |-> IF linked THEN Linked ELSE NoCode,
   editor |-> NoCode, draft |-> draft, saved |-> saved, draftDue |-> NoCode, saveDue |-> NoCode,
   showDiff |-> FALSE, previous |-> NoCode, running |-> NoCode, hasRunOnce |-> FALSE,
   result |-> NoCode, runError |-> FALSE, history |-> <<>>, formatting |-> NoCode,
   dismissed |-> FALSE, drawer |-> FALSE, tab |-> "warmup", done |-> {}]

\* The editor's effect runs before the provider's, which restores the draft.
StudioInit(sc) ==
  \E linked \in BOOLEAN, draft \in {NoCode, OldDraft}, saved \in {NoCode, OldSaved} :
    LET st == EditorMounts(StudioFields(linked, draft, saved))
    IN sc = IF ~linked /\ draft # NoCode THEN [st EXCEPT !.code = draft] ELSE st

Push == [s EXCEPT !.acts = @ + 1]
setCode(st, code) == [st EXCEPT !.code = code, !.draftDue = code]

handleChange ==
  /\ Acts /\ EditorShown(s)
  /\ Set([setCode(Push, 10 + s.acts) EXCEPT !.editor = 10 + s.acts, !.saveDue = 10 + s.acts])

SaveTimer == s.saveDue # NoCode /\ Set([s EXCEPT !.saved = s.saveDue, !.saveDue = NoCode])
DraftTimer == s.draftDue # NoCode /\ Set([s EXCEPT !.draft = s.draftDue, !.draftDue = NoCode])

\* Ctrl+S.  What is typed while ruff works is overwritten by its answer.
formatCode == Acts /\ EditorShown(s) /\ s.formatting = NoCode /\ Set([Push EXCEPT !.formatting = s.editor])
FormatLands ==
  /\ s.formatting # NoCode
  /\ LET neat == IF s.formatting < 100 THEN 100 + s.formatting ELSE s.formatting
     IN Set(IF neat = s.formatting THEN [s EXCEPT !.formatting = NoCode]
            ELSE [setCode(s, neat) EXCEPT !.formatting = NoCode, !.editor = neat, !.saved = neat,
                                          !.saveDue = neat])
FormatFails == s.formatting # NoCode /\ Set([s EXCEPT !.formatting = NoCode])

\* These set the shared code alone; the editor goes on showing its own.
handleInsert == Acts /\ EditorShown(s) /\ Set(setCode(Push, 10 + s.acts))
handleLoadWarmup ==
  Acts /\ s.code \in {NoCode, DEFAULT_CODE} /\ ~s.hasRunOnce /\ ~s.dismissed /\ Set(setCode(Push, Warmup))
handleSkip ==
  /\ Acts /\ s.code \in {NoCode, DEFAULT_CODE} /\ ~s.hasRunOnce /\ ~s.dismissed
  /\ Set([Push EXCEPT !.dismissed = TRUE])
restoreSnapshot(i) ==
  Acts /\ i \in DOMAIN s.history /\ Set(setCode(Push, s.history[i].code))
ToggleDrawer == Acts /\ Set([Push EXCEPT !.drawer = ~@, !.tab = "warmup"])
PickTab(tab) == Acts /\ s.drawer /\ tab # s.tab /\ Set([Push EXCEPT !.tab = tab])
handleSelect(c) ==
  /\ Acts /\ s.drawer /\ c \in visibleChallenges(s.tab)
  /\ Set([setCode(Push, ChallengeCode) EXCEPT !.done = @ \cup {c}, !.drawer = FALSE])

ToggleDiff ==
  /\ Acts /\ s.previous # NoCode
  /\ Set(IF s.showDiff THEN EditorMounts([Push EXCEPT !.showDiff = FALSE])
         ELSE EditorUnmounts([Push EXCEPT !.showDiff = TRUE]))
\* Collapsing the bottom row moves the editor in the tree: it is mounted anew.
toggleBottom ==
  Acts /\ EditorShown(s) /\ Set(EditorMounts(EditorUnmounts(Push)))

\* A run takes the shared code, and leaves the diff for the editor.
run ==
  /\ Acts /\ s.running = NoCode /\ s.code # NoCode
  /\ LET st == [Push EXCEPT !.previous = s.code, !.running = s.code, !.runError = FALSE, !.showDiff = FALSE]
     IN Set(IF s.showDiff THEN EditorMounts(st) ELSE st)
\* The snapshot pairs the output with the code of now.
RunLands1 ==
  /\ s.running # NoCode
  /\ LET all == <<[code |-> s.code, of |-> s.running]>> \o s.history
     IN Set([s EXCEPT !.running = NoCode, !.hasRunOnce = TRUE, !.result = s.running,
                      !.history = IF Len(all) > MaxHistory THEN SubSeq(all, 1, MaxHistory) ELSE all])
RunFails1 ==
  /\ s.running # NoCode
  /\ Set([s EXCEPT !.running = NoCode, !.hasRunOnce = TRUE, !.result = NoCode, !.runError = TRUE])

StudioClicks ==
  \/ handleChange \/ formatCode \/ handleInsert \/ handleLoadWarmup \/ handleSkip
  \/ \E i \in DOMAIN s.history : restoreSnapshot(i)
  \/ ToggleDrawer \/ \E tab \in Difficulties : PickTab(tab)
  \/ \E c \in CHALLENGES : handleSelect(c)
  \/ ToggleDiff \/ toggleBottom \/ run
StudioAnswers ==
  SaveTimer \/ DraftTimer \/ FormatLands \/ FormatFails \/ RunLands1 \/ RunFails1

StudioNext == On("studio") /\ (StudioClicks \/ StudioAnswers)
StudioFairness == WF_s(On("studio") /\ StudioAnswers)
StudioBusy == s.running # NoCode \/ s.formatting # NoCode \/ s.saveDue # NoCode \/ s.draftDue # NoCode

(***************************************************************************)
(* What goes on beside the code: badges, the percentile toast, the review  *)
(* rail, the notebook button, and the tutor's lock.                        *)
(***************************************************************************)
BADGES == {"first-run", "runs-10", "first-review", "saved-notebook", "challenges"}
\* Nothing in the studio dispatches the event that counts challenges.
condition(badge, stats) ==
  CASE badge = "first-run" -> stats.runs >= 1
    [] badge = "runs-10" -> stats.runs >= RunsForBadge
    [] badge = "first-review" -> stats.reviewCount >= 1
    [] badge = "saved-notebook" -> stats.notebookSaves >= 1
    [] badge = "challenges" -> stats.challengesDone >= 1

checkBadges(st) ==
  LET due == {b \in BADGES \ st.earned : condition(b, st.stats)}
  IN [st EXCEPT !.earned = @ \cup due, !.toasts = @ \cup due,
                !.announced = [b \in BADGES |-> IF b \in due THEN @[b] + 1 ELSE @[b]]]

NoStats == [runs |-> 0, reviewCount |-> 0, notebookSaves |-> 0, challengesDone |-> 0]

RailInit(sc) ==
  \E ugly \in BOOLEAN :
    sc = [screen |-> "rail", acts |-> 0, stats |-> NoStats, earned |-> {}, toasts |-> {},
          announced |-> [b \in BADGES |-> 0], ugly |-> ugly, running |-> FALSE, runCount |-> 0,
          hasRunOnce |-> FALSE, result |-> "none", shownFor |-> 0, percentile |-> FALSE,
          tab |-> "tutor", chatting |-> FALSE, request |-> 0, asked |-> 0, review |-> 0,
          saveState |-> "idle", stuck |-> "no"]

\* The banner of ten idle minutes.  A press anywhere in the studio, its own buttons
\* included, hides it; its timer starts again with the code or the first run only.
hush(banner) == IF banner = "shown" THEN "quiet" ELSE banner
Press == [s EXCEPT !.acts = @ + 1, !.stuck = hush(@)]
StuckTimer == s.stuck = "no" /\ Set([s EXCEPT !.stuck = "shown"])
EditRailCode == Acts /\ Set([Press EXCEPT !.stuck = "no"])

\* The tutor's panel, its turns and its stream are there while its tab is.
ShowTab(st, tab) == [st EXCEPT !.tab = tab, !.chatting = @ /\ tab = "tutor"]

RailRun == Acts /\ ~s.running /\ Set([Press EXCEPT !.running = TRUE])
RunIsOver ==
  [s EXCEPT !.running = FALSE, !.hasRunOnce = TRUE, !.stuck = IF s.hasRunOnce THEN hush(@) ELSE "no"]
\* studio:run-success, for code that raised as well; the toast comes from the second
\* run of the session on.
RailRunLands(result) ==
  /\ s.running
  /\ LET n == s.runCount + 1
         st == [RunIsOver EXCEPT !.stats.runs = @ + 1, !.runCount = n, !.result = result]
     IN Set(checkBadges(IF n > 1 /\ st.shownFor < n
                        THEN [st EXCEPT !.shownFor = n, !.percentile = TRUE] ELSE st))
RailRunFails == s.running /\ Set([RunIsOver EXCEPT !.result = "none"])
PercentileTimer == s.percentile /\ Set([s EXCEPT !.percentile = FALSE])

\* A request does not wait for the one before: reset and mutate drop its answer, and
\* the tab that follows "pending" stays where it is when it was pending already.
handleRequestReview ==
  /\ Acts
  /\ LET st == [Press EXCEPT !.request = @ + 1, !.asked = s.request + 1, !.review = 0]
     IN Set(IF s.asked = 0 THEN ShowTab(st, "review") ELSE st)
\* The panel of the review spins, or shows the error or the review there is.
InlineReviewContent == s.tab = "review" /\ s.asked = 0 /\ s.review # 0
SeniorReviewLands ==
  /\ s.asked # 0
  /\ Set(checkBadges([ShowTab(s, "review") EXCEPT !.asked = 0, !.review = s.asked,
                                                  !.stats.reviewCount = @ + 1]))
SeniorReviewFails == s.asked # 0 /\ Set([s EXCEPT !.asked = 0])
RightRailTabs(tab) == Acts /\ tab # s.tab /\ Set(ShowTab(Press, tab))

\* Only a run without an error offers the notebook.
SaveToNotebookButton == s.hasRunOnce /\ s.result = "ok"
handleSaveNotebook ==
  /\ Acts /\ SaveToNotebookButton /\ s.saveState \in {"idle", "error"}
  /\ Set([Press EXCEPT !.saveState = "saving"])
NotebookSaved ==
  s.saveState = "saving" /\ Set(checkBadges([s EXCEPT !.saveState = "saved", !.stats.notebookSaves = @ + 1]))
NotebookFails == s.saveState = "saving" /\ Set([s EXCEPT !.saveState = "error"])
NotebookTimer == s.saveState \in {"saved", "error"} /\ Set([s EXCEPT !.saveState = "idle"])

\* One toast at a time, by its timer or by its button.
BadgeToast(badge) == badge \in s.toasts /\ Set([s EXCEPT !.toasts = @ \ {badge}])

\* The tutor, locked before the first run for who asked for ugly drafts first.
UglyDraftLockout == s.ugly /\ ~s.hasRunOnce
handleTutorSend ==
  Acts /\ s.tab = "tutor" /\ ~UglyDraftLockout /\ ~s.chatting /\ Set([Press EXCEPT !.chatting = TRUE])
TutorEnds == s.chatting /\ Set([s EXCEPT !.chatting = FALSE])

\* "Why did this break?" dispatches studio:ask.  The tutor's panel alone listens to
\* it, and it is not there while the trace is: nothing but the click happens.
ExecutionTrace == s.tab = "trace" /\ ~s.running /\ s.result # "none"
handleExplainError == Acts /\ ExecutionTrace /\ s.result = "error" /\ Set(Press)

RailClicks ==
  \/ EditRailCode \/ RailRun \/ handleRequestReview \/ handleSaveNotebook
  \/ handleTutorSend \/ handleExplainError
  \/ \E tab \in {"tutor", "review", "trace"} : RightRailTabs(tab)
RailAnswers ==
  \/ \E result \in {"ok", "error"} : RailRunLands(result)
  \/ RailRunFails \/ PercentileTimer \/ SeniorReviewLands \/ SeniorReviewFails
  \/ NotebookSaved \/ NotebookFails \/ NotebookTimer \/ \E badge \in s.toasts : BadgeToast(badge)
  \/ TutorEnds

RailNext == On("rail") /\ (RailClicks \/ RailAnswers \/ StuckTimer)
RailFairness == WF_s(On("rail") /\ RailAnswers)
RailBusy ==
  \/ s.running \/ s.asked # 0 \/ s.toasts # {} \/ s.saveState # "idle" \/ s.percentile \/ s.chatting

(***************************************************************************)
(* The bottom row: one panel at a time is mounted.  The prediction of the  *)
(* mental model, made before the first run; the skill tree, which counts   *)
(* the runs it is mounted for.  A text is the set of skills it uses.       *)
(***************************************************************************)
Texts == {{}, {"loops"}, {"loops", "classes"}}
BottomTabs == {"quality", "mental-model", "skills"}

NoPrediction == [draft |-> FALSE, predicted |-> FALSE, pending |-> FALSE]
PanelsInit(sc) ==
  \E code \in Texts, kept \in {{}, {"loops"}} :
    sc = [screen |-> "panels", acts |-> 0, code |-> code, running |-> FALSE, hasRunOnce |-> FALSE,
          bottomTab |-> "quality", collapsed |-> FALSE, mind |-> NoPrediction,
          stored |-> kept, practicedIds |-> {}, newlyUnlocked |-> {}]

\* The panels leave and come with the tab: predictions are lost, skills read again.
PanelMounts(st, tab) ==
  [st EXCEPT !.bottomTab = tab,
             !.mind = [NoPrediction EXCEPT !.pending = tab = "mental-model" /\ st.code # {}],
             !.practicedIds = IF tab = "skills" THEN st.stored ELSE {}, !.newlyUnlocked = {}]
Panel(tab) == s.bottomTab = tab /\ ~s.collapsed
ShowPanel(tab) == Acts /\ ~s.collapsed /\ tab # s.bottomTab /\ Set(PanelMounts(Push, tab))
Collapse ==
  Acts /\ Set(IF s.collapsed THEN PanelMounts([Push EXCEPT !.collapsed = FALSE], s.bottomTab)
              ELSE [PanelMounts(Push, "quality") EXCEPT !.bottomTab = s.bottomTab, !.collapsed = TRUE])
\* Before the first run an edit takes the prediction back.
EditText(code) ==
  /\ Acts /\ code # s.code
  /\ Set([Push EXCEPT !.code = code,
                      !.mind = IF s.hasRunOnce THEN @ ELSE [@ EXCEPT !.draft = FALSE, !.predicted = FALSE]])

phase ==
  CASE s.code = {} -> "idle" [] s.code # {} /\ s.hasRunOnce /\ s.mind.predicted -> "compare"
    [] s.code # {} /\ ~s.hasRunOnce -> "predict" [] OTHER -> "idle"
TypePrediction ==
  Acts /\ Panel("mental-model") /\ phase = "predict" /\ ~s.mind.draft /\ Set([Push EXCEPT !.mind.draft = TRUE])
handleLockAndRun ==
  /\ Acts /\ Panel("mental-model") /\ phase = "predict" /\ s.mind.draft /\ ~s.running
  /\ Set([Push EXCEPT !.mind.predicted = TRUE, !.running = TRUE])
ClearPrediction ==
  /\ Acts /\ Panel("mental-model") /\ phase = "compare"
  /\ Set([Push EXCEPT !.mind.draft = FALSE, !.mind.predicted = FALSE])
Recheck ==
  Acts /\ Panel("mental-model") /\ phase # "idle" /\ ~s.mind.pending /\ Set([Push EXCEPT !.mind.pending = TRUE])
MisconceptionsLand == s.mind.pending /\ Set([s EXCEPT !.mind.pending = FALSE])
RunPanels == Acts /\ s.code # {} /\ ~s.running /\ Set([Push EXCEPT !.running = TRUE])

\* The skills of the run are those of the text of now.
handleRunSuccess(st) ==
  IF ~Panel("skills") \/ st.code = {} THEN st
  ELSE [st EXCEPT !.stored = st.practicedIds \cup st.code, !.practicedIds = @ \cup st.code,
                  !.newlyUnlocked = IF st.code \subseteq st.practicedIds THEN @ ELSE st.code \ st.practicedIds]
PanelRunEnds == s.running /\ \E st \in {s, handleRunSuccess(s)} : Set([st EXCEPT !.running = FALSE, !.hasRunOnce = TRUE])
PulseTimer == s.newlyUnlocked # {} /\ Set([s EXCEPT !.newlyUnlocked = {}])

PanelsClicks ==
  \/ \E tab \in BottomTabs : ShowPanel(tab)
  \/ Collapse \/ \E code \in Texts : EditText(code)
  \/ TypePrediction \/ handleLockAndRun \/ ClearPrediction \/ Recheck \/ RunPanels
PanelsAnswers == MisconceptionsLand \/ PanelRunEnds \/ PulseTimer
PanelsNext == On("panels") /\ (PanelsClicks \/ PanelsAnswers)
PanelsFairness == WF_s(On("panels") /\ PanelsAnswers)
PanelsBusy == s.running \/ s.mind.pending \/ s.newlyUnlocked # {}

(***************************************************************************)
(* StudioScreen, the capstone page: three review items appear one after    *)
(* the other; a new reveal clears the timers of the last one.              *)
(***************************************************************************)
CapstoneInit(sc) ==
  \E signedIn \in BOOLEAN, tab \in {"code", "labs"} :
    sc = [screen |-> "capstone", acts |-> 0, activeTab |-> tab, signedIn |-> signedIn,
          revealed |-> 0, timers |-> {}, runs |-> 0, requesting |-> FALSE, toasts |-> 0]

revealReviewSequence(st) == [st EXCEPT !.revealed = 0, !.timers = {1, 2, 3}]
RevealTimer(i) ==
  /\ i \in s.timers /\ \A j \in s.timers : i <= j
  /\ Set([s EXCEPT !.timers = @ \ {i}, !.revealed = IF @ > i THEN @ ELSE i])
SelectTab(tab) == Acts /\ tab # s.activeTab /\ Set([Push EXCEPT !.activeTab = tab])
handleRunAndReview ==
  Acts /\ Set([revealReviewSequence(Push) EXCEPT !.runs = IF s.signedIn THEN @ + 1 ELSE @])
CapstoneRunEnds == s.runs > 0 /\ Set([s EXCEPT !.runs = @ - 1])
handleCapstoneReview ==
  /\ Acts /\ ~s.requesting
  /\ Set(IF s.signedIn THEN [Push EXCEPT !.requesting = TRUE] ELSE revealReviewSequence(Push))
CapstoneReviewEnds ==
  s.requesting /\ Set([revealReviewSequence(s) EXCEPT !.requesting = FALSE])

ReviewShown(i) == i <= s.revealed

CapstoneClicks ==
  \/ handleRunAndReview \/ handleCapstoneReview
  \/ \E tab \in {"code", "trace", "labs", "tests"} : SelectTab(tab)
CapstoneAnswers ==
  CapstoneRunEnds \/ CapstoneReviewEnds \/ \E i \in s.timers : RevealTimer(i)

CapstoneNext == On("capstone") /\ (CapstoneClicks \/ CapstoneAnswers)
CapstoneFairness == WF_s(On("capstone") /\ CapstoneAnswers)
CapstoneBusy == s.runs > 0 \/ s.requesting \/ s.timers # {}

(***************************************************************************)
(* Properties.                                                             *)
(***************************************************************************)
\* code-editor.tsx, the "Saved" label: once no save is due, what the editor keeps is
\* what it shows, through mounts, diffs, formats and edits in any order. A new mount or
\* the answer of the formatter may have taken back what was typed before.
EditorIsSaved ==
  On("studio") /\ EditorShown(s) /\ s.saveDue = NoCode =>
    s.editor = IF s.saved # NoCode THEN s.saved ELSE DEFAULT_CODE

\* docs/superpowers/plans/2026-04-18-p3b-studio.md, "Autosave = code persists": a save
\* of the editor that is due no more was written, or the other autosave has the code or
\* is about to. Moving the editor in the tree drops its save, and the editor that is
\* mounted then puts the old code in the place of the draft that was due.
TypedCodeIsSaved ==
  [][On("studio") /\ s.saveDue # NoCode /\ s'.saveDue = NoCode
       => s.saveDue \in {s'.saved, s'.draft, s'.draftDue}]_s

\* A badge is announced once, however the runs, the reviews and the saves that earn
\* it overlap; and the review on show is the answer to the last request.
BadgesOnce ==
  On("rail") => /\ \A badge \in BADGES : s.announced[badge] <= 1
                /\ s.review # 0 => s.review = s.request

\* skill-graph.tsx: the tree on show is the one that is kept, whatever panel is mounted
\* when. A run while the panel is not mounted practises no skill at all.
SkillsAreKept ==
  On("panels") /\ Panel("skills") =>
    /\ s.practicedIds = s.stored
    /\ s.newlyUnlocked \subseteq s.stored

\* The review items never appear out of order, and none comes of a sequence begun
\* before: those not shown yet are those whose timers have yet to fire.
RevealsInOrder ==
  On("capstone") => \A i \in 1..3 : i \in s.timers <=> (~ReviewShown(i) /\ s.timers # {})
=============================================================================
