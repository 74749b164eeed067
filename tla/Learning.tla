------------------------------ MODULE Learning ------------------------------
(***************************************************************************)
(* The learning screens: the catalog and a course page with their          *)
(* checkouts, today's warm-up, the goal form, the path and the promotion   *)
(* gate.                                                                   *)
(***************************************************************************)
EXTENDS Screen

CONSTANTS DueSizes,     \* how many cards may be due when today's screen mounts
          MaxAttempts   \* readings of the enrollment after a checkout

ASSUME LearningAssumption == DueSizes \subseteq Nat /\ MaxAttempts \in Nat

Touched == [s EXCEPT !.acts = @ + 1]

(***************************************************************************)
(* CatalogScreen.  Of the four paid tracks two stand for all.              *)
(***************************************************************************)
Chips == {"all", "free", "beginner", "advanced"}
CARDS == [python  |-> [cats |-> {"free", "beginner"}, opens |-> FALSE, comingSoon |-> FALSE],
          analyst |-> [cats |-> {"beginner"}, opens |-> TRUE, comingSoon |-> FALSE],
          genai   |-> [cats |-> {"advanced"}, opens |-> TRUE, comingSoon |-> FALSE],
          bundle  |-> [cats |-> {"advanced"}, opens |-> TRUE, comingSoon |-> TRUE]]
NoOverlay == [card |-> "none", comingSoon |-> FALSE]

CatalogInit(sc) ==
  \E signedIn \in BOOLEAN, published \in SUBSET {"analyst", "genai"} :
    sc = [screen |-> "catalog", acts |-> 0, signedIn |-> signedIn, published |-> published,
          courses |-> "loading", filter |-> "all", enroll |-> NoOverlay, loading |-> FALSE,
          checkouts |-> <<>>, at |-> "catalog"]

visibleCards == {c \in DOMAIN CARDS : s.filter = "all" \/ s.filter \in CARDS[c].cats}
findCourse(card) == s.courses = "loaded" /\ card \in s.published

CoursesLand == s.courses = "loading" /\ Set([s EXCEPT !.courses = "loaded"])
CoursesFail == s.courses = "loading" /\ Set([s EXCEPT !.courses = "failed"])

\* The overlay covers the chips and the cards.
FilterCards(chip) == Acts /\ s.enroll = NoOverlay /\ Set([Touched EXCEPT !.filter = chip])
CardOffered(card) == s.enroll = NoOverlay /\ card \in visibleCards /\ CARDS[card].opens
\* What the dialog says of the course is what was loaded when it opened.
openEnroll(card) ==
  /\ Acts /\ CardOffered(card)
  /\ Set([Touched EXCEPT !.enroll = [card |-> card,
                                     comingSoon |-> CARDS[card].comingSoon \/ ~findCourse(card)]])
\* Escape, the backdrop and the cross close it, a pending checkout or not.
closeEnroll == Acts /\ s.enroll # NoOverlay /\ Set([Touched EXCEPT !.enroll = NoOverlay])
ConfirmOffered == s.enroll # NoOverlay /\ ~s.loading
confirmEnroll ==
  /\ Acts /\ ConfirmOffered
  /\ CASE ~s.signedIn -> Set([Touched EXCEPT !.at = "login"])
       [] s.signedIn /\ s.enroll.comingSoon -> Set([Touched EXCEPT !.enroll = NoOverlay])
       [] OTHER -> Set([Touched EXCEPT !.loading = TRUE, !.checkouts = Append(@, s.enroll.card)])
CheckoutOpens ==
  /\ s.checkouts # <<>>
  /\ Set([s EXCEPT !.at = "stripe", !.loading = FALSE, !.checkouts = Tail(@)])
CheckoutRefused ==
  s.checkouts # <<>> /\ Set([s EXCEPT !.loading = FALSE, !.checkouts = Tail(@)])

CatalogClicks ==
  \/ \E chip \in Chips : FilterCards(chip)
  \/ \E card \in DOMAIN CARDS : openEnroll(card)
  \/ closeEnroll \/ confirmEnroll
CatalogAnswers == CoursesLand \/ CoursesFail \/ CheckoutOpens \/ CheckoutRefused
CatalogNext == On("catalog") /\ s.at = "catalog" /\ (CatalogClicks \/ CatalogAnswers)
CatalogFairness == WF_s(On("catalog") /\ s.at = "catalog" /\ CatalogAnswers)
CatalogBusy == s.at = "catalog" /\ (s.courses = "loading" \/ s.checkouts # <<>>)

(***************************************************************************)
(* CourseDetailPage.  The enrollment query runs once at a time: a refetch  *)
(* before any data joins the reading under way, later ones replace it.     *)
(***************************************************************************)
CourseInit(sc) ==
  \E paid \in BOOLEAN, status \in {"none", "success"} :
    sc = [screen |-> "course", acts |-> 0, isPaid |-> paid, status |-> status, stored |-> FALSE,
          webhook |-> paid /\ status = "success", read |-> "sent", data |-> "none",
          tick |-> IF status = "success" THEN "waits" ELSE "off",
          attempts |-> IF status = "success" THEN 1 ELSE 0,
          enrolling |-> "no", enrollError |-> FALSE, at |-> "course"]

isEnrolled == s.data = "yes"
refetch(st) == IF st.data = "none" /\ st.read # "none" THEN st ELSE [st EXCEPT !.read = "sent"]

\* The webhook of the payment, whenever Stripe delivers it.
Webhook == s.webhook /\ Set([s EXCEPT !.webhook = FALSE, !.stored = TRUE])
EnrollmentServed ==
  s.read = "sent" /\ Set([s EXCEPT !.read = IF s.stored THEN "yes" ELSE "no"])
\* The poll and the enroll handler wait for the same reading.
Awaited(st) ==
  [st EXCEPT !.read = "none",
             !.tick = IF @ # "waits" THEN @ ELSE IF st.data = "yes" THEN "off" ELSE "timer",
             !.enrolling = IF @ = "refetching" THEN "no" ELSE @]
EnrollmentLands ==
  s.read \in {"yes", "no"} /\ Set(Awaited([s EXCEPT !.data = s.read]))
EnrollmentFails == s.read # "none" /\ Set(Awaited(s))
PollTick ==
  /\ s.tick = "timer"
  /\ Set(IF s.attempts >= MaxAttempts THEN [s EXCEPT !.tick = "off"]
         ELSE refetch([s EXCEPT !.attempts = @ + 1, !.tick = "waits"]))

EnrollOffered == ~isEnrolled /\ s.enrolling = "no"
handleEnroll ==
  /\ Acts /\ EnrollOffered
  /\ Set([Touched EXCEPT !.enrollError = FALSE, !.enrolling = IF s.isPaid THEN "checkout" ELSE "enroll"])
CourseCheckoutOpens == s.enrolling = "checkout" /\ Set([s EXCEPT !.enrolling = "no", !.at = "stripe"])
EnrollLands ==
  s.enrolling = "enroll" /\ Set(refetch([s EXCEPT !.enrolling = "refetching", !.stored = TRUE]))
EnrollFails ==
  s.enrolling \in {"checkout", "enroll"} /\ Set([s EXCEPT !.enrolling = "no", !.enrollError = TRUE])

CourseAnswers ==
  \/ EnrollmentServed \/ EnrollmentLands \/ EnrollmentFails \/ PollTick
  \/ CourseCheckoutOpens \/ EnrollLands \/ EnrollFails
CourseNext == On("course") /\ s.at = "course" /\ (Webhook \/ handleEnroll \/ CourseAnswers)
CourseFairness == WF_s(On("course") /\ s.at = "course" /\ CourseAnswers)
CourseBusy == s.at = "course" /\ (s.read # "none" \/ s.tick # "off" \/ s.enrolling # "no")

(***************************************************************************)
(* TodayScreen.  The due cards are read again after every review.          *)
(***************************************************************************)
TodayInit(sc) ==
  \E n \in DueSizes :
    sc = [screen |-> "today", acts |-> 0, stored |-> [i \in 1..n |-> i], dueCards |-> <<>>,
          reading |-> TRUE, cardIndex |-> 3, revealed |-> FALSE, reviews |-> <<>>, graded |-> <<>>,
          steps |-> <<"active", "locked", "locked">>]

\* Three fallback cards, known by zero, stand in when none is due.
todaysCards == IF s.dueCards = <<>> THEN <<0, 0, 0>> ELSE s.dueCards
Shown == todaysCards[IF s.cardIndex < Len(todaysCards) THEN s.cardIndex + 1 ELSE Len(todaysCards)]

DueLands == s.reading /\ Set([s EXCEPT !.reading = FALSE, !.dueCards = s.stored])
DueFails == s.reading /\ Set([s EXCEPT !.reading = FALSE])
handleReveal == Acts /\ ~s.revealed /\ Set([Touched EXCEPT !.revealed = TRUE])
\* The card that is graded is the one at the index, the one shown is the last at most.
handleGrade ==
  /\ Acts
  /\ LET total == Len(todaysCards)
         st == [Touched EXCEPT !.revealed = FALSE,
                               !.cardIndex = IF @ + 1 < total THEN @ + 1 ELSE total]
         card == IF s.cardIndex < total THEN todaysCards[s.cardIndex + 1] ELSE 0
     IN Set(IF card = 0 THEN st
            ELSE [st EXCEPT !.reviews = Append(@, card), !.graded = Append(@, card)])
\* A due card is on the list once.
Without(cards, card) ==
  IF \E i \in DOMAIN cards : cards[i] = card
  THEN Seqs!RemoveAt(cards, CHOOSE i \in DOMAIN cards : cards[i] = card) ELSE cards
ReviewedCard ==
  /\ s.reviews # <<>>
  /\ Set([s EXCEPT !.reviews = Tail(@), !.reading = TRUE, !.stored = Without(@, Head(s.reviews))])
ReviewRefused == s.reviews # <<>> /\ Set([s EXCEPT !.reviews = Tail(@)])
handleSimulateUnlock ==
  Acts /\ Set([Touched EXCEPT !.steps = CASE @[1] # "done" -> <<"done", "active", "locked">>
                                          [] @[1] = "done" /\ @[2] # "done" -> <<"done", "done", "active">>
                                          [] OTHER -> <<"done", "done", "done">>])

TodayAnswers == DueLands \/ DueFails \/ ReviewedCard \/ ReviewRefused
TodayNext == On("today") /\ (handleReveal \/ handleGrade \/ handleSimulateUnlock \/ TodayAnswers)
TodayFairness == WF_s(On("today") /\ TodayAnswers)
TodayBusy == s.reading \/ s.reviews # <<>>

(***************************************************************************)
(* OnboardingPage and GoalContractForm.  A field is known by the edit that *)
(* left it, zero when empty.                                               *)
(***************************************************************************)
Form(st) == <<st.step, st.motivation, st.deadline, st.statement>>
NoDraft == <<>>
\* The form of a mount: the stored goal when there is one, else the draft.
Restored(editing, draft, acts) ==
  LET f == IF editing THEN <<1, 1, 1, 1>> ELSE IF draft = NoDraft THEN <<1, 0, 0, 0>> ELSE draft
  IN [screen |-> "goal", acts |-> acts, editing |-> editing, step |-> f[1], motivation |-> f[2],
      deadline |-> f[3], statement |-> f[4], draft |-> IF editing THEN draft ELSE f,
      submitting |-> FALSE, error |-> FALSE, at |-> "form"]
GoalInit(sc) ==
  \E editing \in BOOLEAN, draft \in {NoDraft, <<3, 1, 1, 0>>} : sc = Restored(editing, draft, 0)

\* The effect that keeps the draft runs after every change of the form.
KeepDraft(st) == Set(IF st.editing THEN st ELSE [st EXCEPT !.draft = Form(st)])
canAdvance == CASE s.step = 1 -> s.motivation # 0
                [] s.step = 2 -> s.deadline # 0
                [] s.step = 3 -> s.statement # 0

PickMotivation == Acts /\ s.step = 1 /\ KeepDraft([Touched EXCEPT !.motivation = s.acts + 1])
PickDeadline(months) == Acts /\ s.step = 2 /\ KeepDraft([Touched EXCEPT !.deadline = months])
\* Nothing is disabled while the goal is on its way.
EditStatement(text) == Acts /\ s.step = 3 /\ KeepDraft([Touched EXCEPT !.statement = text])
next ==
  Acts /\ s.step < 3 /\ canAdvance /\ KeepDraft([Touched EXCEPT !.error = FALSE, !.step = @ + 1])
back ==
  Acts /\ s.step > 1 /\ ~s.submitting /\ KeepDraft([Touched EXCEPT !.error = FALSE, !.step = @ - 1])
handleSubmitGoal ==
  /\ Acts /\ s.step = 3 /\ ~s.submitting /\ canAdvance
  /\ Set(IF s.motivation = 0 \/ s.deadline = 0 THEN [Touched EXCEPT !.error = TRUE]
         ELSE [Touched EXCEPT !.submitting = TRUE, !.error = FALSE])
\* The stored goal reaches the page's query at once, and no draft is kept from there on.
GoalSaved ==
  s.submitting /\ s.at = "form" /\ Set([s EXCEPT !.at = "leaving", !.draft = NoDraft, !.editing = TRUE])
GoalRefused ==
  s.submitting /\ s.at = "form" /\ Set([s EXCEPT !.submitting = FALSE, !.error = TRUE])
GoToToday == s.at = "leaving" /\ Set([s EXCEPT !.at = "today"])
ReloadForm == Acts /\ s.at = "form" /\ Set(Restored(s.editing, s.draft, s.acts + 1))

GoalClicks ==
  \/ PickMotivation \/ \E months \in {0, s.acts + 1} : PickDeadline(months)
  \/ \E text \in {0, s.acts + 1} : EditStatement(text)
  \/ next \/ back \/ handleSubmitGoal \/ ReloadForm
GoalAnswers == GoalSaved \/ GoalRefused \/ GoToToday
GoalNext == On("goal") /\ s.at # "today" /\ (GoalClicks \/ GoalAnswers)
GoalFairness == WF_s(On("goal") /\ GoalAnswers)
GoalBusy == s.submitting /\ s.at # "today"

(***************************************************************************)
(* PathScreen.  Nodes are numbered by difficulty; the queries land one by  *)
(* one and the screen is drawn from what there is.                         *)
(***************************************************************************)
PathInit(sc) ==
  \E nodes \in {0, 3, 7}, saved \in {<<>>, <<7, 9>>, <<7, 6, 9, 5, 4, 3>>},
     lessons \in {<<>>, <<TRUE, FALSE, TRUE>>, <<TRUE, TRUE, TRUE, TRUE, FALSE>>} :
    sc = [screen |-> "path", acts |-> 0, nodes |-> nodes, saved |-> saved, progress |-> lessons,
          landed |-> {}, expanded |-> FALSE, at |-> "path"]

FirstOf(seq, n) == SubSeq(seq, 1, IF Len(seq) < n THEN Len(seq) ELSE n)
withGoal(stars) == [i \in 1..6 |-> IF i = 6 THEN "goal" ELSE IF i <= Len(stars) THEN stars[i] ELSE "default"]
pickConstellation ==
  LET nodes == IF "graph" \in s.landed THEN s.nodes ELSE 0
      saved == IF "saved" \in s.landed THEN SelectSeq(s.saved, LAMBDA id : id \in 1..nodes) ELSE <<>>
  IN withGoal(IF Len(saved) >= 5 THEN FirstOf(saved, 5) ELSE FirstOf([i \in 1..nodes |-> i], 5))
lessonsFromCourse ==
  LET completed == FirstOf(IF "progress" \in s.landed THEN s.progress ELSE <<>>, 4)
      First(i) == ~completed[i] /\ \A j \in 1..(i - 1) : completed[j]
  IN IF completed = <<>> THEN <<"done", "done", "current", "upcoming">>
     ELSE [i \in DOMAIN completed |->
             IF completed[i] THEN "done" ELSE IF First(i) THEN "current" ELSE "upcoming"]
LessonRow(i) == [status |-> lessonsFromCourse[i], open |-> lessonsFromCourse[i] = "current" /\ s.expanded]

PathDataLands(query) == query \notin s.landed /\ Set([s EXCEPT !.landed = @ \cup {query}])
ToggleRow ==
  Acts /\ (\E i \in DOMAIN lessonsFromCourse : LessonRow(i).status = "current") /\ Set([Touched EXCEPT !.expanded = ~@])
handleOpenLab ==
  Acts /\ (\E i \in DOMAIN lessonsFromCourse : LessonRow(i).open) /\ Set([Touched EXCEPT !.at = "studio"])
handleUnlockTrack == Acts /\ Set([Touched EXCEPT !.at = "catalog"])

PathNext ==
  /\ On("path") /\ s.at = "path"
  /\ \/ \E query \in {"graph", "saved", "progress"} : PathDataLands(query)
     \/ ToggleRow \/ handleOpenLab \/ handleUnlockTrack

(***************************************************************************)
(* PromotionScreen: the ladder, and the takeover with its sounds and its   *)
(* confetti.                                                               *)
(***************************************************************************)
PromotionInit(sc) ==
  \E completed \in 0..2, interviews \in 0..2 :
    sc = [screen |-> "promotion", acts |-> 0, completed |-> completed, total |-> 2,
          interviews |-> interviews, loaded |-> FALSE, takeoverOpen |-> FALSE, sounds |-> 0,
          confetti |-> FALSE, at |-> "promotion"]

\* Until the progress is there its totals count as zero.
rungs ==
  LET completed == IF s.loaded THEN s.completed ELSE 0
      total == IF s.loaded THEN s.total ELSE 0
  IN <<IF completed >= 2 THEN "done" ELSE "current",
       IF total > completed THEN "current" ELSE "done",
       "locked",
       IF s.interviews >= 2 THEN "done" ELSE IF s.interviews > 0 THEN "current" ELSE "locked">>

ProgressLands == ~s.loaded /\ Set([s EXCEPT !.loaded = TRUE])
openTakeover ==
  Acts /\ ~s.takeoverOpen /\ Set([Touched EXCEPT !.takeoverOpen = TRUE, !.sounds = 3, !.confetti = TRUE])
\* The effect's cleanup clears the timers and empties the host.
closeTakeover(to) ==
  /\ Acts /\ s.takeoverOpen
  /\ Set([Touched EXCEPT !.takeoverOpen = FALSE, !.sounds = 0, !.confetti = FALSE, !.at = to])
SoundTimer == s.sounds > 0 /\ Set([s EXCEPT !.sounds = @ - 1])
ConfettiTimer == s.sounds = 0 /\ s.confetti /\ Set([s EXCEPT !.confetti = FALSE])

PromotionNext ==
  /\ On("promotion") /\ s.at = "promotion"
  /\ \/ ProgressLands \/ openTakeover \/ \E to \in {"promotion", "today"} : closeTakeover(to)
     \/ SoundTimer \/ ConfettiTimer
PromotionFairness == WF_s(On("promotion") /\ s.at = "promotion" /\ (SoundTimer \/ ConfettiTimer))
PromotionBusy == s.sounds > 0

(***************************************************************************)
(* Properties.                                                             *)
(***************************************************************************)
\* One checkout is on its way at a time, however the dialog is closed and opened on
\* other cards meanwhile.
OneCheckoutAtATime == On("catalog") => Len(s.checkouts) <= 1

\* A due card is graded once on a mount, though the list shrinks under the index as
\* reviews land in between and the index starts past a short list.
CardGradedOnce ==
  On("today") => \A i, j \in DOMAIN s.graded : s.graded[i] = s.graded[j] => i = j

\* A reload of the goal form finds what was typed, up to the step, and a stored goal
\* leaves no draft, whatever is typed while the page is being left.
DraftIsTheForm ==
  On("goal") => IF s.at = "form" THEN s.editing \/ s.draft = Form(s) ELSE s.draft = NoDraft

\* Only the first unfinished lesson opens its labs, whichever data has landed.
LabsOpenInOrder ==
  On("path") =>
    /\ Len(pickConstellation) = 6
    /\ \A i \in DOMAIN lessonsFromCourse :
         LessonRow(i).open => \A j \in 1..(i - 1) : LessonRow(j).status = "done"

\* No sound that the takeover has put off plays after it is closed, whichever way.
SoundsInTheTakeover == On("promotion") /\ s.sounds > 0 => s.takeoverOpen
=============================================================================
