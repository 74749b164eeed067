------------------------------- MODULE Lessons -------------------------------
(***************************************************************************)
(* The pages around the lessons: a lesson with its retrieval quiz, the     *)
(* materials of a course, the weekly receipts with the coach's letter, the *)
(* portfolio autopsy, and the catalogs of problems and exercises.          *)
(***************************************************************************)
EXTENDS Screen

CONSTANT Letters   \* bodies of the coach's letter, line by line

Pressed == [s EXCEPT !.acts = @ + 1]

(***************************************************************************)
(* LessonPage and RetrievalQuizInline.  The page's own flag, set by the    *)
(* answer of a click, wins over the progress that was read.                *)
(***************************************************************************)
NoRecall == [on |-> FALSE, loading |-> TRUE, error |-> FALSE, questions |-> FALSE, answers |-> {},
             submitting |-> FALSE, graded |-> FALSE]
Recalled == 1..2

LessonInit(sc) ==
  \E stored \in BOOLEAN :
    sc = [screen |-> "lesson", acts |-> 0, stored |-> stored, lesson |-> "loading", read |-> "sent",
          progress |-> "unknown", completed |-> "unset", completing |-> "no", uncompleting |-> "no",
          siblings |-> [n |-> 0, index |-> 0], quiz |-> NoRecall, at |-> "lesson",
          lost |-> FALSE, crossed |-> FALSE]

isCompleted(st) == st.progress = "done"
alreadyDone(st) == IF st.completed = "unset" THEN isCompleted(st) ELSE st.completed = "yes"

\* The quiz lives while the lesson shows as completed.
Mounts(st) ==
  LET shown == st.lesson = "found" /\ alreadyDone(st)
  IN IF shown THEN [st EXCEPT !.quiz.on = TRUE] ELSE [st EXCEPT !.quiz = NoRecall]

LessonLands(answer) == s.lesson = "loading" /\ Set(Mounts([s EXCEPT !.lesson = answer]))
SiblingsLand(n, i) ==
  s.lesson = "found" /\ s.siblings.n = 0 /\ Set([s EXCEPT !.siblings = [n |-> n, index |-> i]])
ProgressServed ==
  s.read = "sent" /\ Set([s EXCEPT !.read = IF s.stored THEN "done" ELSE "todo"])
ProgressRead ==
  s.read \in {"done", "todo"} /\ Set(Mounts([s EXCEPT !.read = "no", !.progress = s.read]))
ProgressFails == s.read # "no" /\ Set([s EXCEPT !.read = "no"])

\* The lesson before and the one after, in the order of the course.
SiblingLinks ==
  {link \in {"previous", "next"} :
    IF link = "previous" THEN s.siblings.index > 1 ELSE s.siblings.index \in 1..s.siblings.n - 1}

\* One of two buttons, each disabled by its own pending request.
CompleteOffered == s.lesson = "found" /\ ~alreadyDone(s) /\ s.completing = "no"
UncompleteOffered == s.lesson = "found" /\ alreadyDone(s) /\ s.uncompleting = "no"
handleComplete ==
  Acts /\ CompleteOffered
    /\ Set([Pressed EXCEPT !.completing = "sent", !.crossed = @ \/ s.uncompleting # "no"])
handleUncomplete ==
  Acts /\ UncompleteOffered
    /\ Set([Pressed EXCEPT !.uncompleting = "sent", !.crossed = @ \/ s.completing # "no"])
CompleteServed ==
  s.completing = "sent" /\ Set([s EXCEPT !.completing = "served", !.stored = TRUE])
UncompleteServed ==
  s.uncompleting = "sent" /\ Set([s EXCEPT !.uncompleting = "served", !.stored = FALSE])
\* useCompleteLesson, useUncompleteLesson: the progress is read again first.
CompleteLands ==
  s.completing = "served"
    /\ Set(Mounts([s EXCEPT !.completing = "no", !.completed = "yes",
                     !.read = Refetch(@, s.progress # "unknown")]))
UncompleteLands ==
  s.uncompleting = "served"
    /\ Set(Mounts([s EXCEPT !.uncompleting = "no", !.completed = "no",
                     !.read = Refetch(@, s.progress # "unknown")]))
CompleteFails ==
  s.completing # "no" /\ Set([s EXCEPT !.completing = "no", !.lost = @ \/ s.completing = "served"])
UncompleteFails ==
  s.uncompleting # "no"
    /\ Set([s EXCEPT !.uncompleting = "no", !.lost = @ \/ s.uncompleting = "served"])

\* A lesson that is locked or missing leads back to its course or to the catalog.
LessonLinks ==
  CASE s.lesson = "loading" -> {}
    [] s.lesson = "paywall" -> {"course"}
    [] s.lesson = "missing" -> {"courses"}
    [] OTHER -> {"course"} \cup SiblingLinks
LeaveLesson == Acts /\ LessonLinks # {} /\ Set([Pressed EXCEPT !.at = "elsewhere"])

\* An error hides the quiz, and without questions it is a reflection.
RecallView ==
  IF ~s.quiz.on THEN "none" ELSE IF s.quiz.loading THEN "loading" ELSE IF s.quiz.error THEN "error"
  ELSE IF ~s.quiz.questions THEN "reflection" ELSE IF s.quiz.graded THEN "graded" ELSE "open"
RecallLands(some) ==
  RecallView = "loading" /\ Set([s EXCEPT !.quiz.loading = FALSE, !.quiz.questions = some])
RecallFails == RecallView = "loading" /\ Set([s EXCEPT !.quiz.loading = FALSE, !.quiz.error = TRUE])
allRecalled == s.quiz.answers = Recalled
RecallOptions == IF RecallView = "open" /\ ~s.quiz.submitting THEN Recalled ELSE {}
Recall(q) == Acts /\ q \in RecallOptions /\ Set([Pressed EXCEPT !.quiz.answers = @ \cup {q}])
CheckAnswers == RecallView = "open" /\ ~s.quiz.submitting /\ allRecalled
handleSubmitRecall == Acts /\ CheckAnswers /\ Set([Pressed EXCEPT !.quiz.submitting = TRUE])
RecallGraded == s.quiz.submitting /\ Set([s EXCEPT !.quiz.submitting = FALSE, !.quiz.graded = TRUE])
\* The error takes the place of the quiz, and its answers with it.
RecallNotGraded == s.quiz.submitting /\ Set([s EXCEPT !.quiz.submitting = FALSE, !.quiz.error = TRUE])

LessonClicks ==
  \/ handleComplete \/ handleUncomplete \/ LeaveLesson \/ handleSubmitRecall
  \/ \E q \in Recalled : Recall(q)
LessonAnswers ==
  \/ \E answer \in {"found", "paywall", "missing"} : LessonLands(answer)
  \/ \E n \in {1, 3}, i \in 1..2 : i <= n /\ SiblingsLand(n, i)
  \/ ProgressServed \/ ProgressRead \/ ProgressFails
  \/ CompleteServed \/ CompleteLands \/ CompleteFails
  \/ UncompleteServed \/ UncompleteLands \/ UncompleteFails
  \/ (\E some \in BOOLEAN : RecallLands(some)) \/ RecallFails \/ RecallGraded \/ RecallNotGraded
LessonNext == On("lesson") /\ s.at = "lesson" /\ (LessonClicks \/ LessonAnswers)
LessonFairness == WF_s(On("lesson") /\ s.at = "lesson" /\ LessonAnswers)
LessonBusy ==
  s.at = "lesson" /\ (\/ s.lesson = "loading" \/ s.read # "no" \/ s.completing # "no"
                      \/ s.uncompleting # "no" \/ RecallView = "loading" \/ s.quiz.submitting)

(***************************************************************************)
(* ResourceList, the materials of a course.  A single busyId tells which   *)
(* row is being opened.                                                    *)
(***************************************************************************)
Resources == [colab |-> [lesson |-> 2, order |-> 1], repo |-> [lesson |-> 1, order |-> 2],
              slides |-> [lesson |-> 1, order |-> 1], syllabus |-> [lesson |-> 0, order |-> 1],
              orphan |-> [lesson |-> 9, order |-> 1]]

MaterialsInit(sc) ==
  \E resources \in {{}, DOMAIN Resources}, locked \in {{}, {"colab"}} :
    sc = [screen |-> "materials", acts |-> 0, resources |-> resources, locked |-> locked,
          busyId |-> "none", errors |-> {}, opens |-> <<>>, tabs |-> 0]

\* The course's own first, then the lessons in their order, those unknown at the end.
groupResources ==
  LET lessons == {Resources[r].lesson : r \in s.resources}
      Items(lesson) == Seqs!SetToSortSeq({r \in s.resources : Resources[r].lesson = lesson},
                                    LAMBDA a, b : Resources[a].order < Resources[b].order)
      order == Seqs!SetToSortSeq(lessons, <)
  IN [i \in DOMAIN order |-> Items(order[i])]
ResourceRows ==
  {r \in s.resources : \E i \in DOMAIN groupResources : Seqs!Contains(groupResources[i], r)}
OpenButton(r) == r \in ResourceRows /\ r \notin s.locked /\ s.busyId # r
handleOpen(r) ==
  /\ Acts /\ OpenButton(r)
  /\ Set([Pressed EXCEPT !.busyId = r, !.errors = @ \ {r}, !.opens = Append(@, r)])
\* Whichever row is marked busy by then is freed.
ResourceOpens(i) ==
  i \in DOMAIN s.opens
    /\ Set([s EXCEPT !.opens = Seqs!RemoveAt(@, i), !.tabs = @ + 1, !.busyId = "none"])
ResourceFails(i) ==
  i \in DOMAIN s.opens
    /\ Set([s EXCEPT !.opens = Seqs!RemoveAt(@, i), !.errors = @ \cup {s.opens[i]}, !.busyId = "none"])

MaterialsAnswers == \E i \in DOMAIN s.opens : ResourceOpens(i) \/ ResourceFails(i)
MaterialsNext ==
  On("materials") /\ (MaterialsAnswers \/ \E r \in DOMAIN Resources : handleOpen(r))
MaterialsFairness == WF_s(On("materials") /\ MaterialsAnswers)
MaterialsBusy == s.busyId # "none"

(***************************************************************************)
(* ReceiptsPage and a ReceiptCard with the letter of its week.             *)
(***************************************************************************)
ReceiptsInit(sc) ==
  \E letter \in {"absent", "unread", "read"}, body \in Letters :
    sc = [screen |-> "receipts", acts |-> 0, stored |-> letter, body |-> body, receipts |-> "loading",
          reading |-> TRUE, letter |-> "absent", card |-> FALSE, expanded |-> FALSE,
          autoRead |-> FALSE, marks |-> <<>>, asked |-> 0]

\* Mutant: only the toggle marks a letter.
AutoReadNever(st) == st

\* DISC-50: a letter that is open and unread is marked once by the effect of its card.
AutoRead(st) ==
  IF st.card /\ ~st.autoRead /\ st.expanded /\ st.letter = "unread"
  THEN [st EXCEPT !.autoRead = TRUE, !.marks = Append(@, "sent"), !.asked = @ + 1] ELSE st
\* Whether the card is born open is settled by the letter it has at its birth.
ReceiptsLand(some) ==
  s.receipts = "loading"
    /\ Set(IF ~some THEN [s EXCEPT !.receipts = "none"]
           ELSE AutoRead([s EXCEPT !.receipts = "some", !.card = TRUE, !.expanded = (s.letter = "unread")]))
ReceiptsFail == s.receipts = "loading" /\ Set([s EXCEPT !.receipts = "failed"])
LetterLands == s.reading /\ Set(AutoRead([s EXCEPT !.reading = FALSE, !.letter = s.stored]))
LetterFails == s.reading /\ Set([s EXCEPT !.reading = FALSE])
LetterButton == s.card /\ s.letter # "absent"
handleToggleLetter ==
  /\ Acts /\ LetterButton
  /\ LET st == [Pressed EXCEPT !.expanded = ~@]
     IN Set(AutoRead(IF st.expanded /\ s.letter = "unread"
                     THEN [st EXCEPT !.marks = Append(@, "sent"), !.asked = @ + 1] ELSE st))
MarkServed(i) ==
  i \in DOMAIN s.marks /\ s.marks[i] = "sent" /\ Set([s EXCEPT !.marks[i] = "served", !.stored = "read"])
MarkLands(i) ==
  i \in DOMAIN s.marks /\ s.marks[i] = "served"
    /\ Set([s EXCEPT !.marks = Seqs!RemoveAt(@, i), !.reading = TRUE])
MarkFails(i) == i \in DOMAIN s.marks /\ Set([s EXCEPT !.marks = Seqs!RemoveAt(@, i)])

\* Mutant: a fence left open drops its lines.
ParseClosedFences(body) ==
  LET Block(st, line) == [st EXCEPT !.blocks = Append(@, [kind |-> line.kind, lines |-> <<line>>])]
      Code(st) == [blocks |-> Append(st.blocks, [kind |-> "code", lines |-> st.fence]),
                   inFence |-> FALSE, fence |-> <<>>]
      Walk(st, line) ==
        CASE line.kind = "fence" /\ st.inFence -> Code(st)
          [] line.kind = "fence" /\ ~st.inFence -> [st EXCEPT !.inFence = TRUE]
          [] line.kind # "fence" /\ st.inFence -> [st EXCEPT !.fence = Append(@, line)]
          [] OTHER -> Block(st, line)
  IN Seqs!FoldLeft(Walk, [blocks |-> <<>>, inFence |-> FALSE, fence |-> <<>>], body).blocks

\* The letter's blocks: a fence opens or closes a block of code, the last may stay open.
parseLetter(body) ==
  LET Block(st, line) == [st EXCEPT !.blocks = Append(@, [kind |-> line.kind, lines |-> <<line>>])]
      Code(st) == [blocks |-> Append(st.blocks, [kind |-> "code", lines |-> st.fence]),
                   inFence |-> FALSE, fence |-> <<>>]
      Walk(st, line) ==
        CASE line.kind = "fence" /\ st.inFence -> Code(st)
          [] line.kind = "fence" /\ ~st.inFence -> [st EXCEPT !.inFence = TRUE]
          [] line.kind # "fence" /\ st.inFence -> [st EXCEPT !.fence = Append(@, line)]
          [] OTHER -> Block(st, line)
      end == Seqs!FoldLeft(Walk, [blocks |-> <<>>, inFence |-> FALSE, fence |-> <<>>], body)
  IN (IF end.inFence THEN Code(end) ELSE end).blocks
LetterBody == IF LetterButton /\ s.expanded THEN parseLetter(s.body) ELSE <<>>

ReceiptsAnswers ==
  \/ (\E some \in BOOLEAN : ReceiptsLand(some)) \/ ReceiptsFail \/ LetterLands \/ LetterFails
  \/ \E i \in DOMAIN s.marks : MarkServed(i) \/ MarkLands(i) \/ MarkFails(i)
ReceiptsNext == On("receipts") /\ (handleToggleLetter \/ ReceiptsAnswers)
ReceiptsFairness == WF_s(On("receipts") /\ ReceiptsAnswers)
ReceiptsBusy == s.receipts = "loading" \/ s.reading \/ s.marks # <<>>

(***************************************************************************)
(* PortfolioAutopsyWidget.  Cancel and Close keep what was typed.          *)
(***************************************************************************)
AutopsyInit(sc) ==
  sc = [screen |-> "autopsy", acts |-> 0, title |-> FALSE, description |-> "none", submitting |-> FALSE,
        result |-> FALSE, error |-> FALSE, expanded |-> FALSE]

AutopsyResult == s.result
AutopsyTeaser == ~s.expanded /\ ~AutopsyResult
AutopsyForm == s.expanded /\ ~AutopsyResult
StartAutopsy == Acts /\ AutopsyTeaser /\ Set([Pressed EXCEPT !.expanded = TRUE])
EditAutopsy(title, description) ==
  /\ Acts /\ AutopsyForm /\ ~s.submitting
  /\ Set([Pressed EXCEPT !.title = title, !.description = description])
handleSubmitAutopsy ==
  /\ Acts /\ AutopsyForm /\ s.title /\ s.description = "long" /\ ~s.submitting
  /\ Set([Pressed EXCEPT !.submitting = TRUE, !.error = FALSE, !.result = FALSE])
AutopsyLands == s.submitting /\ Set([s EXCEPT !.submitting = FALSE, !.result = TRUE])
AutopsyFails == s.submitting /\ Set([s EXCEPT !.submitting = FALSE, !.error = TRUE])
CancelAutopsy == Acts /\ AutopsyForm /\ ~s.submitting /\ Set([Pressed EXCEPT !.expanded = FALSE])
\* "Run another autopsy", and "Close".
handleResetAutopsy ==
  Acts /\ AutopsyResult /\ Set([Pressed EXCEPT !.result = FALSE, !.error = FALSE])
CloseAutopsy ==
  Acts /\ AutopsyResult /\ Set([Pressed EXCEPT !.expanded = FALSE, !.result = FALSE])

AutopsyClicks ==
  \/ StartAutopsy \/ handleSubmitAutopsy \/ CancelAutopsy \/ handleResetAutopsy \/ CloseAutopsy
  \/ \E title \in BOOLEAN, description \in {"none", "short", "long"} : EditAutopsy(title, description)
AutopsyNext == On("autopsy") /\ (AutopsyClicks \/ AutopsyLands \/ AutopsyFails)
AutopsyFairness == WF_s(On("autopsy") /\ (AutopsyLands \/ AutopsyFails))
AutopsyBusy == s.submitting

(***************************************************************************)
(* PracticeCatalogPage and ExercisesPage: one list, shown in tiers with    *)
(* the last unfinished attempt on top, or with its capstone on top.        *)
(***************************************************************************)
ProblemsInit(sc) ==
  \E list \in {<<>>, <<[difficulty |-> "easy", points |-> 10], [difficulty |-> "hard", points |-> 5]>>,
               <<[difficulty |-> "odd", points |-> 5], [difficulty |-> "medium", points |-> 20],
                 [difficulty |-> "easy", points |-> 20]>>}, signedIn \in BOOLEAN :
    sc = [screen |-> "problems", acts |-> 0, catalog |-> list, signedIn |-> signedIn, list |-> "loading",
          scan |-> 0, continue |-> 0, at |-> "problems"]

RankOf(ex) == CASE ex.difficulty = "easy" -> 0 [] ex.difficulty = "hard" -> 2 [] OTHER -> 1
tierFor(ex) == <<"foundations", "core", "capstone">>[RankOf(ex) + 1]
Problems == IF s.list = "landed" THEN s.catalog ELSE <<>>
grouped == [tier \in {"foundations", "core", "capstone"} |->
              SelectSeq(Problems, LAMBDA ex : tierFor(ex) = tier)]
\* Of the hardest the one with the most points, the earliest of equals.
pickCapstone ==
  LET Above(i, j) == \/ RankOf(Problems[i]) > RankOf(Problems[j])
                     \/ /\ RankOf(Problems[i]) = RankOf(Problems[j])
                        /\ \/ Problems[i].points > Problems[j].points
                           \/ Problems[i].points = Problems[j].points /\ i < j
  IN {i \in DOMAIN Problems : \A j \in DOMAIN Problems \ {i} : Above(i, j)}
practice == DOMAIN Problems \ pickCapstone

\* The scan for an unfinished attempt asks for one exercise after the other.
ProblemsLand ==
  s.list = "loading"
    /\ Set([s EXCEPT !.list = "landed", !.scan = IF s.signedIn /\ s.catalog # <<>> THEN 1 ELSE 0])
ProblemsFail == s.list = "loading" /\ Set([s EXCEPT !.list = "failed"])
\* No attempt, a passed one and a failed reading all send the scan on.
ScanStep(unfinished) ==
  /\ s.scan # 0
  /\ Set(IF unfinished THEN [s EXCEPT !.continue = s.scan, !.scan = 0]
         ELSE [s EXCEPT !.scan = IF @ < Len(s.catalog) THEN @ + 1 ELSE 0])
Resume == Acts /\ s.continue # 0 /\ Set([Pressed EXCEPT !.at = "problem"])
OpenProblem(tier) == Acts /\ grouped[tier] # <<>> /\ Set([Pressed EXCEPT !.at = "problem"])
OpenExercise == Acts /\ practice \cup pickCapstone # {} /\ Set([Pressed EXCEPT !.at = "exercise"])

ProblemsAnswers ==
  ProblemsLand \/ ProblemsFail \/ \E unfinished \in BOOLEAN : ScanStep(unfinished)
ProblemsNext ==
  /\ On("problems") /\ s.at = "problems"
  /\ ProblemsAnswers \/ Resume \/ OpenExercise \/ \E tier \in DOMAIN grouped : OpenProblem(tier)
ProblemsFairness == WF_s(On("problems") /\ s.at = "problems" /\ ProblemsAnswers)
ProblemsBusy == s.at = "problems" /\ (s.list = "loading" \/ s.scan # 0)

(***************************************************************************)
(* Properties.                                                             *)
(***************************************************************************)
\* DISC-25: unless an answer is lost or the two changes overlap, what the page says
\* of the lesson is what the server has, however late a reading of the progress lands.
CompletionIsStored ==
  On("lesson") /\ s.progress # "unknown" /\ {s.completing, s.uncompleting} = {"no"}
    /\ ~s.lost /\ ~s.crossed => alreadyDone(s) = s.stored

\* DISC-50: the letter in front of the student is read, or was asked to be marked,
\* whichever of the receipts and the letters landed first and however it was opened.
OpenLetterIsMarked ==
  On("receipts") /\ s.card /\ s.expanded /\ s.letter = "unread" => s.asked > 0

\* DISC-51: every line of the letter but the fences is in a block, in order, an
\* unclosed fence's as well.
LetterIsWhole ==
  On("receipts") /\ LetterBody # <<>> =>
    Seqs!FlattenSeq([i \in DOMAIN LetterBody |-> LetterBody[i].lines])
      = SelectSeq(s.body, LAMBDA line : line.kind # "fence")

\* A material appears under one heading, and an exercise in one tier and in one of the
\* capstone and the practice list.
EverythingIsListed ==
  /\ On("materials") => /\ ResourceRows = s.resources
                        /\ Len(Seqs!FlattenSeq(groupResources)) = Cardinality(s.resources)
  /\ On("problems") => /\ Len(grouped["foundations"]) + Len(grouped["core"]) + Len(grouped["capstone"])
                            = Len(Problems)
                       /\ Problems # <<>> => Cardinality(practice) = Len(Problems) - 1
=============================================================================
