-------------------------------- MODULE Admin --------------------------------
(***************************************************************************)
(* The pages of the admin console: the console itself, the directory of    *)
(* students, one student with the agents an admin may trigger, the course  *)
(* editor, the two boards (confusion and at-risk), and feedback triage.    *)
(* What is read sits in a query of its key and is read again on a poll, a  *)
(* refresh, or the success of a change.                                    *)
(***************************************************************************)
EXTENDS Screen

Worked == [s EXCEPT !.acts = @ + 1]

(***************************************************************************)
(* AdminConsoleV1Page, polled every minute.  What a column is sorted by is *)
(* a number that orders its texts.                                         *)
(***************************************************************************)
Columns == {"name", "role", "stage", "progress", "streak", "last", "risk"}
Learner(name, role, stage, progress, streak, last, risk, paid, joined) ==
  [name |-> name, role |-> role, stage |-> stage, progress |-> progress, streak |-> streak, last |-> last,
   risk |-> risk, paid |-> paid, joined |-> joined]
Learners == [ann |-> Learner(2, 1, 1, 10, 0, 5, 75, TRUE, "Apr 19"), bob |-> Learner(3, 2, 1, 40, 1, 9, 74, FALSE, "Mar 02"),
             cyd |-> Learner(1, 1, 2, 40, 6, 4, 50, TRUE, "Apr 24"), dee |-> Learner(4, 2, 2, 90, 9, 0, 29, FALSE, "Apr 22")]
\* A call may be with a student the roster does not have.
Responses == {[students |-> roster, calls |-> {"ann"}] :
                roster \in {<< >>, <<"bob", "dee">>, <<"dee", "cyd", "bob", "ann">>}}

\* Texts of the search: blanks only, a part of a name, and the same with a blank after
\* it, which only a name of two words contains.
Found == [none |-> {}, blank |-> {}, part |-> {"ann", "dee"}, padded |-> {"ann"}]

ConsoleInit(sc) ==
  sc = [screen |-> "console", acts |-> 0, read |-> FALSE, data |-> [students |-> << >>, calls |-> {}],
        fetching |-> TRUE, error |-> FALSE,
        theme |-> "light", filter |-> "all", sort |-> [key |-> "risk", dir |-> "desc"],
        search |-> "none", openStudentId |-> "none"]

students == s.data.students

\* Array.sort keeps the order of what it finds equal.
Ranked(list, key, dir) ==
  LET Key(x) == Learners[x][key]
      At(x) == CHOOSE i \in DOMAIN list : list[i] = x
      Before(x, y) == \/ IF dir = "asc" THEN Key(x) < Key(y) ELSE Key(x) > Key(y)
                      \/ Key(x) = Key(y) /\ At(x) < At(y)
  IN Seqs!SetToSortSeq(Seqs!ToSet(list), Before)
topRisk ==
  LET ranked == Ranked(students, "risk", "desc")
  IN SubSeq(ranked, 1, IF Len(ranked) < 3 THEN Len(ranked) ELSE 3)

FilterKeys == {"all", "severe", "high", "paid-stalled", "thriving", "new"}
newJoiners == {"Apr 19", "Apr 21", "Apr 22"}
Passes(filter, x) ==
  CASE filter = "severe" -> Learners[x].risk >= 75
    [] filter = "high" -> Learners[x].risk >= 50 /\ Learners[x].risk < 75
    [] filter = "paid-stalled" -> Learners[x].paid /\ Learners[x].last >= 5
    [] filter = "thriving" -> Learners[x].risk < 30
    [] filter = "new" -> Learners[x].joined \in newJoiners
    [] OTHER -> TRUE
\* A text of blanks does not search; any other is searched for with its blanks.
Matches(x) == s.search \in {"none", "blank"} \/ x \in Found[s.search]
filtered ==
  LET Shown(x) == Passes(s.filter, x) /\ Matches(x)
  IN Ranked(SelectSeq(students, Shown), s.sort.key, s.sort.dir)

\* An error of the poll takes the page away, not the bar with its search nor the profile.
ConsoleView ==
  IF ~s.read /\ s.fetching THEN "loading" ELSE IF s.error THEN "failed" ELSE "console"
openStudent == IF s.openStudentId \in Seqs!ToSet(students) THEN s.openStudentId ELSE "none"

ConsoleLands(response) ==
  s.fetching /\ Set([s EXCEPT !.fetching = FALSE, !.read = TRUE, !.data = response, !.error = FALSE])
ConsoleFails == s.fetching /\ Set([s EXCEPT !.fetching = FALSE, !.error = TRUE])
ConsolePoll == ~s.fetching /\ Acts /\ Set([Worked EXCEPT !.fetching = TRUE, !.error = @ /\ s.read])

ToggleTheme == Acts /\ Set([Worked EXCEPT !.theme = IF @ = "light" THEN "dark" ELSE "light"])
\* Both searches write one text; only the table's shows it.
SearchLearners(text) == Acts /\ s.search # text /\ Set([Worked EXCEPT !.search = text])
Filter(key) == Acts /\ ConsoleView = "console" /\ Set([Worked EXCEPT !.filter = key])
SeeFullCallList == Filter("severe")
onSortClick(key) ==
  /\ Acts /\ ConsoleView = "console"
  /\ Set([Worked EXCEPT !.sort =
       IF @.key = key THEN [@ EXCEPT !.dir = IF @ = "asc" THEN "desc" ELSE "asc"]
       ELSE [key |-> key, dir |-> IF key \in {"name", "role", "stage"} THEN "asc" ELSE "desc"]])
RiskCards == IF ConsoleView = "console" THEN Seqs!ToSet(topRisk) ELSE {}
Rows == IF ConsoleView = "console" THEN Seqs!ToSet(filtered) ELSE {}
CallItems == IF ConsoleView = "console" THEN s.data.calls ELSE {}
\* With a profile open the buttons behind it can still be reached by the keyboard.
OpenLearner(x) == Acts /\ x \in RiskCards \cup Rows \cup CallItems /\ Set([Worked EXCEPT !.openStudentId = x])
\* The profile's backdrop, its button, and Escape while a profile shows.
StudentModal == openStudent # "none"
CloseLearner == Acts /\ StudentModal /\ Set([Worked EXCEPT !.openStudentId = "none"])

ConsoleAnswers == ConsoleFails \/ \E response \in Responses : ConsoleLands(response)
ConsoleClicks ==
  \/ ConsolePoll \/ ToggleTheme \/ SeeFullCallList \/ CloseLearner
  \/ (\E text \in DOMAIN Found : SearchLearners(text)) \/ (\E key \in FilterKeys : Filter(key))
  \/ (\E key \in Columns : onSortClick(key)) \/ \E x \in DOMAIN Learners : OpenLearner(x)
ConsoleNext == On("console") /\ (ConsoleAnswers \/ ConsoleClicks)
ConsoleFairness == WF_s(On("console") /\ ConsoleAnswers)
ConsoleBusy == s.fetching

(***************************************************************************)
(* AdminStudentsPage: the search waits for a pause in the typing.  Texts   *)
(* are numbers; 2 is 1 with a blank around it.                             *)
(***************************************************************************)
NoTimer == 9
Trim(text) == IF text = 2 THEN 1 ELSE text

DirectoryInit(sc) ==
  sc = [screen |-> "directory", acts |-> 0, search |-> 0, debounced |-> 0, timer |-> 0,
        lists |-> [key \in {0, 1, 3} |-> IF key = 0 THEN "loading" ELSE "unread"]]

TypeSearch(text) == Acts /\ s.search # text /\ Set([Worked EXCEPT !.search = text, !.timer = text])
\* The query of the new text starts unless its list is here.
SearchPauses ==
  /\ s.timer # NoTimer
  /\ Set([s EXCEPT !.timer = NoTimer, !.debounced = s.timer,
                   !.lists[Trim(s.timer)] = IF @ \in {"unread", "failed"} THEN "loading" ELSE @])
\* The page tells a list that failed from one without students by nothing.
DirectoryLands(key, answer) == s.lists[key] = "loading" /\ Set([s EXCEPT !.lists[key] = answer])
ListedStudents == IF s.lists[Trim(s.debounced)] = "found" THEN {Trim(s.debounced)} ELSE {}

DirectoryAnswers ==
  SearchPauses \/ \E key \in {0, 1, 3}, answer \in {"found", "failed"} : DirectoryLands(key, answer)
DirectoryNext == On("directory") /\ (DirectoryAnswers \/ \E text \in 0..3 : TypeSearch(text))
DirectoryFairness == WF_s(On("directory") /\ DirectoryAnswers)
DirectoryBusy == s.timer # NoTimer \/ \E key \in DOMAIN s.lists : s.lists[key] = "loading"

(***************************************************************************)
(* StudentDrilldownPage: its timeline and the trigger of an agent.  The    *)
(* server's runs are counted; owed is what an answer promised the page.    *)
(***************************************************************************)
Unread == 99

DrilldownInit(sc) ==
  sc = [screen |-> "drilldown", acts |-> 0, runs |-> 0, timeline |-> Unread, read |-> "sent", seen |-> 0,
        failed |-> FALSE, selectedAgent |-> 1, triggered |-> "no", triggerResult |-> "none", owed |-> 0]

TimelineServed == s.read = "sent" /\ Set([s EXCEPT !.read = "served", !.seen = s.runs])
TimelineLands ==
  s.read = "served" /\ Set([s EXCEPT !.read = "no", !.timeline = s.seen, !.failed = FALSE])
TimelineFails == s.read # "no" /\ Set([s EXCEPT !.read = "no", !.failed = TRUE])
RunButton == s.triggered = "no"
SelectAgent(agent) == Acts /\ s.selectedAgent # agent /\ Set([Worked EXCEPT !.selectedAgent = agent])
handleTrigger == Acts /\ RunButton /\ Set([Worked EXCEPT !.triggerResult = "none", !.triggered = "sent"])
AgentRuns == s.triggered = "sent" /\ Set([s EXCEPT !.triggered = "served", !.runs = @ + 1])
TriggerLands ==
  /\ s.triggered = "served"
  /\ LET restarts == s.read = "no" \/ s.timeline # Unread
     IN Set([s EXCEPT !.triggered = "no", !.triggerResult = "ok", !.read = Refetch(@, s.timeline # Unread),
                      !.owed = IF restarts THEN s.runs ELSE @])
TriggerFails == s.triggered # "no" /\ Set([s EXCEPT !.triggered = "no", !.triggerResult = "failed"])

DrilldownAnswers ==
  TimelineServed \/ TimelineLands \/ TimelineFails \/ AgentRuns \/ TriggerLands \/ TriggerFails
DrilldownNext ==
  On("drilldown") /\ (DrilldownAnswers \/ handleTrigger \/ \E agent \in 1..2 : SelectAgent(agent))
DrilldownFairness == WF_s(On("drilldown") /\ DrilldownAnswers)
DrilldownBusy == s.read # "no" \/ s.triggered # "no"

(***************************************************************************)
(* CourseEditPage: two texts of JSON, saved apart.                         *)
(***************************************************************************)
CourseEditInit(sc) ==
  sc = [screen |-> "courseEdit", acts |-> 0, courseJson |-> TRUE, rubricJson |-> TRUE, rubricExerciseId |-> FALSE,
        savingCourse |-> FALSE, savingRubric |-> FALSE, toast |-> "none"]

EditMetadata(valid) == Acts /\ s.courseJson # valid /\ Set([Worked EXCEPT !.courseJson = valid])
EditRubric(valid, exercise) == Acts /\ Set([Worked EXCEPT !.rubricJson = valid, !.rubricExerciseId = exercise])
saveMetadata ==
  /\ Acts /\ ~s.savingCourse
  /\ Set(IF s.courseJson THEN [Worked EXCEPT !.savingCourse = TRUE] ELSE [Worked EXCEPT !.toast = "invalid"])
saveRubric ==
  /\ Acts /\ ~s.savingRubric
  /\ Set(IF ~s.rubricExerciseId THEN [Worked EXCEPT !.toast = "no exercise"]
         ELSE IF s.rubricJson THEN [Worked EXCEPT !.savingRubric = TRUE] ELSE [Worked EXCEPT !.toast = "invalid"])
MetadataSaved(ok) ==
  s.savingCourse /\ Set([s EXCEPT !.savingCourse = FALSE, !.toast = IF ok THEN "metadata" ELSE "failed"])
RubricSaved(ok) ==
  s.savingRubric /\ Set([s EXCEPT !.savingRubric = FALSE, !.toast = IF ok THEN "rubric" ELSE "failed"])

CourseEditAnswers == \E ok \in BOOLEAN : MetadataSaved(ok) \/ RubricSaved(ok)
CourseEditNext ==
  /\ On("courseEdit")
  /\ \/ CourseEditAnswers \/ saveMetadata \/ saveRubric
     \/ \E valid, exercise \in BOOLEAN : EditMetadata(valid) \/ EditRubric(valid, exercise)
CourseEditFairness == WF_s(On("courseEdit") /\ CourseEditAnswers)
CourseEditBusy == s.savingCourse \/ s.savingRubric

(***************************************************************************)
(* AdminConfusionPage and AdminAtRiskPage: a query for each tab.           *)
(***************************************************************************)
Tabs == 1..3
Unfetched == [data |-> "none", error |-> FALSE, fetching |-> FALSE]

BoardInit(sc) ==
  \E page \in {"confusion", "atRisk"} :
    sc = [screen |-> "board", acts |-> 0, page |-> page, tab |-> 2,
          queries |-> [tab \in Tabs |-> [Unfetched EXCEPT !.fetching = (tab = 2)]]]

Fetch(query) == [query EXCEPT !.fetching = TRUE, !.error = @ /\ query.data # "none"]
\* A list of another tab, if it is here, is shown at once and read again when stale.
SelectBoard(tab, stale) ==
  /\ Acts /\ s.tab # tab
  /\ Set([Worked EXCEPT !.tab = tab,
       !.queries[tab] = IF stale \/ s.queries[tab].data = "none" THEN Fetch(@) ELSE @])
RefreshButton == ~s.queries[s.tab].fetching
RefreshBoard == Acts /\ RefreshButton /\ Set([Worked EXCEPT !.queries[s.tab] = Fetch(@)])
BoardLands(tab, some) ==
  /\ s.queries[tab].fetching
  /\ Set([s EXCEPT !.queries[tab] = [data |-> IF some THEN "some" ELSE "empty", error |-> FALSE, fetching |-> FALSE]])
BoardFails(tab) ==
  s.queries[tab].fetching /\ Set([s EXCEPT !.queries[tab] = [@ EXCEPT !.error = TRUE, !.fetching = FALSE]])
BoardViews(query) ==
  {view \in {"loading", "failed", "empty", "some"} :
     CASE view = "loading" -> query.fetching /\ query.data = "none"
       [] view = "failed" -> query.error
       [] OTHER -> ~(query.fetching /\ query.data = "none") /\ ~query.error /\ query.data = view}
ConfusionView == IF s.page = "confusion" THEN BoardViews(s.queries[s.tab]) ELSE {}
AtRiskView == IF s.page = "atRisk" THEN BoardViews(s.queries[s.tab]) ELSE {}

BoardAnswers == \E tab \in Tabs : BoardFails(tab) \/ \E some \in BOOLEAN : BoardLands(tab, some)
BoardNext ==
  On("board") /\ (BoardAnswers \/ RefreshBoard \/ \E tab \in Tabs, stale \in BOOLEAN : SelectBoard(tab, stale))
BoardFairness == WF_s(On("board") /\ BoardAnswers)
BoardBusy == \E tab \in Tabs : s.queries[tab].fetching

(***************************************************************************)
(* AdminFeedbackPage, a mutation for each row.                             *)
(***************************************************************************)
Feedback == 1..2

TriageInit(sc) ==
  sc = [screen |-> "triage", acts |-> 0, resolved |-> {}, items |-> {}, known |-> FALSE, read |-> "sent", seen |-> {},
        failed |-> FALSE, pending |-> [i \in Feedback |-> "no"], owed |-> {}]

TriageServed == s.read = "sent" /\ Set([s EXCEPT !.read = "served", !.seen = s.resolved])
TriageLands == s.read = "served" /\ Set([s EXCEPT !.read = "no", !.items = s.seen, !.known = TRUE, !.failed = FALSE])
TriageFails == s.read # "no" /\ Set([s EXCEPT !.read = "no", !.failed = TRUE])
RefreshTriage == Acts /\ Set([Worked EXCEPT !.read = Refetch(@, s.known)])
\* Between its answer and the list that follows a row may be resolved again.
ResolveButton(i) == s.known /\ i \notin s.items /\ s.pending[i] = "no"
FeedbackRows == {i \in Feedback : ResolveButton(i)}
resolve(i) == Acts /\ i \in FeedbackRows /\ Set([Worked EXCEPT !.pending[i] = "sent"])
ResolveServed(i) ==
  s.pending[i] = "sent" /\ Set([s EXCEPT !.pending[i] = "served", !.resolved = @ \cup {i}])
ResolveLands(i) ==
  s.pending[i] = "served"
    /\ Set([s EXCEPT !.pending[i] = "no", !.read = Refetch(@, s.known), !.owed = @ \cup {i}])
ResolveFails(i) == s.pending[i] # "no" /\ Set([s EXCEPT !.pending[i] = "no"])

TriageAnswers ==
  \/ TriageServed \/ TriageLands \/ TriageFails
  \/ \E i \in Feedback : ResolveServed(i) \/ ResolveLands(i) \/ ResolveFails(i)
TriageNext == On("triage") /\ (TriageAnswers \/ RefreshTriage \/ \E i \in Feedback : resolve(i))
TriageFairness == WF_s(On("triage") /\ TriageAnswers)
TriageBusy == s.read # "no" \/ \E i \in Feedback : s.pending[i] # "no"

(***************************************************************************)
(* Properties.                                                             *)
(***************************************************************************)
\* The table has each learner the chip and the search let through once, in the order
\* of the sorted column; of the three chips of risk none shows a learner another shows,
\* at their boundaries too; and nobody left off the call list is at a higher risk.
RosterIsListed ==
  On("console") =>
    /\ Len(filtered) = Cardinality({x \in Seqs!ToSet(students) : Passes(s.filter, x) /\ Matches(x)})
    /\ \A i \in 1 .. Len(filtered) - 1 :
         LET a == Learners[filtered[i]][s.sort.key]
             b == Learners[filtered[i + 1]][s.sort.key]
         IN IF s.sort.dir = "asc" THEN a <= b ELSE a >= b
    /\ \A x \in Seqs!ToSet(students) : Cardinality({f \in {"severe", "high", "thriving"} : Passes(f, x)}) <= 1
    /\ \A x \in Seqs!ToSet(topRisk), y \in Seqs!ToSet(students) \ Seqs!ToSet(topRisk) : Learners[x].risk >= Learners[y].risk

\* DISC-56: at rest the students listed are those of the text in the search, and a
\* board's list is never shown with an error or a skeleton beside it.
ListsAreOfTheSearch ==
  /\ On("directory") /\ s.timer = NoTimer => ListedStudents \subseteq {Trim(s.search)}
  /\ On("board") => Cardinality(ConfusionView \cup AtRiskView) <= 1

\* A run and a resolution that were answered show once the page is at rest: what was
\* read before them gives way to a reading that follows.
ChangesShow ==
  /\ On("drilldown") /\ s.read = "no" /\ ~s.failed => s.timeline >= s.owed
  /\ On("triage") /\ s.read = "no" /\ ~s.failed => s.owed \subseteq s.items
=============================================================================
