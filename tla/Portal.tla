------------------------------- MODULE Portal -------------------------------
(***************************************************************************)
(* The front end around the chat area: the chat page, or any other screen  *)
(* mounted on its own.                                                     *)
(***************************************************************************)
EXTENDS ChatPage, ChatComposer, AuthSession, PlacementQuiz, Practice, Interviews,
        Readiness, Career, Studio, Learning, ChatRows, Lessons, Admin

ScreenInit ==
  \/ ComposerInit(s) \/ ChatQuizInit(s) \/ AuthInit(s) \/ RegisterInit(s) \/ PlacementInit(s) \/ PracticeInit(s)
  \/ ExerciseInit(s) \/ InterviewInit(s) \/ MockInit(s) \/ DiagnosisInit(s) \/ IntakeInit(s)
  \/ ResumeInit(s) \/ QuestionsInit(s) \/ DecoderInit(s) \/ JdMatchInit(s)
  \/ KitInit(s) \/ JdFitInit(s) \/ BankInit(s) \/ StoriesInit(s)
  \/ StudioInit(s) \/ RailInit(s) \/ PanelsInit(s) \/ CapstoneInit(s) \/ CatalogInit(s) \/ CourseInit(s)
  \/ TodayInit(s) \/ GoalInit(s) \/ PathInit(s) \/ PromotionInit(s)
  \/ SidebarInit(s) \/ ReplyInit(s) \/ LessonInit(s) \/ MaterialsInit(s) \/ ReceiptsInit(s)
  \/ AutopsyInit(s) \/ ProblemsInit(s) \/ ConsoleInit(s) \/ DirectoryInit(s)
  \/ DrilldownInit(s) \/ CourseEditInit(s) \/ BoardInit(s) \/ TriageInit(s)

ScreenNext ==
  \/ ComposerNext \/ ChatQuizNext \/ AuthNext \/ RegisterNext \/ PlacementNext \/ PracticeNext
  \/ ExerciseNext \/ InterviewNext \/ MockNext \/ DiagnosisNext \/ IntakeNext
  \/ ResumeNext \/ QuestionsNext \/ DecoderNext \/ JdMatchNext
  \/ KitNext \/ JdFitNext \/ BankNext \/ StoriesNext
  \/ StudioNext \/ RailNext \/ PanelsNext \/ CapstoneNext \/ CatalogNext \/ CourseNext
  \/ TodayNext \/ GoalNext \/ PathNext \/ PromotionNext
  \/ SidebarNext \/ ReplyNext \/ LessonNext \/ MaterialsNext \/ ReceiptsNext
  \/ AutopsyNext \/ ProblemsNext \/ ConsoleNext \/ DirectoryNext
  \/ DrilldownNext \/ CourseEditNext \/ BoardNext \/ TriageNext

\* On the chat page transitions commit, effects run, and every request is answered.
PageFairness ==
  /\ WF_pageVars(On("chat") /\ UrlCommits) /\ WF_pageVars(On("chat") /\ SyncWithUrl)
  /\ WF_pageVars(On("chat") /\ Answered)

ScreenFairness ==
  /\ ComposerFairness /\ ChatQuizFairness /\ AuthFairness /\ RegisterFairness /\ PlacementFairness /\ PracticeFairness
  /\ ExerciseFairness /\ InterviewFairness /\ MockFairness /\ DiagnosisFairness /\ IntakeFairness
  /\ ResumeFairness /\ QuestionsFairness /\ DecoderFairness /\ JdMatchFairness
  /\ KitFairness /\ JdFitFairness /\ BankFairness /\ StoriesFairness
  /\ StudioFairness /\ RailFairness /\ PanelsFairness /\ CapstoneFairness /\ CatalogFairness /\ CourseFairness
  /\ TodayFairness /\ GoalFairness /\ PromotionFairness
  /\ SidebarFairness /\ ReplyFairness /\ LessonFairness /\ MaterialsFairness /\ ReceiptsFairness
  /\ AutopsyFairness /\ ProblemsFairness /\ ConsoleFairness /\ DirectoryFairness
  /\ DrilldownFairness /\ CourseEditFairness /\ BoardFairness /\ TriageFairness

PortalInit ==
  /\ PageInit
  /\ \/ s = [screen |-> "chat"]
     \/ url = None /\ lastViewed = None /\ ScreenInit

\* A screen stays mounted; what follows when it is left is not about it any more.
PortalNext ==
  \/ On("chat") /\ PageNext /\ UNCHANGED s
  \/ ScreenNext /\ s'.screen = s.screen /\ UNCHANGED pageVars

PortalSpec == PortalInit /\ [][PortalNext]_<<s, pageVars>> /\ PageFairness /\ ScreenFairness

(***************************************************************************)
(* Properties of the screens together; each part is stated, with the code  *)
(* it is about, in the module of its screen.                               *)
(***************************************************************************)
ScreenBusy ==
  CASE On("composer") -> ComposerBusy [] On("chatQuiz") -> ChatQuizBusy
    [] On("practice") -> PracticeBusy
    [] On("exercise") -> ExerciseBusy [] On("placement") -> PlacementBusy
    [] On("interview") -> InterviewBusy [] On("mock") -> MockBusy
    [] On("diagnosis") -> DiagnosisBusy [] On("tailor") -> IntakeBusy
    [] On("decoder") -> DecoderBusy [] On("resume") -> ResumeBusy
    [] On("questions") -> QuestionsBusy
    [] On("jdMatch") -> JdMatchBusy [] On("kit") -> KitBusy
    [] On("jdFit") -> JdFitBusy [] On("bank") -> BankBusy
    [] On("stories") -> StoriesBusy [] On("studio") -> StudioBusy
    [] On("panels") -> PanelsBusy
    [] On("rail") -> RailBusy [] On("capstone") -> CapstoneBusy
    [] On("catalog") -> CatalogBusy [] On("course") -> CourseBusy
    [] On("today") -> TodayBusy [] On("goal") -> GoalBusy
    [] On("promotion") -> PromotionBusy
    [] On("sidebar") -> SidebarBusy [] On("reply") -> ReplyBusy
    [] On("lesson") -> LessonBusy [] On("materials") -> MaterialsBusy
    [] On("receipts") -> ReceiptsBusy [] On("autopsy") -> AutopsyBusy
    [] On("problems") -> ProblemsBusy [] On("console") -> ConsoleBusy
    [] On("directory") -> DirectoryBusy [] On("drilldown") -> DrilldownBusy
    [] On("courseEdit") -> CourseEditBusy [] On("board") -> BoardBusy
    [] On("triage") -> TriageBusy [] On("register") -> RegisterBusy
    [] OTHER -> FALSE

\* Every screen comes to rest: no spinner, lock, disabled button, pending request or
\* running timer outlives the answers of the server, whichever of them fail and
\* whatever the student does meanwhile.
ScreensSettle == PageSettles /\ AuthSettles /\ []<>(~ScreenBusy)

\* Impatient clicks and overlapping answers never do a thing twice: no file rides on
\* two turns, no two interview streams run, no diagnosis is checked again, no badge
\* announced again, no second checkout opened, no due card graded twice, no title
\* sent twice.
NothingTwice ==
  /\ AttachmentsRideOnce /\ OneInterviewStream /\ CompletionCheckedOnce /\ BadgesOnce
  /\ OneCheckoutAtATime /\ CardGradedOnce /\ RenamedOnce

\* A late answer never shows under something else than it was asked for: evaluations of
\* interview answers in a room, replies of the diagnosis, analyses of a job description,
\* the preview of a tailored resume, the rating of a reply, the completion of a lesson,
\* the lists an admin searches and what they changed. Two screens do not tell the
\* answers of now from those of before, and are only held to this while none is out when
\* the next submission, or the next session of the interview bank, begins.
AnswersBelong ==
  /\ VerdictsBelong /\ EvaluationsUnderTheirAnswer /\ EvaluationsOfTheSession
  /\ AgentAnswersItsTurn /\ FitIsOfTheItem /\ PreviewWasAwaited
  /\ RatingIsStored /\ CompletionIsStored /\ ListsAreOfTheSearch /\ ChangesShow

\* What is shown as stored is stored: the code in an editor that calls it saved, the
\* skills in the panel while it is mounted, the stories the student was told of, and the
\* draft a reload of the goal form would find. It does not say that what is typed is
\* kept: TypedCodeIsSaved does, and is false.
ShownIsStored == EditorIsSaved /\ SkillsAreKept /\ StoriesAreListed /\ DraftIsTheForm


\* Nothing comes before its time or after it: recommendations, timers of the quiz and
\* of the takeover, solutions, the reveal of a review, the labs of a lesson, requests
\* that wait for a refresh, context attached over the cap, an open letter left unread, the
\* landing of a new account.
NothingOutOfTurn ==
  /\ RecommendsOnAllAnswers /\ QuizTimersAreCurrent /\ SolutionNeverRefused
  /\ WaitsForOneRefresh /\ RevealsInOrder /\ LabsOpenInOrder /\ SoundsInTheTakeover
  /\ RefsWithinTheCap /\ OpenLetterIsMarked /\ NewAccountOnboards
=============================================================================
