--------------------------- MODULE PortalInvariant ---------------------------
(***************************************************************************)
(* Inductive invariants of the chat page and of the screens of Portal.     *)
(* An invariant of a screen is about the record s while that screen is     *)
(* mounted. It has the property of the screen and what the property        *)
(* needs; of the fields that play no part in it, nothing is said.          *)
(***************************************************************************)
EXTENDS Portal

(***************************************************************************)
(* The chat page.                                                          *)
(***************************************************************************)
\* What the page may have heard of: a stream that opens a conversation tells it a new id.
KnownConvs == Stored \cup born \cup {None}

KnownIds ==
  /\ born \subseteq Fresh /\ {activeConv, url, lastViewed} \subseteq KnownConvs
  /\ urlNext \in KnownConvs \cup {Keep} /\ \A o \in BagToSet(opening) : o.id \in KnownConvs
  /\ area \in [key : Nat, conv : KnownConvs]

\* While the transcript is of another conversation than the page, a conversation is being
\* opened, or the URL is that of another one and the effect that compares them is due.
WillShowTheActive ==
  activeConv \notin {None, area.conv} =>
    BagToSet(opening) # {} \/ (effectDue /\ url # activeConv)

\* The last list that was asked for is the one of the filter.
LastListing ==
  /\ filter \in {"live", "all"} /\ listing \in Seq({"live", "all", "answered"}) /\ listing # << >>
  /\ listing[Len(listing)] = filter \/ (listing[Len(listing)] = "answered" /\ listed = filter)

PageInv == KnownIds /\ WillShowTheActive /\ LastListing

(***************************************************************************)
(* The composer.                                                           *)
(***************************************************************************)
ComposerFields == {"value", "files", "uploads", "picked", "refs", "sent"}

\* The loops take the files that were picked in order, each its own; what is attached
\* has left its loop.
Loops == [next : Nat, last : Nat, extras : BOOLEAN]
UploadsOk(picked, files, uploads) ==
  /\ picked \in Nat /\ files \subseteq 1 .. picked /\ uploads \in Seq(Loops)
  /\ \A u \in DOMAIN uploads :
       /\ 0 < uploads[u].next /\ uploads[u].last <= picked
       /\ \A v \in DOMAIN uploads : u < v => uploads[u].last < uploads[v].next
       /\ \A f \in files : f < uploads[u].next \/ uploads[u].last < f

\* What rode on a turn is neither attached any more nor to be uploaded.
RodeOk(picked, files, uploads, sent) ==
  \A i \in DOMAIN sent :
    /\ UploadsOk(picked, sent[i].files, uploads) /\ sent[i].files \cap files = {}
    /\ \A j \in DOMAIN sent : i # j => sent[i].files \cap sent[j].files = {}

SentTurns == [text : {"empty", "prose", "slash"}, files : SUBSET Nat, refs : SUBSET ContextRefs]
RefsOk(refs) == IsFiniteSet(refs) /\ Cardinality(refs) <= RefCap

ComposerInv ==
  /\ ComposerFields \subseteq DOMAIN s
  /\ UploadsOk(s.picked, s.files, s.uploads) /\ RodeOk(s.picked, s.files, s.uploads, s.sent)
  /\ s.sent \in Seq(SentTurns)
  /\ s.value \in {"empty", "prose", "slash"} /\ s.refs \subseteq ContextRefs
  /\ RefsOk(s.refs) /\ \A i \in DOMAIN s.sent : RefsOk(s.sent[i].refs)

(***************************************************************************)
(* The other screens of which something is done once.                      *)
(***************************************************************************)
\* The page streams exactly while it has asked for a turn that is not answered, and
\* a turn has words of its own stream alone.
Turns == [stream : Nat, got : SUBSET Nat, done : BOOLEAN]
InterviewInv ==
  /\ {"streams", "streaming", "turns", "count"} \subseteq DOMAIN s
  /\ s.turns \in Seq(Turns) /\ s.count \in Nat /\ \A i \in DOMAIN s.turns : s.turns[i].got \subseteq {s.turns[i].stream}
  /\ \/ s.streaming = TRUE /\ \E r \in s.streams : s.streams = {r}
     \/ s.streaming = FALSE /\ s.streams = {}

\* What was checked is remembered, for as long as the page is mounted.
CheckedOnce(checks, checked) ==
  /\ DOMAIN checks = 1 .. MaxSessions
  /\ \A d \in DOMAIN checks : checks[d] = IF d \in checked THEN 1 ELSE 0
DiagnosisInv == {"checks", "checked"} \subseteq DOMAIN s /\ CheckedOnce(s.checks, s.checked)

\* What was announced is remembered; the request under way is the last.
RailInv ==
  /\ {"announced", "earned", "request", "asked", "review"} \subseteq DOMAIN s
  /\ DOMAIN s.announced = BADGES
  /\ \A b \in BADGES : s.announced[b] = IF b \in s.earned THEN 1 ELSE 0
  /\ s.asked \in {0, s.request} /\ s.review \in {0, s.request}

\* The button is disabled while a checkout is on its way.
CatalogInv ==
  /\ {"checkouts", "loading"} \subseteq DOMAIN s
  /\ \/ s.loading \in BOOLEAN /\ s.checkouts = <<>>
     \/ s.loading = TRUE /\ s.checkouts = <<Head(s.checkouts)>>

\* Until the due cards have been read, nothing is graded.  From then on the list only
\* loses cards, which moves no card back, and those graded are behind the index.
Distinct(cards) == \A i, j \in DOMAIN cards : cards[i] = cards[j] => i = j
NoneMovedBack(stored, due) ==
  \A i \in DOMAIN stored : \E j \in DOMAIN due : i <= j /\ due[j] = stored[i]
BehindTheIndex(graded, due, index) ==
  \A g \in DOMAIN graded, j \in DOMAIN due : due[j] = graded[g] => j <= index

Cards == Nat \ {0}
TodayInv ==
  /\ {"stored", "dueCards", "graded", "cardIndex", "reviews"} \subseteq DOMAIN s
  /\ s.stored \in Seq(Cards) /\ s.dueCards \in Seq(Cards) /\ s.graded \in Seq(Cards)
  /\ s.cardIndex \in Nat
  /\ Distinct(s.stored) /\ Distinct(s.dueCards) /\ Distinct(s.graded)
  /\ (s.dueCards = <<>> /\ s.graded = <<>>) \/ NoneMovedBack(s.stored, s.dueCards)
  /\ BehindTheIndex(s.graded, s.dueCards, s.cardIndex)

\* A title that is being edited has yet to be sent.
SidebarInv ==
  /\ {"renames", "editors", "editing"} \subseteq DOMAIN s
  /\ s.renames \in Nat /\ s.editors \in Nat
  /\ s.renames + (IF s.editing = NoRow THEN 0 ELSE 1) <= s.editors

(***************************************************************************)
(* The screens on which something has its turn.                            *)
(***************************************************************************)
\* Who answered everything may see the result; a timer is of what is on screen.
PlacementInv ==
  /\ {"stage", "step", "answers", "advance", "pending", "loading", "checkout", "left"} \subseteq DOMAIN s
  /\ s.stage \in {"intro", "question", "loading", "result"}
  /\ s.step \in 1 .. Total /\ s.answers \in [1 .. Total -> Options \cup {0}]
  /\ s.stage \in {"loading", "result"} => isComplete(s.answers)
  /\ \/ s.advance = 0
     \/ s.advance = s.step /\ s.pending = s.answers /\ s.stage = "question" /\ s.left = "no"
  /\ s.loading \in BOOLEAN /\ (s.loading <=> s.stage = "loading" /\ s.left = "no")
  /\ s.checkout \in {"none", "analyst", "scientist", "ml", "genai"}

\* What the history says was graded is graded so, and stays so.
Grades(graded) == {[id |-> i, status |-> graded[i]] : i \in DOMAIN graded}
ExerciseInv ==
  /\ {"graded", "history", "solution", "refused"} \subseteq DOMAIN s
  /\ s.graded \in Seq({"pending", "passed", "failed"}) /\ s.refused = FALSE
  /\ \A h \in s.history : h.status = "pending" \/ h \in Grades(s.graded)
  /\ s.solution = "asked" => Unlocks(Grades(s.graded))

\* Tokens are of an account, and who waits for a refresh waits for one under way.
IsToken(tok) == tok = Nobody \/ ("account" \in DOMAIN tok /\ tok.account \in Accounts)
TokensOk(st) ==
  /\ {"store", "disk", "calls", "refresh"} \subseteq DOMAIN st
  /\ "tok" \in DOMAIN st.store /\ IsToken(st.store.tok)
  /\ "tok" \in DOMAIN st.disk /\ IsToken(st.disk.tok)
  /\ DOMAIN st.calls = 1 .. 2 /\ \A c \in 1 .. 2 : "st" \in DOMAIN st.calls[c]
  /\ st.refresh \in Accounts \cup {Nobody}
  /\ st.refresh = Nobody => \A c \in 1 .. 2 : st.calls[c].st # "waiting"
AuthInv == TokensOk(s)

\* The form asks for the onboarding last, and nothing rolls back a session after that.
RegisterInv ==
  /\ {"chain", "authed", "nav", "at"} \subseteq DOMAIN s
  /\ s.chain \in {"me", "done"} => s.authed = TRUE
  /\ s.chain = "done" => s.nav = "onboarding" \/ (s.nav = "none" /\ s.at = "onboarding")

CapstoneInv ==
  /\ {"revealed", "timers"} \subseteq DOMAIN s
  /\ s.revealed \in 0 .. 3 /\ (s.timers = {} \/ s.timers = (s.revealed + 1) .. 3)

PathInv == {"progress", "landed"} \subseteq DOMAIN s /\ s.progress \in Seq(BOOLEAN)

PromotionInv ==
  /\ {"sounds", "takeoverOpen"} \subseteq DOMAIN s
  /\ s.sounds \in Nat /\ (s.sounds > 0 => s.takeoverOpen)

ReceiptsInv ==
  /\ {"card", "expanded", "letter", "autoRead", "asked"} \subseteq DOMAIN s
  /\ s.asked \in Nat /\ s.expanded \in BOOLEAN /\ s.autoRead \in BOOLEAN
  /\ s.autoRead \/ (s.card /\ s.expanded /\ s.letter = "unread") => s.asked > 0

(***************************************************************************)
(* The screens on which answers come late.                                 *)
(***************************************************************************)
\* A status that was read of a submission is pending, or the one it was given. Unless it
\* was raced, whatever is out or on show is of the active submission.
OfItsSubmission(graded, read) ==
  read.id \in DOMAIN graded /\ read.status \in {"pending", graded[read.id]}
VerdictsInv ==
  /\ {"graded", "active", "shown", "polls", "submitting", "raced"} \subseteq DOMAIN s
  /\ s.graded \in Seq({"pending", "passed", "failed"}) /\ s.active \in {0} \cup DOMAIN s.graded
  /\ \A p \in s.polls : OfItsSubmission(s.graded, p)
  /\ s.shown.status # "none" => OfItsSubmission(s.graded, s.shown)
  /\ ~s.raced => /\ \A p \in s.polls : p.id = s.active
                 /\ s.shown.status # "none" => s.shown.id = s.active

\* What is on show is the answer to what was asked last, once that is answered.
WorkspaceInv ==
  /\ {"running", "runError", "runResult", "ran", "reviewing", "reviewError", "review", "asked"} \subseteq DOMAIN s
  /\ ~s.running /\ ~s.runError => s.runResult = s.ran
  /\ ~s.reviewing /\ ~s.reviewError => s.review = s.asked

\* An answer that is evaluated is the last bubble.
Bubbles == [role : {"candidate", "interviewer"}, of : Nat]
Under(list, asker, answerer) ==
  \A i \in DOMAIN list : list[i].role = answerer /\ list[i].of # 0 =>
    i > 1 /\ list[i - 1] = [role |-> asker, of |-> list[i].of]
RoomInv ==
  /\ "room" \in DOMAIN s /\ {"bubbles", "answering", "answered"} \subseteq DOMAIN s.room
  /\ s.room.bubbles \in Seq(Bubbles) /\ s.room.answered \in Nat
  /\ s.room.answering # 0 =>
       /\ s.room.bubbles # <<>>
       /\ s.room.bubbles[Len(s.room.bubbles)] = [role |-> "candidate", of |-> s.room.answering]
  /\ Under(s.room.bubbles, "candidate", "interviewer")
  /\ \A i \in DOMAIN s.room.bubbles : s.room.bubbles[i].of # 0

\* While the agent thinks, the turn it thinks about is the last message: nothing is
\* decoded meanwhile and no session starts.
Messages == [role : {"student", "agent"}, of : Nat]
TalkInv ==
  /\ {"messages", "turns", "thinking", "decoder", "decoding", "starting", "session"} \subseteq DOMAIN s
  /\ s.messages \in Seq(Messages) /\ s.turns \in Nat
  /\ s.starting => s.session = 0
  /\ s.decoding => s.decoder
  /\ s.thinking =>
       /\ s.session # 0 /\ ~s.decoder /\ s.messages # <<>>
       /\ s.messages[Len(s.messages)] = [role |-> "student", of |-> s.turns]
  /\ Under(s.messages, "student", "agent")

\* Unless it began with an answer of another one out, a session of the interview bank
\* awaits and shows the evaluations of its own answers.
BankInv ==
  /\ {"session", "submitting", "evaluated", "of", "crossed"} \subseteq DOMAIN s
  /\ s.session # 0 /\ ~s.crossed =>
       s.submitting \in {0, s.session} /\ (s.evaluated > 0 => s.of = s.session)

\* What is awaited of a description is awaited of the item on screen.
JdFitInv ==
  /\ {"fit", "plan", "item"} \subseteq DOMAIN s
  /\ \A m \in {s.fit, s.plan} :
       {"pending", "of", "data"} \subseteq DOMAIN m /\ (m.pending \/ m.data => m.of = s.item)

\* A description is read while the modal is at its first step.
IntakeInv ==
  /\ {"open", "modal", "reading", "generating"} \subseteq DOMAIN s /\ "step" \in DOMAIN s.modal
  /\ s.reading # 0 => s.modal.step = "jd"
  /\ s.generating # 0 => Step("generating")

\* Until its controls are mounted again or an answer is lost, a reply has one rating on
\* its way at most, and none but that one can tell the thumb from the server.
ReplyInv ==
  /\ {"mount", "row", "ratings", "rating", "stored", "submitting", "lost"} \subseteq DOMAIN s
  /\ s.mount \in Nat \ {0}
  /\ s.mount = 1 /\ ~s.lost =>
       /\ s.row = 1
       /\ \/ s.submitting = FALSE /\ s.ratings = <<>> /\ s.rating = s.stored
          \/ /\ s.submitting = TRUE
             /\ \E r \in {"up", "down"}, served \in BOOLEAN :
                  /\ s.ratings = <<[rating |-> r, mount |-> 1, row |-> 1, served |-> served]>>
                  /\ s.stored = IF served THEN r ELSE s.rating

\* Unless two requests crossed or an answer was lost, what the page was told last is
\* what is stored, or a request that was served is about to tell it.
Known(told, stored) == (told = "done" => stored) /\ (told = "todo" => ~stored)
LessonInv ==
  /\ {"stored", "read", "progress", "completed", "completing", "uncompleting", "lost", "crossed"} \subseteq DOMAIN s
  /\ s.stored \in BOOLEAN /\ s.completed \in {"unset", "yes", "no"}
  /\ s.progress \in {"unknown", "done", "todo"} /\ s.read \in {"no", "sent", "done", "todo"}
  /\ {s.completing, s.uncompleting} \subseteq {"no", "sent", "served"}
  /\ ~s.lost /\ ~s.crossed =>
       /\ "no" \in {s.completing, s.uncompleting}
       /\ s.completing = "served" => s.stored
       /\ s.uncompleting = "served" => ~s.stored
       /\ "served" \notin {s.completing, s.uncompleting} =>
            IF s.completed = "unset" THEN Known(s.read, s.stored) /\ Known(s.progress, s.stored)
            ELSE s.completed = IF s.stored THEN "yes" ELSE "no"

\* A pause in the typing makes the text in the search the one that is listed.
DirectoryInv ==
  /\ {"search", "timer", "debounced", "lists"} \subseteq DOMAIN s
  /\ s.search = IF s.timer = NoTimer THEN s.debounced ELSE s.timer

\* The first reading of a tab is not both under way and failed.
Queries == [data : {"none", "empty", "some"}, error : BOOLEAN, fetching : BOOLEAN]
BoardInv ==
  /\ {"page", "tab", "queries"} \subseteq DOMAIN s
  /\ s.page \in {"confusion", "atRisk"} /\ s.tab \in Tabs /\ s.queries \in [Tabs -> Queries]
  /\ \A tab \in Tabs : s.queries[tab].data = "none" => ~(s.queries[tab].error /\ s.queries[tab].fetching)

\* What is owed to the page is in the answer that is on its way, or on screen.
DrilldownInv ==
  /\ {"runs", "timeline", "read", "seen", "failed", "triggered", "owed"} \subseteq DOMAIN s
  /\ {s.runs, s.timeline, s.seen, s.owed} \subseteq Nat /\ s.owed <= s.runs
  /\ s.read = "served" => s.seen >= s.owed
  /\ s.read = "no" /\ ~s.failed => s.timeline >= s.owed
TriageInv ==
  /\ {"resolved", "items", "known", "read", "seen", "failed", "pending", "owed"} \subseteq DOMAIN s
  /\ DOMAIN s.pending = Feedback
  /\ \A i \in Feedback : /\ s.pending[i] # "no" => s.known
                         /\ s.pending[i] = "served" => i \in s.resolved
  /\ s.owed \subseteq s.resolved
  /\ s.read = "served" => s.owed \subseteq s.seen
  /\ s.read = "no" /\ ~s.failed => s.owed \subseteq s.items

(***************************************************************************)
(* The screens on which something is kept.                                 *)
(***************************************************************************)
\* While the editor is shown, it shows what is to be saved, or what was; the diff
\* leaves nothing to be saved or formatted behind it.
StudioInv ==
  /\ {"acts", "editor", "saved", "saveDue", "formatting", "showDiff"} \subseteq DOMAIN s
  /\ {s.acts, s.saved, s.saveDue, s.formatting} \subseteq Nat /\ s.editor \in Nat \ {NoCode}
  /\ s.showDiff \in BOOLEAN
  /\ s.showDiff => s.saveDue = NoCode /\ s.formatting = NoCode
  /\ ~s.showDiff =>
       s.editor = IF s.saveDue # NoCode THEN s.saveDue ELSE IF s.saved # NoCode THEN s.saved ELSE DEFAULT_CODE

\* The tree of the panel that is mounted is the one that is kept.
PanelsInv ==
  /\ {"bottomTab", "collapsed", "stored", "practicedIds", "newlyUnlocked"} \subseteq DOMAIN s
  /\ Panel("skills") => s.practicedIds = s.stored /\ s.newlyUnlocked \subseteq s.stored

\* What the list owes is in the store, and in the answer that is on its way or on screen.
StoriesInv ==
  /\ {"made", "stored", "listed", "known", "read", "seen", "failed", "owed", "gone", "creating", "deletion", "deleting"}
       \subseteq DOMAIN s
  /\ s.made \in Nat /\ s.stored \cup s.gone \subseteq 1 .. s.made
  /\ s.owed \subseteq s.stored /\ s.gone \cap s.stored = {}
  /\ s.deletion = "served" => s.deleting \in (1 .. s.made) \ s.stored
  /\ s.read = "served" => s.owed \subseteq s.seen /\ s.gone \cap s.seen = {}
  /\ s.read = "no" /\ ~s.failed => s.owed \subseteq s.listed /\ s.gone \cap s.listed = {}

\* A goal that was stored is being edited from then on, and has no draft.
GoalFields == {"at", "editing", "draft", "step", "motivation", "deadline", "statement"}
GoalInv ==
  /\ GoalFields \subseteq DOMAIN s
  /\ s.editing \in BOOLEAN
  /\ IF s.at = "form" THEN s.editing \/ s.draft = Form(s) ELSE s.editing /\ s.draft = NoDraft

\* Whichever screen is mounted, its invariant holds; the page's holds all the time.
PortalInv ==
  /\ PageInv
  /\ On("composer") => ComposerInv
  /\ On("interview") => InterviewInv
  /\ On("diagnosis") => DiagnosisInv /\ TalkInv
  /\ On("rail") => RailInv
  /\ On("catalog") => CatalogInv
  /\ On("today") => TodayInv
  /\ On("sidebar") => SidebarInv
  /\ On("placement") => PlacementInv
  /\ On("exercise") => ExerciseInv /\ VerdictsInv
  /\ On("account") => AuthInv
  /\ On("register") => RegisterInv
  /\ On("capstone") => CapstoneInv
  /\ On("path") => PathInv
  /\ On("promotion") => PromotionInv
  /\ On("receipts") => ReceiptsInv
  /\ On("practice") => VerdictsInv /\ WorkspaceInv
  /\ On("mock") => RoomInv
  /\ On("bank") => BankInv
  /\ On("jdFit") => JdFitInv
  /\ On("tailor") => IntakeInv
  /\ On("reply") => ReplyInv
  /\ On("lesson") => LessonInv
  /\ On("directory") => DirectoryInv
  /\ On("board") => BoardInv
  /\ On("drilldown") => DrilldownInv
  /\ On("triage") => TriageInv
  /\ On("studio") => StudioInv
  /\ On("panels") => PanelsInv
  /\ On("stories") => StoriesInv
  /\ On("goal") => GoalInv
=============================================================================
