---------------------------- MODULE ChatComposer ----------------------------
(***************************************************************************)
(* The composer of the chat page (InputBar and the handlers of ChatArea    *)
(* behind it): text and slash commands, attachments that upload as soon as *)
(* they are picked, context references, and the turns it hands on.         *)
(***************************************************************************)
EXTENDS Screen

CONSTANTS
  AttachmentCap,   \* MAX_ATTACHMENTS_PER_MESSAGE
  RefCap,          \* MAX_CONTEXT_REFS
  ContextRefs,     \* what the picker suggests
  MaxFiles,        \* files picked, at most
  MaxTurns         \* turns sent, at most

CONSTANT Commands  \* the slash commands that start with what was typed

ASSUME ComposerAssumption == AttachmentCap \in Nat /\ RefCap \in Nat

ComposerInit(sc) ==
  sc = [screen |-> "composer", acts |-> 0, value |-> "empty", menu |-> FALSE, highlight |-> 0,
        picker |-> "closed", streaming |-> FALSE, files |-> {}, uploads |-> <<>>, picked |-> 0,
        uploadError |-> FALSE, refs |-> {}, mode |-> "auto", sent |-> <<>>, dialog |-> FALSE]

(***************************************************************************)
(* The text area.                                                          *)
(***************************************************************************)
Step1(st) == [st EXCEPT !.acts = @ + 1]
slashVisible(value) == IF value = "slash" THEN Commands ELSE <<>>

\* Typing opens or closes the menu in the effect on the filter.
Types(v) ==
  /\ Acts /\ ~s.streaming /\ v # s.value
  /\ Set([Step1(s) EXCEPT !.value = v, !.menu = (v = "slash"),
                          !.highlight = IF v = "slash" THEN 0 ELSE @])

Executed(st, entry) ==
  LET done == [st EXCEPT !.value = "empty", !.menu = FALSE, !.highlight = 0]
  IN CASE entry = "mode" -> [done EXCEPT !.mode = "tutor"]
       [] entry = "attach" -> [done EXCEPT !.picker = "loading"]
       [] entry = "new" -> [done EXCEPT !.dialog = TRUE]
       [] OTHER -> done

executeSlashCommand ==
  /\ Acts /\ s.menu /\ s.value = "slash"
  /\ \E i \in DOMAIN Commands : Set(Executed(Step1(s), Commands[i]))

Sent(st) ==
  [st EXCEPT !.sent = Append(@, [text |-> st.value, files |-> st.files, refs |-> st.refs]),
             !.value = "empty", !.files = {}, !.refs = {}, !.uploadError = FALSE,
             !.menu = FALSE, !.streaming = TRUE]

CanSend == s.value # "empty" /\ ~s.streaming /\ Len(s.sent) < MaxTurns

\* Enter: the highlighted command, nothing while a command is typed, else the turn.
handleKeyDown(key) ==
  /\ Acts
  /\ LET st == Step1(s)
         n == Len(slashVisible(s.value))
     IN CASE key = "down" /\ n > 0 ->
               Set([st EXCEPT !.menu = TRUE, !.highlight = (@ + 1) % n])
          [] key = "escape" -> Set([st EXCEPT !.menu = FALSE, !.streaming = IF n > 0 THEN @ ELSE FALSE])
          [] key = "enter" /\ s.menu /\ n > 0 -> Set(Executed(st, Commands[s.highlight + 1]))
          [] key = "enter" /\ n = 0 /\ CanSend -> Set(Sent(st))
          [] OTHER -> FALSE

\* The button sends whatever was typed, and stops a stream.
handleSend == Acts /\ CanSend /\ Set(Sent(Step1(s)))
Stop == Acts /\ s.streaming /\ Set([Step1(s) EXCEPT !.streaming = FALSE])

TurnEnds == s.streaming /\ Set([s EXCEPT !.streaming = FALSE])

\* The error banner's retry sends the text alone.
Retried ==
  /\ Acts /\ ~s.streaming /\ s.sent # <<>> /\ Len(s.sent) < MaxTurns
  /\ Set([Step1(s) EXCEPT !.streaming = TRUE,
            !.sent = Append(@, [text |-> @[Len(@)].text, files |-> {}, refs |-> {}])])

(***************************************************************************)
(* Attachments: one loop per pick, paste or drop, that uploads its files   *)
(* one after the other; the room left was read when it started.            *)
(***************************************************************************)
handleUploadFiles(n) ==
  /\ Acts /\ s.picked + n <= MaxFiles
  /\ LET room == IF Cardinality(s.files) >= AttachmentCap THEN 0
                 ELSE AttachmentCap - Cardinality(s.files)
         slice == IF n < room THEN n ELSE room
     IN Set([Step1(s) EXCEPT !.uploadError = (room = 0), !.picked = @ + n,
               !.uploads = IF room = 0 THEN @ ELSE
                 Append(@, [next |-> s.picked + 1, last |-> s.picked + slice, extras |-> slice < n])])

Uploading(u) == u \in DOMAIN s.uploads /\ s.uploads[u].next <= s.uploads[u].last
Advance(st, u) ==
  [st EXCEPT !.uploads[u].next = @ + 1,
             !.uploadError = @ \/ (st.uploads[u].next = st.uploads[u].last /\ st.uploads[u].extras)]

UploadLands(u) ==
  Uploading(u) /\ Set([Advance(s, u) EXCEPT !.files = @ \cup {s.uploads[u].next}])

UploadFails(u) ==
  Uploading(u) /\ Set([Advance(s, u) EXCEPT !.uploadError = TRUE])

handleRemoveAttachment(f) ==
  Acts /\ f \in s.files /\ Set([Step1(s) EXCEPT !.files = @ \ {f}])

(***************************************************************************)
(* Context references.                                                     *)
(***************************************************************************)
OpenPicker ==
  /\ Acts /\ ~s.streaming /\ s.picker = "closed" /\ Cardinality(s.refs) < RefCap
  /\ Set([Step1(s) EXCEPT !.picker = "loading"])

SuggestionsLand == s.picker = "loading" /\ Set([s EXCEPT !.picker = "open"])
SuggestionsFail == s.picker = "loading" /\ Set([s EXCEPT !.picker = "error"])
ClosePicker == Acts /\ s.picker # "closed" /\ Set([Step1(s) EXCEPT !.picker = "closed"])

handleAddContextRef(r) ==
  /\ Acts /\ s.picker = "open" /\ r \notin s.refs
  /\ Set([Step1(s) EXCEPT !.picker = "closed",
            !.refs = IF Cardinality(@) >= RefCap THEN @ ELSE @ \cup {r}])

handleRemoveContextRef(r) ==
  Acts /\ r \in s.refs /\ Set([Step1(s) EXCEPT !.refs = @ \ {r}])

ComposerClicks ==
  \/ \E v \in {"empty", "prose", "slash"} : Types(v)
  \/ \E key \in {"down", "escape", "enter"} : handleKeyDown(key)
  \/ executeSlashCommand \/ handleSend \/ Stop \/ Retried
  \/ \E n \in 1..MaxFiles : handleUploadFiles(n)
  \/ \E f \in s.files : handleRemoveAttachment(f)
  \/ OpenPicker \/ ClosePicker
  \/ \E r \in ContextRefs : handleAddContextRef(r) \/ handleRemoveContextRef(r)

ComposerAnswers ==
  \/ TurnEnds \/ SuggestionsLand \/ SuggestionsFail
  \/ \E u \in DOMAIN s.uploads : UploadLands(u) \/ UploadFails(u)

ComposerBusy ==
  s.streaming \/ s.picker = "loading" \/ \E u \in DOMAIN s.uploads : Uploading(u)

ComposerNext == On("composer") /\ (ComposerClicks \/ ComposerAnswers)
ComposerFairness == WF_s(On("composer") /\ ComposerAnswers)

(***************************************************************************)
(* Properties.                                                             *)
(***************************************************************************)
\* An uploaded file rides on one turn, however many are sent while its upload
\* is under way.
AttachmentsRideOnce ==
  On("composer") =>
    \A i, j \in DOMAIN s.sent : i # j => s.sent[i].files \cap s.sent[j].files = {}

\* page.tsx, "so we never POST a payload that will 422": no turn carries more
\* context references than the backend takes.
RefsWithinTheCap ==
  On("composer") => \A i \in DOMAIN s.sent : Cardinality(s.sent[i].refs) <= RefCap

(***************************************************************************)
(* The quiz on a chat reply (handleQuizMe and QuizPanel of the chat page): *)
(* a cached quiz or a generated one, an option, a confidence, the reveal,  *)
(* and flashcards for what was missed.  The panel keeps its own copy of    *)
(* the questions and syncs it to its parent, which outlives it.            *)
(***************************************************************************)
CONSTANTS Replies, Questions, NoQuiz

Unanswered == [selected |-> "none", confidence |-> "none"]
FreshQuiz(m) == [message |-> m, questions |-> [q \in Questions |-> Unanswered]]

ChatQuizInit(sc) ==
  sc = [screen |-> "chatQuiz", acts |-> 0, panel |-> NoQuiz, asked |-> NoQuiz,
        local |-> FreshQuiz(NoQuiz).questions, pending |-> {}, cards |-> "none", made |-> {}]

\* What the mount of a panel starts from.
QuizShown(st) ==
  [st EXCEPT !.pending = {}, !.cards = "none",
             !.local = IF st.panel = NoQuiz THEN FreshQuiz(NoQuiz).questions
                       ELSE st.panel.questions]

PanelShown == s.panel # NoQuiz /\ s.asked = NoQuiz

handleQuizMe(m) ==
  /\ Acts /\ s.asked = NoQuiz
  /\ Set([s EXCEPT !.acts = @ + 1, !.asked = m])

QuizLands ==
  /\ s.asked # NoQuiz
  /\ Set(QuizShown([s EXCEPT !.panel = FreshQuiz(s.asked), !.asked = NoQuiz]))

QuizFails == s.asked # NoQuiz /\ Set(QuizShown([s EXCEPT !.asked = NoQuiz]))

ClosePanel == Acts /\ PanelShown /\ Set([s EXCEPT !.acts = @ + 1, !.panel = NoQuiz])

Revealed(q) == s.local[q].selected # "none" /\ q \notin s.pending

handleSelectOption(q, o) ==
  /\ Acts /\ PanelShown /\ ~Revealed(q) /\ s.pending \cap {q} = {}
  /\ Set([s EXCEPT !.acts = @ + 1, !.local[q].selected = o, !.pending = @ \cup {q}])

handleConfidence(q, c) ==
  /\ PanelShown /\ Acts /\ q \in s.pending
  /\ LET updated == [s.local EXCEPT ![q].confidence = c]
     IN Set([s EXCEPT !.acts = @ + 1, !.local = updated, !.pending = @ \ {q},
                      !.panel.questions = updated])

allAnswered == \A q \in Questions : Revealed(q)
Missed == {q \in Questions : Revealed(q) /\ s.local[q].selected = "wrong"}

handleAddFlashcards ==
  /\ Acts /\ PanelShown /\ allAnswered /\ Missed # {} /\ s.cards = "none"
  /\ Set([s EXCEPT !.acts = @ + 1, !.cards = "saving"])

\* One request per card; some may have been made when another one fails.
FlashcardsLand ==
  s.cards = "saving" /\ Set([s EXCEPT !.cards = "done", !.made = @ \cup Missed])
FlashcardsFail ==
  s.cards = "saving" /\ \E some \in SUBSET Missed : Set([s EXCEPT !.cards = "none", !.made = @ \cup some])

ChatQuizClicks ==
  \/ \E m \in Replies : handleQuizMe(m)
  \/ ClosePanel \/ handleAddFlashcards
  \/ \E q \in Questions : \/ \E o \in {"right", "wrong"} : handleSelectOption(q, o)
                          \/ \E c \in {"sure", "guessing"} : handleConfidence(q, c)

ChatQuizAnswers == QuizLands \/ QuizFails \/ FlashcardsLand \/ FlashcardsFail

ChatQuizBusy == s.asked # NoQuiz \/ s.cards = "saving"

ChatQuizNext == On("chatQuiz") /\ (ChatQuizClicks \/ ChatQuizAnswers)
ChatQuizFairness == WF_s(On("chatQuiz") /\ ChatQuizAnswers)
=============================================================================
