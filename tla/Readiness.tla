------------------------------ MODULE Readiness ------------------------------
(***************************************************************************)
(* The job readiness workspace: the diagnostic conversation with the JD    *)
(* decoder embedded in it, the tailored-resume modal, the demo JD match    *)
(* view, and the application kit.                                          *)
(***************************************************************************)
EXTENDS Screen

CONSTANT MaxSessions   \* diagnostic sessions on the server's record, at most

(***************************************************************************)
(* The diagnostic conversation.  The server's record of sessions is kept   *)
(* in past; listed is what the last answer to /sessions said of it.        *)
(***************************************************************************)
OnceClicked == [clicked |-> TRUE, completed |-> FALSE]
NeverClicked == [clicked |-> FALSE, completed |-> FALSE]

Mounted(past, acts) ==
  [screen |-> "diagnosis", acts |-> acts, past |-> past, listed |-> <<>>, known |-> FALSE,
   listing |-> TRUE, checked |-> {}, checks |-> [d \in 1..MaxSessions |-> 0], checking |-> {},
   starting |-> FALSE, session |-> 0, messages |-> <<>>, turns |-> 0, thinking |-> FALSE,
   decoder |-> FALSE, decoding |-> FALSE, finalizing |-> FALSE, verdict |-> FALSE,
   error |-> FALSE, abandoned |-> FALSE, drawer |-> FALSE]

DiagnosisInit(sc) == \E past \in {<<>>, <<OnceClicked>>} : sc = Mounted(past, 0)

StartClicked == [s EXCEPT !.acts = @ + 1]

StatusBadge(d) == CASE d.completed -> "Completed"
                    [] d.clicked /\ ~d.completed -> "In progress"
                    [] OTHER -> "none"

\* The sessions the effect checks when the length of the list changes.
\* Mutant: without the set of those checked before.
ChecksEveryTime(st, list) ==
  LET due == {d \in DOMAIN list : StatusBadge(list[d]) = "In progress"}
  IN [st EXCEPT !.checked = @ \cup due, !.checking = @ \cup due,
                !.checks = [d \in DOMAIN @ |-> IF d \in due THEN @[d] + 1 ELSE @[d]]]

CompletionChecks(st, list) ==
  LET due == {d \in DOMAIN list : StatusBadge(list[d]) = "In progress"} \ st.checked
  IN [st EXCEPT !.checked = @ \cup due, !.checking = @ \cup due,
                !.checks = [d \in DOMAIN @ |-> IF d \in due THEN @[d] + 1 ELSE @[d]]]

PastDiagnosesLand ==
  /\ s.listing
  /\ LET st == [s EXCEPT !.listing = FALSE, !.listed = s.past, !.known = TRUE]
     IN Set(IF Len(s.listed) # Len(s.past) \/ ~s.known THEN CompletionChecks(st, s.past) ELSE st)
PastDiagnosesFail == s.listing /\ Set([s EXCEPT !.listing = FALSE])

\* Opened, the drawer joins the query, which is read again once it is stale.
PastDiagnosesDrawer(stale) ==
  /\ Acts
  /\ Set([StartClicked EXCEPT !.drawer = ~@, !.listing = @ \/ (stale /\ ~s.drawer)])

CompletionChecked(d) ==
  /\ d \in s.checking
  /\ \E done \in BOOLEAN :
       Set([s EXCEPT !.checking = @ \ {d}, !.listing = TRUE, !.past[d].completed = @ \/ done])
CompletionCheckFails(d) == d \in s.checking /\ Set([s EXCEPT !.checking = @ \ {d}])

Idle == s.session = 0 /\ ~s.starting
startSession ==
  /\ Acts /\ Idle /\ Len(s.past) < MaxSessions
  /\ Set([StartClicked EXCEPT !.starting = TRUE, !.error = FALSE, !.messages = <<>>])
SessionStarts ==
  /\ s.starting
  /\ Set([s EXCEPT !.starting = FALSE, !.past = Append(@, NeverClicked), !.session = Len(s.past) + 1,
                   !.messages = <<[role |-> "agent", of |-> 0]>>, !.listing = TRUE, !.drawer = FALSE])
SessionStartFails == s.starting /\ Set([s EXCEPT !.starting = FALSE, !.error = TRUE])

Conversing == s.session # 0 /\ ~s.verdict
inputDisabled == s.thinking \/ s.finalizing \/ s.decoder

\* The student's message is shown before it is answered, and stays if it is not.
sendTurn ==
  /\ Acts /\ Conversing /\ ~inputDisabled
  /\ Set([StartClicked EXCEPT !.error = FALSE, !.thinking = TRUE, !.turns = @ + 1,
            !.messages = Append(@, [role |-> "student", of |-> s.turns + 1])])

\* A last turn finalizes at once; a turn may open the decoder, a last one too.
TurnLands(decode, final) ==
  /\ s.thinking
  /\ Set([s EXCEPT !.thinking = FALSE, !.decoder = @ \/ decode, !.finalizing = final,
                   !.messages = Append(@, [role |-> "agent", of |-> s.turns])])
TurnFails == s.thinking /\ Set([s EXCEPT !.thinking = FALSE, !.error = TRUE])

\* The embedded decoder has no way out but a decode.
InlineDecoderEmbed == Conversing /\ s.decoder
DecodeSubmit == Acts /\ InlineDecoderEmbed /\ ~s.decoding /\ Set([StartClicked EXCEPT !.decoding = TRUE])
onDecoderResult ==
  /\ s.decoding
  /\ Set([s EXCEPT !.decoding = FALSE, !.decoder = FALSE,
                   !.messages = Append(@, [role |-> "agent", of |-> 0])])
DecodeFails == s.decoding /\ Set([s EXCEPT !.decoding = FALSE])

\* The verdict re-runs the clean-up effect, which posts the session as abandoned.
finalize ==
  s.finalizing /\ Set([s EXCEPT !.finalizing = FALSE, !.verdict = TRUE, !.abandoned = TRUE,
                                !.listing = TRUE, !.drawer = FALSE])
FinalizeFails == s.finalizing /\ Set([s EXCEPT !.finalizing = FALSE, !.error = TRUE])

\* The student leaves and comes back, by the verdict's action or in mid-session.
VerdictCard == s.session # 0 /\ s.verdict
ComeBack(clicked) ==
  /\ Acts /\ (clicked => VerdictCard)
  /\ s' = Mounted([d \in DOMAIN s.past |-> IF clicked /\ d = s.session
                     THEN [s.past[d] EXCEPT !.clicked = TRUE] ELSE s.past[d]], s.acts + 1)

DiagnosisClicks ==
  \/ startSession \/ sendTurn \/ DecodeSubmit
  \/ \E clicked \in BOOLEAN : ComeBack(clicked)
  \/ \E stale \in BOOLEAN : PastDiagnosesDrawer(stale)
DiagnosisAnswers ==
  \/ PastDiagnosesLand \/ PastDiagnosesFail \/ SessionStarts \/ SessionStartFails
  \/ \E d \in s.checking : CompletionChecked(d) \/ CompletionCheckFails(d)
  \/ \E decode, final \in BOOLEAN : TurnLands(decode, final)
  \/ TurnFails \/ onDecoderResult \/ DecodeFails \/ finalize \/ FinalizeFails

DiagnosisNext == On("diagnosis") /\ (DiagnosisClicks \/ DiagnosisAnswers)
DiagnosisFairness == WF_s(On("diagnosis") /\ DiagnosisAnswers)
DiagnosisBusy == s.starting \/ s.thinking \/ s.decoding \/ s.finalizing

(***************************************************************************)
(* The tailored-resume modal.  It closes, but stays mounted; a text of the *)
(* job description is known by the number of the edit that left it.        *)
(***************************************************************************)
Closed ==
  [step |-> "jd", jdText |-> 0, intake |-> 0, answered |-> FALSE, result |-> 0, overridden |-> FALSE]

IntakeInit(sc) ==
  sc = [screen |-> "tailor", acts |-> 0, open |-> FALSE, modal |-> Closed, reading |-> 0,
        generating |-> 0, gate |-> FALSE]

Step(name) == s.open /\ s.modal.step = name
At(name) == Acts /\ Step(name)
Tick == [s EXCEPT !.acts = @ + 1]

OpenModal == Acts /\ ~s.open /\ Set([Tick EXCEPT !.open = TRUE])
CanClose == Step("jd") \/ Step("preview") \/ Step("error") \/ (Step("questions") /\ s.gate /\ ~s.modal.overridden)
onClose == Acts /\ CanClose /\ Set([Tick EXCEPT !.open = FALSE, !.modal = Closed])

EditJd == At("jd") /\ Set([Tick EXCEPT !.modal.jdText = s.acts + 1])
handleJdSubmit ==
  /\ At("jd") /\ s.modal.jdText # 0 /\ s.reading = 0
  /\ Set([Tick EXCEPT !.reading = s.modal.jdText])

\* The answer moves the modal on, whether it is open, closed or open again.
IntakeLands(gate) ==
  /\ s.reading # 0
  /\ Set([s EXCEPT !.reading = 0, !.gate = gate, !.modal.intake = s.reading, !.modal.step = "questions"])
IntakeFails == s.reading # 0 /\ Set([s EXCEPT !.reading = 0, !.modal.step = "error"])

softGateActive == s.gate /\ ~s.modal.overridden
Override == At("questions") /\ softGateActive /\ Set([Tick EXCEPT !.modal.overridden = TRUE])
updateAnswer ==
  At("questions") /\ ~softGateActive /\ ~s.modal.answered /\ Set([Tick EXCEPT !.modal.answered = TRUE])
handleQuestionsSubmit ==
  At("questions") /\ ~softGateActive /\ s.modal.answered /\ Set([Tick EXCEPT !.modal.step = "review"])
StepBack ==
  /\ Acts
  /\ \/ Step("questions") /\ ~softGateActive /\ Set([Tick EXCEPT !.modal.step = "jd"])
     \/ Step("error") /\ Set([Tick EXCEPT !.modal.step = "jd"])
     \/ Step("review") /\ Set([Tick EXCEPT !.modal.step = "questions"])

handleGenerate ==
  /\ At("review")
  /\ Set([Tick EXCEPT !.modal.step = "generating", !.generating = s.acts + 1])
GenerateLands ==
  s.generating # 0 /\ Set([s EXCEPT !.modal.result = s.generating, !.generating = 0, !.modal.step = "preview"])
GenerateFails == s.generating # 0 /\ Set([s EXCEPT !.generating = 0, !.modal.step = "error"])

IntakeClicks ==
  \/ OpenModal \/ onClose \/ EditJd \/ handleJdSubmit \/ Override \/ updateAnswer
  \/ handleQuestionsSubmit \/ StepBack \/ handleGenerate
IntakeAnswers ==
  \/ \E gate \in BOOLEAN : IntakeLands(gate)
  \/ IntakeFails \/ GenerateLands \/ GenerateFails

IntakeNext == On("tailor") /\ (IntakeClicks \/ IntakeAnswers)
IntakeFairness == WF_s(On("tailor") /\ IntakeAnswers)
IntakeBusy == s.reading # 0 \/ s.generating # 0

(***************************************************************************)
(* Properties.                                                             *)
(***************************************************************************)
\* The completion of a past diagnosis is asked for once on a mount, however often
\* the list is read again and grows meanwhile.
CompletionCheckedOnce == On("diagnosis") => \A d \in DOMAIN s.checks : s.checks[d] <= 1

\* The agent's answer stands under the turn it answers; nothing the decoder says
\* comes between them.
AgentAnswersItsTurn ==
  On("diagnosis") => \A i \in DOMAIN s.messages :
    s.messages[i].role = "agent" /\ s.messages[i].of # 0 =>
      i > 1 /\ s.messages[i - 1] = [role |-> "student", of |-> s.messages[i].of]

\* The resume on show is one the open modal was waiting for: a generation never
\* lands in a modal that was closed, or closed and opened again, since.
PreviewWasAwaited == On("tailor") => (s.generating # 0 => Step("generating"))
=============================================================================
