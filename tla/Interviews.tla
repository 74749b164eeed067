----------------------------- MODULE Interviews -----------------------------
(***************************************************************************)
(* The two interview pages: the streamed interview (/interview) and the    *)
(* mock interview workspace with its chat and live-coding rooms.  Neither  *)
(* page aborts what it has asked for when the student moves on.            *)
(***************************************************************************)
EXTENDS Screen

(***************************************************************************)
(* /interview: a picker, a streamed conversation, a debrief.               *)
(***************************************************************************)
\* A turn knows the stream that answers it; done when the stream has said so.
InterviewInit(sc) ==
  sc = [screen |-> "interview", acts |-> 0, starting |-> FALSE, session |-> 0, sessions |-> 0,
        turns |-> <<>>, draft |-> FALSE, streams |-> {}, count |-> 0, streaming |-> FALSE,
        error |-> FALSE, debriefing |-> FALSE, debrief |-> 0]

Did == [s EXCEPT !.acts = @ + 1]
ProblemPicker == s.session = 0
Debrief == s.session # 0 /\ s.debrief # 0
Talking == s.session # 0 /\ s.debrief = 0

StartInterview ==
  /\ Acts /\ ProblemPicker /\ ~s.starting
  /\ Set([Did EXCEPT !.starting = TRUE, !.error = FALSE])
InterviewStarts ==
  /\ s.starting
  /\ Set([s EXCEPT !.starting = FALSE, !.sessions = @ + 1, !.session = s.sessions + 1,
                   !.turns = <<>>, !.debrief = 0])
InterviewStartFails == s.starting /\ Set([s EXCEPT !.starting = FALSE, !.error = TRUE])

TypeAnswer ==
  Acts /\ Talking /\ ~s.streaming /\ ~s.draft /\ Set([Did EXCEPT !.draft = TRUE])

\* The form, and Ctrl+Enter in it; also open while a debrief is awaited.
handleSend1 ==
  /\ Acts /\ Talking /\ s.draft /\ ~s.streaming
  /\ LET n == s.count + 1
     IN Set([Did EXCEPT !.draft = FALSE, !.streaming = TRUE, !.error = FALSE, !.count = n,
               !.turns = Append(@, [stream |-> n, got |-> {}, done |-> FALSE]),
               !.streams = @ \cup {[id |-> n, at |-> s.session]}])

\* A chunk finds its bubble by its id; after a reset there is none.
Heard(turn, id) == IF turn.stream = id THEN [turn EXCEPT !.got = @ \cup {id}] ELSE turn
InterviewChunk(r) ==
  /\ r \in s.streams /\ \E i \in DOMAIN s.turns : s.turns[i].stream = r.id /\ s.turns[i].got = {}
  /\ Set([s EXCEPT !.turns = [i \in DOMAIN @ |-> Heard(@[i], r.id)]])

StreamOver(st, r) == [st EXCEPT !.streams = @ \ {r}, !.streaming = FALSE]

\* The end of the body: an error event in it is skipped like a malformed line.
InterviewStreamEnds(r) ==
  /\ r \in s.streams
  /\ Set([StreamOver(s, r) EXCEPT !.turns = [i \in DOMAIN @ |-> IF @[i].stream = r.id
                                     THEN [@[i] EXCEPT !.done = TRUE] ELSE @[i]]])
InterviewStreamFails(r) ==
  r \in s.streams /\ Set([StreamOver(s, r) EXCEPT !.error = TRUE])

canEnd == Talking /\ s.turns # <<>> /\ ~s.streaming
handleEndInterview ==
  Acts /\ canEnd /\ ~s.debriefing /\ Set([Did EXCEPT !.debriefing = TRUE, !.error = FALSE])
DebriefLands ==
  s.debriefing /\ Set([s EXCEPT !.debriefing = FALSE, !.debrief = s.session])
DebriefFails == s.debriefing /\ Set([s EXCEPT !.debriefing = FALSE, !.error = TRUE])

\* "Start another": the stream of a turn sent meanwhile goes on.
handleResetInterview ==
  /\ Acts /\ Debrief
  /\ Set([Did EXCEPT !.session = 0, !.turns = <<>>, !.debrief = 0, !.error = FALSE])

InterviewClicks ==
  StartInterview \/ TypeAnswer \/ handleSend1 \/ handleEndInterview \/ handleResetInterview
InterviewAnswers ==
  \/ InterviewStarts \/ InterviewStartFails \/ DebriefLands \/ DebriefFails
  \/ \E r \in s.streams : InterviewChunk(r) \/ InterviewStreamEnds(r) \/ InterviewStreamFails(r)

InterviewNext == On("interview") /\ (InterviewClicks \/ InterviewAnswers)
InterviewFairness == WF_s(On("interview") /\ InterviewAnswers)
InterviewBusy == s.starting \/ s.streaming \/ s.debriefing

(***************************************************************************)
(* The mock interview workspace.                                           *)
(***************************************************************************)
NoRoom == [bubbles |-> <<>>, answering |-> 0, answered |-> 0, capped |-> FALSE, draft |-> "empty",
           listening |-> FALSE, unheard |-> FALSE, output |-> 0, running |-> FALSE,
           ran |-> 0, code |-> 0, error |-> FALSE]

MockInit(sc) ==
  \E voice \in BOOLEAN, py \in {"absent", "ready"} :
    sc = [screen |-> "mock", acts |-> 0, stage |-> "picker", mode |-> "none", starting |-> "none",
          session |-> 0, held |-> "none", sessions |-> 0, completing |-> <<>>, report |-> 0,
          startError |-> FALSE, voice |-> voice, py |-> py, room |-> NoRoom,
          share |-> "none", copied |-> FALSE, copyTimers |-> 0]

ModePicker == s.stage = "picker" \/ s.mode = "none"
handlePickMode(mode) ==
  /\ Acts /\ ModePicker
  /\ Set([Did EXCEPT !.mode = mode, !.stage = "setup"])

PreSessionSetup == s.stage = "setup" /\ s.mode # "none"
CancelSetup == Acts /\ PreSessionSetup /\ Set([Did EXCEPT !.stage = "picker"])

handleStartMock ==
  /\ Acts /\ PreSessionSetup /\ s.starting = "none"
  /\ Set([Did EXCEPT !.starting = s.mode, !.startError = FALSE])

\* The session opens wherever the student has gone since.
MockStarts ==
  /\ s.starting # "none"
  /\ Set([s EXCEPT !.starting = "none", !.sessions = @ + 1, !.session = s.sessions + 1,
                   !.held = s.starting, !.stage = "session", !.room = NoRoom,
                   !.py = IF s.mode = "code" /\ @ = "absent" THEN "loading" ELSE @])
MockStartFails == s.starting # "none" /\ Set([s EXCEPT !.starting = "none", !.startError = TRUE])

InRoom == s.stage = "session" /\ s.session # 0 /\ s.mode # "none"
SessionChat == InRoom /\ s.mode = "talk"
LiveCoding == InRoom /\ s.mode = "code"

\* The Python runtime of the tab, asked for by the mount of a live-coding room: a
\* script that failed to load is never asked for again.
RuntimeLoads == s.py = "loading" /\ Set([s EXCEPT !.py = "ready"])
RuntimeFails == s.py = "loading" /\ \E py \in {"absent", "failed"} : Set([s EXCEPT !.py = py])

WriteDraft ==
  /\ Acts /\ SessionChat /\ ~s.room.capped /\ s.room.draft # "typed"
  /\ Set([Did EXCEPT !.room.draft = "typed"])

handleStartListening ==
  /\ Acts /\ SessionChat /\ s.voice /\ ~s.room.capped
  /\ Set(IF s.room.listening THEN [Did EXCEPT !.room.listening = FALSE, !.room.unheard = TRUE]
         ELSE [Did EXCEPT !.room.listening = TRUE])

\* What was said replaces what was typed; the last of it may be recognized after the
\* microphone was closed.
SpeechArrives ==
  /\ InRoom /\ (s.room.listening \/ s.room.unheard)
  /\ Set([s EXCEPT !.room.draft = "said", !.room.unheard = FALSE])
NothingMoreHeard == InRoom /\ s.room.unheard /\ Set([s EXCEPT !.room.unheard = FALSE])

Asked(st) ==
  [st EXCEPT !.room.bubbles = Append(@, [role |-> "candidate", of |-> st.room.answered + 1]),
             !.room.answered = @ + 1, !.room.answering = st.room.answered + 1,
             !.room.error = FALSE]

submitAnswer ==
  /\ Acts /\ SessionChat /\ s.room.draft # "empty" /\ s.room.answering = 0 /\ ~s.room.capped
  /\ Set([Asked(Did) EXCEPT !.room.draft = "empty", !.room.listening = FALSE,
                            !.room.unheard = @ \/ s.room.listening])

\* Live coding: the code goes with the output of whatever ran last.
EditCode1 == Acts /\ LiveCoding /\ Set([Did EXCEPT !.room.code = s.acts + 1])
runCode ==
  /\ Acts /\ LiveCoding /\ s.py = "ready" /\ ~s.room.running
  /\ Set([Did EXCEPT !.room.running = TRUE, !.room.ran = s.room.code, !.room.output = 0])
RunEnds ==
  InRoom /\ s.room.running /\ Set([s EXCEPT !.room.running = FALSE, !.room.output = s.room.ran])
submitCode ==
  Acts /\ LiveCoding /\ s.room.answering = 0 /\ ~s.room.capped /\ Set(Asked(Did))

\* A probe stays on the question; a next question starts from the template.
AnswerLands(next, capped) ==
  /\ InRoom /\ s.room.answering # 0
  /\ LET said == [s EXCEPT !.room.answering = 0, !.room.capped = capped, !.room.listening = FALSE,
                     !.room.unheard = @ \/ s.room.listening,
                     !.room.bubbles = Append(@, [role |-> "interviewer", of |-> s.room.answering])]
     IN Set(IF next /\ s.mode = "code" THEN [said EXCEPT !.room.code = 0, !.room.output = 0] ELSE said)
AnswerFails ==
  InRoom /\ s.room.answering # 0 /\ Set([s EXCEPT !.room.answering = 0, !.room.error = TRUE])

\* Without an answer the session is abandoned, else its report is asked for.
handleEndMock ==
  /\ Acts /\ InRoom
  /\ IF s.room.answered = 0
     THEN Set([Did EXCEPT !.stage = "picker", !.session = 0, !.mode = "none", !.room = NoRoom])
     ELSE Set([Did EXCEPT !.completing = Append(@, s.session)])

\* handleComplete: whichever page is shown, the report takes its place.
ReportLands(i) ==
  /\ i \in DOMAIN s.completing
  /\ Set([s EXCEPT !.completing = SubSeq(@, 1, i - 1) \o SubSeq(@, i + 1, Len(@)),
                   !.report = s.completing[i], !.stage = "report", !.room = NoRoom])
ReportFails(i) ==
  /\ i \in DOMAIN s.completing
  /\ Set([s EXCEPT !.completing = SubSeq(@, 1, i - 1) \o SubSeq(@, i + 1, Len(@)),
                   !.report = 0, !.stage = "report", !.room = NoRoom])

\* The first share asks for a link; every share then copies it.
Report == s.stage = "report" /\ s.mode # "none" /\ s.report # 0
Copied(st) == [st EXCEPT !.copied = TRUE, !.copyTimers = @ + 1]
onShare ==
  /\ Acts /\ Report
  /\ Set(IF s.share = "made" THEN Copied(Did) ELSE [Did EXCEPT !.share = "asked"])
ShareLands == s.share = "asked" /\ Set(Copied([s EXCEPT !.share = "made"]))
ShareFails == s.share = "asked" /\ Set([s EXCEPT !.share = "none"])
CopiedTimer == s.copyTimers > 0 /\ Set([s EXCEPT !.copied = FALSE, !.copyTimers = @ - 1])

handleResetMock ==
  /\ Acts /\ s.stage = "report" /\ s.mode # "none"
  /\ Set([Did EXCEPT !.stage = "picker", !.mode = "none", !.session = 0, !.held = "none",
                     !.report = 0, !.startError = FALSE, !.share = "none",
                     !.copied = FALSE, !.copyTimers = 0])

MockClicks ==
  \/ \E mode \in {"talk", "code"} : handlePickMode(mode)
  \/ CancelSetup \/ handleStartMock \/ WriteDraft \/ handleStartListening \/ submitAnswer
  \/ EditCode1 \/ runCode \/ submitCode \/ handleEndMock \/ onShare \/ handleResetMock
MockAnswers ==
  \/ MockStarts \/ MockStartFails \/ RunEnds \/ AnswerFails \/ RuntimeLoads \/ RuntimeFails
  \/ NothingMoreHeard \/ ShareLands \/ ShareFails \/ CopiedTimer
  \/ \E next, capped \in BOOLEAN : AnswerLands(next, capped)
  \/ \E i \in DOMAIN s.completing : ReportLands(i) \/ ReportFails(i)

MockNext == On("mock") /\ (MockClicks \/ MockAnswers \/ SpeechArrives)
MockFairness == WF_s(On("mock") /\ MockAnswers)
MockBusy ==
  \/ s.starting # "none" \/ s.completing # <<>> \/ s.py = "loading" \/ s.copied
  \/ InRoom /\ (s.room.answering # 0 \/ s.room.running)

(***************************************************************************)
(* Properties.                                                             *)
(***************************************************************************)
\* However a debrief, a reset and a new session fall between them, one answer is
\* streamed at a time and the composer is closed exactly as long.
OneInterviewStream ==
  On("interview") => Cardinality(s.streams) <= 1 /\ (s.streaming <=> s.streams # {})

\* Every evaluation stands right under the answer it is about, and every turn of a
\* streamed interview holds the words of its own stream alone.
EvaluationsUnderTheirAnswer ==
  /\ On("mock") => \A i \in DOMAIN s.room.bubbles :
       s.room.bubbles[i].role = "interviewer" =>
         i > 1 /\ s.room.bubbles[i - 1] = [role |-> "candidate", of |-> s.room.bubbles[i].of]
  /\ On("interview") => \A i \in DOMAIN s.turns : s.turns[i].got \subseteq {s.turns[i].stream}
=============================================================================
