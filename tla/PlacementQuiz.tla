---------------------------- MODULE PlacementQuiz ----------------------------
(***************************************************************************)
(* The public placement quiz: five questions with an auto-advance timer, a *)
(* loading pause, the scored result and its call to enroll.  Every state   *)
(* is copied to sessionStorage, from which a reload restores it.           *)
(***************************************************************************)
EXTENDS Screen

CONSTANT Options   \* of the four options of a question, the ones tried

ASSUME PlacementAssumption == Options \subseteq 1..4

Total == 5         \* TOTAL_QUESTIONS
Blank == [q \in 1..Total |-> 0]
isComplete(answers) == \A q \in 1..Total : answers[q] # 0

(***************************************************************************)
(* Scoring; every track profile lists both urgency modes.                  *)
(***************************************************************************)
\* What each question asks for; its option number is its score.
QUESTIONS == [skill |-> 1, commitment |-> 2, track |-> 3, narrative |-> 4, urgency |-> 5]
Tracks == <<"analyst", "scientist", "ml", "genai">>
TRACK_PROFILES == [
  analyst   |-> [skills |-> {1, 2}, narratives |-> {1, 2}, offset |-> 1],
  scientist |-> [skills |-> {2, 3}, narratives |-> {3, 2}, offset |-> 3],
  ml        |-> [skills |-> {3, 4}, narratives |-> {2, 4}, offset |-> 2],
  genai     |-> [skills |-> {3, 4}, narratives |-> {4, 3}, offset |-> 4]]

getRecommendedTrack(answers) == Tracks[answers[QUESTIONS.track]]
getUrgencyMode(answers) == IF answers[QUESTIONS.urgency] \in {3, 4} THEN "decided" ELSE "activating"

getConfidencePercent(answers) ==
  LET track == getRecommendedTrack(answers)
      profile == TRACK_PROFILES[track]
      Hit(b) == IF b THEN 1 ELSE 0
      raw == 1 + Hit(answers[QUESTIONS.skill] \in profile.skills)
               + Hit(answers[QUESTIONS.narrative] \in profile.narratives)
               + 1 + Hit(answers[QUESTIONS.commitment] >= 3 \/ track = "analyst")
      score == 88 + (raw - 1) * 2 + (profile.offset % 2)
  IN IF score > 96 THEN 96 ELSE score

(***************************************************************************)
(* The stages.                                                             *)
(***************************************************************************)
\* What loadState can find: nothing, or a quiz whose first questions are answered.
PlacementInit(sc) ==
  \E k \in 0..Total, given \in [1..Total -> Options], member \in BOOLEAN :
    sc = [screen |-> "placement", acts |-> 0,
          stage |-> IF k = 0 THEN "intro" ELSE IF k = Total THEN "result" ELSE "question",
          step |-> IF k < Total THEN k + 1 ELSE Total,
          answers |-> [q \in 1..Total |-> IF q <= k THEN given[q] ELSE 0],
          advance |-> 0, pending |-> Blank, loading |-> FALSE,
          member |-> member, checkout |-> "none", left |-> "no"]

NoTimers(st) == [st EXCEPT !.advance = 0, !.pending = Blank, !.loading = FALSE]
OnQuiz == s.left = "no" /\ Acts
Clicked1 == [s EXCEPT !.acts = @ + 1]

begin ==
  OnQuiz /\ s.stage = "intro" /\ Set([Clicked1 EXCEPT !.stage = "question", !.step = 1])

\* A choice arms the timer anew, over the answers as they are now.
choose(option) ==
  /\ OnQuiz /\ s.stage = "question"
  /\ LET next == [s.answers EXCEPT ![s.step] = option]
     IN Set([Clicked1 EXCEPT !.answers = next, !.advance = s.step, !.pending = next])

AdvanceTimer ==
  /\ s.advance # 0
  /\ LET done == [s EXCEPT !.advance = 0, !.pending = Blank]
     IN IF s.advance = Total /\ isComplete(s.pending)
        THEN Set([done EXCEPT !.stage = "loading", !.loading = TRUE])
        ELSE Set([done EXCEPT !.step = IF s.advance < Total THEN s.advance + 1 ELSE Total])

LoadingTimer == s.loading /\ Set([s EXCEPT !.loading = FALSE, !.stage = "result"])

showBack == s.stage \in {"question", "result"}
goBack ==
  /\ OnQuiz /\ showBack
  /\ LET st == NoTimers(Clicked1)
     IN Set(CASE s.stage = "result" -> [st EXCEPT !.stage = "question", !.step = Total]
              [] s.stage = "question" /\ s.step = 1 -> [st EXCEPT !.stage = "intro"]
              [] OTHER -> [st EXCEPT !.step = @ - 1])

restart ==
  /\ OnQuiz /\ s.stage = "result"
  /\ Set([NoTimers(Clicked1) EXCEPT !.answers = Blank, !.step = 1, !.stage = "intro"])

\* The timers die with the page; a reload never resumes the loading stage.
ReloadQuiz ==
  /\ OnQuiz
  /\ Set([NoTimers(Clicked1) EXCEPT !.checkout = "none",
                                    !.stage = IF @ = "loading" THEN "result" ELSE @])

(***************************************************************************)
(* The calls to action of the result screen.                               *)
(***************************************************************************)
ResultScreen == s.stage = "result" /\ isComplete(s.answers)

onEnroll ==
  /\ OnQuiz /\ ResultScreen /\ s.checkout = "none"
  /\ \/ ~s.member /\ Set([Clicked1 EXCEPT !.left = "register"])
     \/ s.member /\ Set([Clicked1 EXCEPT !.left = "catalog"])  \* not on sale, or not loaded
     \/ s.member /\ Set([Clicked1 EXCEPT !.checkout = getRecommendedTrack(s.answers)])

\* The answer takes the tab to the payment page wherever it is by then.
CheckoutLands ==
  s.checkout # "none" /\ Set([NoTimers(s) EXCEPT !.left = s.checkout, !.checkout = "none"])
CheckoutFails ==
  s.checkout # "none" /\ Set([NoTimers(s) EXCEPT !.left = "catalog", !.checkout = "none"])

onCurriculum == OnQuiz /\ ResultScreen /\ Set([NoTimers(Clicked1) EXCEPT !.left = "catalog"])

PlacementClicks ==
  begin \/ goBack \/ restart \/ ReloadQuiz \/ onEnroll \/ onCurriculum
  \/ \E option \in Options : choose(option)
PlacementAnswers == AdvanceTimer \/ LoadingTimer \/ CheckoutLands \/ CheckoutFails

PlacementNext == On("placement") /\ (PlacementClicks \/ PlacementAnswers)
PlacementFairness == WF_s(On("placement") /\ PlacementAnswers)

(***************************************************************************)
(* Properties.                                                             *)
(***************************************************************************)
\* A recommendation is only ever made on five answers, with a percentage in the
\* range the result screen promises.
RecommendsOnAllAnswers ==
  On("placement") /\ s.stage \in {"loading", "result"} =>
    isComplete(s.answers) /\ getConfidencePercent(s.answers) \in 88..96

\* A timer that is still to fire belongs to the question, or the pause, on screen:
\* going back, restarting and reloading leave none behind.
QuizTimersAreCurrent ==
  On("placement") =>
    /\ s.advance # 0 => s.stage = "question" /\ s.advance = s.step /\ s.pending = s.answers
    /\ s.loading <=> s.stage = "loading" /\ s.left = "no"

PlacementBusy == s.advance # 0 \/ s.loading \/ s.checkout # "none"
=============================================================================
