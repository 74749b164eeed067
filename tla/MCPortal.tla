------------------------------ MODULE MCPortal ------------------------------
(* A small instance of Portal: how long each screen is used, and on what. *)
EXTENDS Portal, TLC

CONSTANTS c1, c2, n1   \* conversations

Steps == "chat" :> 0 @@ "composer" :> 5 @@ "chatQuiz" :> 6 @@ "account" :> 3 @@ "register" :> 4 @@ "placement" :> 4
           @@ "practice" :> 3 @@ "exercise" :> 5 @@ "interview" :> 8 @@ "mock" :> 7
           @@ "diagnosis" :> 4 @@ "tailor" :> 8 @@ "jdMatch" :> 4 @@ "kit" :> 4 @@ "decoder" :> 5
           @@ "resume" :> 3 @@ "questions" :> 4 @@ "jdFit" :> 4 @@ "bank" :> 9 @@ "stories" :> 6
           @@ "studio" :> 3 @@ "rail" :> 4 @@ "panels" :> 5 @@ "capstone" :> 3
           @@ "catalog" :> 4 @@ "course" :> 3 @@ "today" :> 6 @@ "goal" :> 8 @@ "path" :> 3
           @@ "promotion" :> 3 @@ "sidebar" :> 5 @@ "reply" :> 5
           @@ "lesson" :> 4 @@ "materials" :> 4 @@ "receipts" :> 3 @@ "autopsy" :> 5 @@ "problems" :> 2
           @@ "console" :> 3 @@ "directory" :> 3 @@ "drilldown" :> 3 @@ "courseEdit" :> 3 @@ "board" :> 3 @@ "triage" :> 3
\* One page in use, the others only mounted.
Only(used) == [screen \in DOMAIN Steps |-> IF screen \in used THEN Steps[screen] ELSE 0]
StepsPractice == Only({"practice", "exercise"})
StepsStudio == Only({"studio"})
Line(kind, n) == [kind |-> kind, n |-> n]
Fence == Line("fence", 0)
MCLetters == {<<>>, <<Line("heading", 1), Fence, Line("paragraph", 2), Line("bullet", 3), Fence, Line("rule", 4)>>,
              <<Line("paragraph", 1), Fence, Line("heading", 2), Fence, Fence, Line("space", 3)>>}
MCCommands == <<"mode", "attach", "new", "export">>
=============================================================================
