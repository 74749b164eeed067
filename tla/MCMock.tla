------------------------------- MODULE MCMock -------------------------------
(* A small instance of MockInterview: which calls are made. *)
EXTENDS MockInterview, TLC

CONSTANTS s1, a1, a2, a3, k1, k2, h1, h2   \* a start, answers, completions, shares

KindHere == (s1 :> "start") @@ [c \in {a1, a2, a3} |-> "answer"]
              @@ [c \in {k1, k2} |-> "complete"] @@ [c \in {h1, h2} |-> "share"]
KindOf == [c \in Calls |-> KindHere[c]]

CallSymmetry == Permutations({a1, a2, a3} \cap Calls) \cup Permutations({k1, k2} \cap Calls)
                  \cup Permutations({h1, h2} \cap Calls)
=============================================================================
