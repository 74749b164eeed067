---------------------------- MODULE MCDiagnostic ----------------------------
(* Small instances of DiagnosticSession: which calls are made. *)
EXTENDS DiagnosticSession, TLC

CONSTANTS s1, s2, s3, f1, f2, a1, k1, k2   \* submits, finalizes, abandon, clicks

KindOf == [c \in {s1, s2, s3} |-> "submit"] @@ [c \in {f1, f2} |-> "finalize"]
            @@ (a1 :> "abandon") @@ [c \in {k1, k2} |-> "click"]

KindHere == [c \in Calls |-> KindOf[c]]

CallSymmetry == Permutations({s1, s2, s3} \cap Calls) \cup Permutations({f1, f2} \cap Calls)
                  \cup Permutations({k1, k2} \cap Calls)
=============================================================================
