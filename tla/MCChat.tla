------------------------------- MODULE MCChat -------------------------------
(* Small instances of ChatConversation: who calls what. *)
EXTENDS ChatInvariant, TLC

CONSTANTS s1, s2, e1, g1,           \* sends, an edit, a regenerate
          u1, u2, u3,               \* calls of several kinds
          c1, c2                    \* conversations

KindsAny   == (u1 :> {"send"}) @@ (u2 :> {"send", "regen", "edit"}) @@ (u3 :> {"regen", "edit"})
KindsTurns == (s1 :> {"send"}) @@ (s2 :> {"send"}) @@ (g1 :> {"regen"})
KindsFork  == KindsTurns @@ (e1 :> {"edit"})
=============================================================================
