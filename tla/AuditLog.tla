------------------------------ MODULE AuditLog ------------------------------
(***************************************************************************)
(* What a chat store promises its audit trail.  An entry is written once   *)
(* and never rewritten.  It can be hidden, together with others that came  *)
(* after some turn of the same conversation and in the same step as the    *)
(* turn's replacement is written; it is never shown again, and it is       *)
(* erased only with its whole conversation.                                *)
(***************************************************************************)
EXTENDS Integers

CONSTANTS Ids,       \* entries, numbered in the order they were created
          Home       \* conversations

VARIABLES state,     \* absent, live, hidden or erased
          entry      \* what was written: at most one record [home, parent, ...]

log == <<state, entry>>

Init == /\ state = [i \in Ids |-> "absent"]
        /\ entry = [i \in Ids |-> {}]

In(i, c) == \E e \in entry[i] : e.home = c

\* Entry i is written for conversation c; written entries keep their content.
Write(i, c) ==
  /\ state[i] = "absent"
  /\ \E e \in entry'[i] : e.home = c /\ entry'[i] = {e}
  /\ DOMAIN entry' = Ids
  /\ \A j \in Ids \ {i} : entry'[j] = entry[j]

Post(i, c) ==
  /\ Write(i, c)
  /\ state' = [state EXCEPT ![i] = "live"]

\* Entry i replaces turn t; entries after t may be hidden with it.
Fork(i, t, c) ==
  /\ Write(i, c)
  /\ In(t, c) /\ t < i
  /\ \E e \in entry'[i] : e.parent = t
  /\ state' \in [Ids -> {"absent", "live", "hidden", "erased"}]
  /\ state'[i] = "live"
  /\ \A j \in Ids \ {i} :
       \/ state'[j] = state[j]
       \/ In(j, c) /\ j > t /\ state[j] = "live" /\ state'[j] = "hidden"

Erase(c) ==
  /\ \E i \in Ids : In(i, c)
  /\ state' = [i \in Ids |-> IF In(i, c) THEN "erased" ELSE state[i]]
  /\ UNCHANGED entry

Next ==
  \/ \E i \in Ids, c \in Home : Post(i, c)
  \/ \E c \in Home : Erase(c)
  \/ \E i, t \in Ids, c \in Home : Fork(i, t, c)

Spec == Init /\ [][Next]_log
=============================================================================
