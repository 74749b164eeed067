--------------------------- MODULE AreaInvariant ---------------------------
(***************************************************************************)
(* The inductive invariant of ChatArea: every id the area knows is of one  *)
(* turn or reply, and no two bubbles show versions of the same one.  That  *)
(* a call is alone on the hook (StreamInvariant) does not hold here: an    *)
(* edit that lands sends whether or not a stream has begun since.          *)
(***************************************************************************)
EXTENDS ChatArea

\* What begins a turn or reply on the server: a hydrated row, or a sent one.
Heads == {m.id : m \in Range(Initial)} \cup {RowId(r) : r \in Runs}

\* The rows of a send are on the server once it has carried a token.
Begun(t) == \A r \in Runs : t = RowId(r) => run[r].tokens > 0

IsRow(id) == \E t \in Heads : Begun(t) /\ id \in Range(chains[t])

SameTurn(a, b) == \E t \in Heads : Begun(t) /\ {a, b} \subseteq Range(chains[t])

(***************************************************************************)
(* The calls, and the server's versions.                                   *)
(***************************************************************************)
CallOk(r) ==
  /\ run[r].pc = "idle" => run[r].tokens = 0
  /\ run[r].op = "send" => run[r].target = BubbleId(r) /\ run[r].pc # "idle"
  /\ run[r].pc = "known" => run[r].tokens > 0

\* How an id came to be a version of t.
VersionOf(id, t) ==
  \/ id[1] = "server" /\ id \in DOMAIN RowBody
  \/ id = t /\ \E r \in Runs : t = RowId(r)
  \/ \E n \in DOMAIN regens : id = Variant(n) /\ regens[n].pc \in {"hydrating", "over"}
  \/ id = ForkId /\ edit.forked

ChainsOk ==
  /\ DOMAIN chains = Heads
  /\ \A t \in Heads : chains[t] \in Seq(Ids) /\ t \in Range(chains[t])
  /\ \A t \in Heads : \A id \in Range(chains[t]) : VersionOf(id, t)
  /\ \A t, u \in Heads : t # u => Range(chains[t]) \cap Range(chains[u]) = {}

(***************************************************************************)
(* The requests of the student.                                            *)
(***************************************************************************)
Regeneration == [of : Ids, tokens : 0..MaxTokens,
                 pc : {"fetching", "reading", "hydrating", "dropped", "over"}]
VersionLoad == [from : Ids, to : Ids]

RequestsTyped ==
  /\ DOMAIN edit = {"pc", "id", "streaming", "forked", "run"}
  /\ edit.pc \in {"closed", "open", "saving", "landed"}
  /\ regens \in Seq(Regeneration) /\ loads \in Seq(VersionLoad)

RequestsOk ==
  /\ RequestsTyped
  /\ \A id \in persisted : IsRow(id)
  /\ edit.pc \in {"open", "saving"} => IsRow(edit.id)
  /\ \A n \in DOMAIN regens : IsRow(regens[n].of)
  /\ regenerating # NoId => regens # <<>> /\ regenerating = Last(regens).of
  /\ \A k \in DOMAIN loads : loads[k] # Answered => SameTurn(loads[k].from, loads[k].to)

(***************************************************************************)
(* The bubbles: a turn or a reply of a send, or a version of one.          *)
(***************************************************************************)
BubbleOk(m) ==
  \/ /\ m.siblings = <<>>
     /\ \E r \in Runs : run[r].pc # "idle" /\ m.id \in {UserId(r), BubbleId(r)}
  \/ \E t \in Heads : Begun(t) /\ {m.id} \cup Range(m.siblings) \subseteq Range(chains[t])

\* Whose bubble an id names.
Kin(id) == IF id[1] = "user" THEN id
           ELSE IF id[1] = "bubble" THEN RowId(id[2]) ELSE Turn(id)

BubblesApart ==
  \A i, j \in DOMAIN messages : Kin(messages[i].id) = Kin(messages[j].id) => i = j

Regenerated(id) == \E k \in DOMAIN regens : regens[k].of = id

\* What a variant carried comes first in the bubble that shows it.
ShowsVariant(m) ==
  \A n \in DOMAIN regens :
    m.id = Variant(n) /\ ~Regenerated(Variant(n))
      => IsPrefix(Copies(regens[n].tokens, VariantToken(n)), m.body)

\* The invariant the proofs carry from step to step.
AreaInv ==
  /\ HookTypeOK /\ LockedOnlyByAStream
  /\ \A r \in Runs : CallOk(r)
  /\ ChainsOk /\ RequestsOk
  /\ \A i \in DOMAIN messages : BubbleOk(messages[i]) /\ ShowsVariant(messages[i])
  /\ BubblesApart
=============================================================================
