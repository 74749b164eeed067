------------------------------ MODULE ChatArea ------------------------------
(***************************************************************************)
(* ChatArea (src/frontend/src/app/(portal)/chat/page.tsx): what a student  *)
(* does to a transcript while useStream writes it - edit a turn,           *)
(* regenerate a reply, step between its variants.  Each of these is a      *)
(* request of its own whose answer is applied to whatever transcript is on *)
(* screen when it lands.                                                   *)
(***************************************************************************)
EXTENDS StreamHook

CONSTANTS
  RowBody,      \* content of the rows the server had at mount
  MaxRegens,    \* regenerations
  MaxLoads,     \* loads of a sibling
  MaxWork       \* all of these together, a call of the hook counting twice

\* sibling_ids lists every version of a turn or reply, or nothing when there is
\* only one; no two turns share a version.
Versions(m) == IF m.siblings = <<>> THEN <<m.id>> ELSE m.siblings

ASSUME AreaAssumption ==
  /\ MaxRegens \in Nat /\ MaxLoads \in Nat /\ MaxWork \in Nat
  /\ \A id \in DOMAIN RowBody : id \in Ids /\ id[1] = "server" /\ RowBody[id] \in Seq(Nat)
  /\ \A i \in DOMAIN Initial :
       /\ Initial[i].id \in Range(Versions(Initial[i]))
       /\ Range(Versions(Initial[i])) \subseteq DOMAIN RowBody
       /\ \A j \in DOMAIN Initial :
            i # j => Range(Versions(Initial[i])) \cap Range(Versions(Initial[j])) = {}

VARIABLES
  persisted,     \* persistedIdSet: ids known to be rows
  edit,          \* the editor of a user bubble, and the edit it sent
  regenerating,  \* regeneratingId
  regens,        \* the variants streamed so far; the last may be in flight
  loads,         \* the handleSelectSibling calls made, the ones in flight with their ids
  chains         \* the server's versions of each turn and reply, oldest first

areaVars == <<persisted, edit, regenerating, regens, loads, chains>>
vars == <<hookVars, areaVars>>

Variant(n) == <<"variant", n>>
VariantToken(n) == 200 + n
ForkId == <<"fork", 0>>
EditText == 300

AreaInit ==
  /\ HookInit
  /\ persisted = {m.id : m \in Range(Initial)} \cup UNION {Range(m.siblings) : m \in Range(Initial)}
  /\ edit = [pc |-> "closed", id |-> NoId, streaming |-> FALSE, forked |-> FALSE, run |-> NoRun]
  /\ regenerating = NoId /\ regens = <<>>
  /\ loads = <<>>
  /\ chains = [t \in {m.id : m \in Range(Initial)} \cup {RowId(r) : r \in Runs} |->
                IF t[1] = "row" THEN <<t>> ELSE Versions(CHOOSE m \in Range(Initial) : m.id = t)]

Answered == [from |-> NoId, to |-> NoId]

Copies(n, t) == [i \in 1..n |-> t]

\* Content of a row, as the server returns it.
ServerBody(id) ==
  CASE id \in DOMAIN RowBody -> RowBody[id]
    [] id[1] = "variant"     -> Copies(regens[id[2]].tokens, VariantToken(id[2]))
    [] id[1] = "row"         -> Copies(run[id[2]].tokens, id[2])
    [] id = ForkId           -> <<EditText>>

Turn(id) == CHOOSE t \in DOMAIN chains : id \in Range(chains[t])

\* _message_to_read: sibling_ids, empty when there is nothing to switch to.
SiblingIds(id) == LET chain == chains[Turn(id)] IN IF Len(chain) > 1 THEN chain ELSE <<>>

\* record_assistant_message, with the parent of the reply that is regenerated.
Store(n) == [chains EXCEPT ![Turn(regens[n].of)] = Append(@, Variant(n))]

Shown(id) == \E m \in Range(messages) : m.id = id

\* Mutant: actions offered before the reply is known to be a row.
OffersActionsEarly(i) ==
  LET m == messages[i] IN
    m.role = "assistant" /\ ~m.thinking /\ m.body # <<>> /\ ~(isStreaming /\ i = Len(messages))

\* AssistantBubble: which hover actions a reply offers.
OffersActions(i) ==
  LET m == messages[i] IN
    /\ m.role = "assistant" /\ m.id \in persisted
    /\ ~m.thinking /\ m.body # <<>> /\ ~(isStreaming /\ i = Len(messages))

(***************************************************************************)
(* Editing a user turn (UserBubble, handleEditUserMessage).  Of the edits  *)
(* that are saved, one at most reaches the server.                         *)
(***************************************************************************)
\* The pencil, or ArrowUp in the empty composer; both want an idle stream.
OpenEditor ==
  /\ edit.pc = "closed" /\ ~isStreaming
  /\ \E m \in Range(messages) :
       /\ m.role = "user" /\ m.id \in persisted
       /\ edit' = [edit EXCEPT !.pc = "open", !.id = m.id]
  /\ UNCHANGED <<hookVars, persisted, regenerating, regens, loads, chains>>

CloseEditor ==
  /\ edit.pc = "open" /\ edit' = [edit EXCEPT !.pc = "closed"]
  /\ UNCHANGED <<hookVars, persisted, regenerating, regens, loads, chains>>

\* Save: the handler keeps the sendMessage of this render, and its isStreaming.
SaveEdit ==
  /\ edit.pc = "open" /\ Shown(edit.id) /\ ~edit.forked
  /\ edit' = [edit EXCEPT !.pc = "saving", !.streaming = isStreaming]
  /\ UNCHANGED <<hookVars, persisted, regenerating, regens, loads, chains>>

\* edit_user_message: the new text becomes a version of the turn, and what came
\* after the turn is deleted.
EditForks ==
  /\ edit.pc = "saving" /\ ~edit.forked
  /\ edit' = [edit EXCEPT !.forked = TRUE]
  /\ chains' = [chains EXCEPT ![Turn(edit.id)] = Append(@, ForkId)]
  /\ UNCHANGED <<hookVars, persisted, regenerating, regens, loads>>

\* Refused, or its answer is lost.
EditFails ==
  /\ edit.pc = "saving" /\ edit' = [edit EXCEPT !.pc = "open"]
  /\ UNCHANGED <<hookVars, persisted, regenerating, regens, loads, chains>>

UpTo(id) ==
  LET i == SelectInSeq(messages, LAMBDA m : m.id = id)
  IN  IF i = 0 THEN messages ELSE SubSeq(messages, 1, i - 1)

\* The server has forked the turn: drop it and all after it, if the bubble still
\* has the id it was edited under, then send the new text, which the captured sendMessage does only if it saw no stream.  The
\* hydrate that follows looks for the new bubble among the server's rows and,
\* its id being the client's own, changes nothing.
EditLands ==
  /\ edit.pc = "saving" /\ edit.forked
  /\ persisted' = persisted \cup Range(chains[Turn(edit.id)])
  /\ IF edit.streaming
     THEN /\ messages' = UpTo(edit.id)
          /\ edit' = [edit EXCEPT !.pc = "landed"]
          /\ UNCHANGED <<isStreaming, error, conversationId, lastUserMessage,
                         buffer, raf, flushNow, current, controller, run>>
     ELSE \E r \in Runs :
            /\ SendMessage(r, r, UpTo(edit.id))
            /\ edit' = [edit EXCEPT !.pc = "landed", !.run = r]
  /\ UNCHANGED <<regenerating, regens, loads, chains>>

(***************************************************************************)
(* Regenerating a reply (handleRegenerate; also "explain differently").    *)
(***************************************************************************)
Regenerate ==
  /\ regenerating = NoId /\ Len(regens) < MaxRegens
  /\ \E i \in DOMAIN messages :
       /\ OffersActions(i)
       /\ regenerating' = messages[i].id
       /\ regens' = Append(regens, [of |-> messages[i].id, tokens |-> 0, pc |-> "fetching"])
  /\ UNCHANGED <<hookVars, persisted, edit, loads, chains>>

RegenStep(from, to) ==
  /\ regenerating # NoId /\ Last(regens).pc = from
  /\ regens' = [regens EXCEPT ![Len(regens)].pc = to]

ShowOnly(ms) ==
  /\ messages' = ms
  /\ UNCHANGED <<isStreaming, error, conversationId, lastUserMessage,
                 buffer, raf, flushNow, current, controller, run>>

RegenOpens ==
  /\ RegenStep("fetching", "reading")
  /\ ShowOnly(Patch(messages, regenerating, LAMBDA m : [m EXCEPT !.body = <<>>, !.thinking = TRUE]))
  /\ UNCHANGED <<persisted, edit, regenerating, loads, chains>>

\* Every chunk shows all that came so far, whatever else was written meanwhile.
RegenChunk ==
  LET n == Len(regens) IN
  /\ regenerating # NoId /\ Last(regens).pc = "reading" /\ Last(regens).tokens < MaxTokens
  /\ regens' = [regens EXCEPT ![n].tokens = @ + 1]
  /\ ShowOnly(Patch(messages, regenerating,
                LAMBDA m : [m EXCEPT !.body = Copies(regens[n].tokens + 1, VariantToken(n)),
                                     !.thinking = FALSE]))
  /\ UNCHANGED <<persisted, edit, regenerating, loads, chains>>

\* The stream is over, with a notice when the agent failed; what it carried is
\* stored by then, unless the database refused it.
RegenEnds ==
  LET n == Len(regens) IN
  /\ RegenStep("reading", IF conversationId = NoConv THEN "over" ELSE "hydrating")
  /\ regenerating' = IF conversationId = NoConv THEN NoId ELSE regenerating
  /\ \/ UNCHANGED hookVars
     \/ ShowOnly(Patch(messages, regenerating,
          LAMBDA m : [m EXCEPT !.body = Append(Copies(regens[n].tokens, VariantToken(n)), Stopped),
                               !.thinking = FALSE]))
  /\ chains' \in {chains} \cup (IF regens[n].tokens > 0 THEN {Store(n)} ELSE {})
  /\ UNCHANGED <<persisted, edit, loads>>

\* Mutant: the hydrate takes the newest id with the text of the row it was asked for.
RegenHydratedOldText ==
  LET siblings == SiblingIds(regenerating)
      newest == IF siblings = <<>> THEN regenerating ELSE Last(siblings)
  IN
  /\ RegenStep("hydrating", "over") /\ regenerating' = NoId
  /\ ShowOnly(Patch(messages, regenerating,
       LAMBDA m : [m EXCEPT !.id = newest, !.body = ServerBody(regenerating),
                            !.siblings = siblings, !.thinking = FALSE]))
  /\ persisted' = persisted \cup Range(siblings)
  /\ UNCHANGED <<edit, loads, chains>>

\* The bubble takes the id and content of the newest version of the reply,
\* unless an edit has taken the turn from the server's transcript.
RegenHydrated ==
  LET siblings == SiblingIds(regenerating)
      newest == IF siblings = <<>> THEN regenerating ELSE Last(siblings)
  IN
  /\ RegenStep("hydrating", "over") /\ regenerating' = NoId
  /\ \/ /\ ShowOnly(Patch(messages, regenerating,
               LAMBDA m : [m EXCEPT !.id = newest, !.body = ServerBody(newest),
                                    !.siblings = siblings, !.thinking = FALSE]))
        /\ persisted' = persisted \cup Range(siblings)
     \/ /\ edit.forked
        /\ ShowOnly(Patch(messages, regenerating, LAMBDA m : [m EXCEPT !.siblings = <<>>]))
        /\ UNCHANGED persisted
  /\ UNCHANGED <<edit, loads, chains>>

\* Refused, cut off, or not hydrated: the bubble stays as it is.
RegenFails ==
  /\ regenerating # NoId /\ regenerating' = NoId
  /\ \/ RegenStep("fetching", "over") \/ RegenStep("hydrating", "over")
     \/ RegenStep("fetching", "dropped") \/ RegenStep("reading", "dropped")
  /\ UNCHANGED <<hookVars, persisted, edit, loads, chains>>

\* What the server had of a stream it could not deliver is stored when it
\* notices, which may be after later answers.
StoredLate(n) ==
  /\ regens[n].pc = "dropped"
  /\ \E t \in regens[n].tokens..MaxTokens :
       t > 0 /\ regens' = [regens EXCEPT ![n].pc = "over", ![n].tokens = t]
  /\ chains' = Store(n)
  /\ UNCHANGED <<hookVars, persisted, edit, regenerating, loads>>

(***************************************************************************)
(* Stepping to a neighbouring variant (SiblingNavigator,                   *)
(* handleSelectSibling).                                                   *)
(***************************************************************************)
OffersVersions(i) ==
  LET m == messages[i] IN
    \/ OffersActions(i) /\ m.id # regenerating
    \/ m.role = "user" /\ m.id \in persisted /\ ~(edit.pc \in {"open", "saving"} /\ edit.id = m.id)

SelectSibling ==
  /\ Len(loads) < MaxLoads
  /\ \E i \in DOMAIN messages :
       LET m == messages[i] IN
       /\ OffersVersions(i)
       /\ \E j, k \in DOMAIN m.siblings :
            /\ m.siblings[k] = m.id /\ j \in {k - 1, k + 1}
            /\ loads' = Append(loads, [from |-> m.id, to |-> m.siblings[j]])
  /\ UNCHANGED <<hookVars, persisted, edit, regenerating, regens, chains>>

\* Mutant: the answer goes to every idle reply, not to the one it was asked for.
SiblingLandsAnywhere(k) ==
  LET load == loads[k] IN
  /\ load # Answered /\ loads' = [loads EXCEPT ![k] = Answered]
  /\ persisted' = persisted \cup {load.to} \cup Range(SiblingIds(load.to))
  /\ ShowOnly([i \in DOMAIN messages |->
                 IF messages[i].role = "assistant" /\ messages[i].id # regenerating
                 THEN [messages[i] EXCEPT !.id = load.to, !.body = ServerBody(load.to)] ELSE messages[i]])
  /\ UNCHANGED <<edit, regenerating, regens, chains>>

\* The bubble that still has the id takes the version, and the versions there
\* are by now.
SiblingLands(k) ==
  LET load == loads[k]
      siblings == SiblingIds(load.to) IN
  /\ load # Answered /\ loads' = [loads EXCEPT ![k] = Answered]
  /\ persisted' = persisted \cup {load.to} \cup Range(siblings)
  /\ ShowOnly(Patch(messages, load.from,
                LAMBDA m : [m EXCEPT !.id = load.to, !.body = ServerBody(load.to),
                                     !.siblings = IF siblings = <<>> THEN @ ELSE siblings,
                                     !.thinking = FALSE]))
  /\ UNCHANGED <<edit, regenerating, regens, chains>>

SiblingFails(k) ==
  /\ loads[k] # Answered /\ loads' = [loads EXCEPT ![k] = Answered]
  /\ UNCHANGED <<hookVars, persisted, edit, regenerating, regens, chains>>

(***************************************************************************)
(* The area: the hook, whose persisted replies join persistedIdSet         *)
(* (onMessagePersisted), and the student.                                  *)
(***************************************************************************)
Streams ==
  /\ HookStep
  /\ persisted' = persisted \cup {RowId(r) : r \in {q \in Runs :
                    run[q].op = "send" /\ run'[q].pc = "known"}}
  /\ UNCHANGED <<edit, regenerating, regens, loads, chains>>

RegenAnswers == RegenOpens \/ RegenChunk \/ RegenEnds \/ RegenHydrated \/ RegenFails

Answers ==
  \/ EditForks \/ EditLands \/ EditFails
  \/ RegenAnswers \/ \E n \in DOMAIN regens : StoredLate(n)
  \/ \E k \in DOMAIN loads : SiblingLands(k) \/ SiblingFails(k)

Clicks ==
  \/ OpenEditor \/ CloseEditor \/ SaveEdit \/ Regenerate \/ SelectSibling

Work == 2 * Cardinality({r \in Runs : run[r].pc # "idle"}) + Len(regens) + Len(loads)

AreaNext ==
  /\ Streams \/ (~Pending /\ (Answers \/ Clicks))
  /\ Work' <= MaxWork

AreaSpec == AreaInit /\ [][AreaNext]_vars

(***************************************************************************)
(* Properties.                                                             *)
(***************************************************************************)

\* The composer is never locked for nothing: while isStreaming holds some call
\* is still on the network, whatever edits and overlapping streams did.
LockedOnlyByAStream ==
  isStreaming => \E r \in Runs : run[r].pc \in Live

\* The rows the server has.
Rows ==
  DOMAIN RowBody \cup {RowId(r) : r \in {q \in Runs : run[q].tokens > 0}}
    \cup {id \in UNION {Range(chains[t]) : t \in DOMAIN chains} : id[1] \in {"variant", "fork"}}

\* A request about a message names a row of the server, never the id the client
\* made up for a turn that is still streaming nor a variant that was not stored.
RequestsNameRows ==
  LET named == (IF edit.pc = "saving" THEN {edit.id} ELSE {})
                 \cup {regens[n].of : n \in DOMAIN regens}
                 \cup UNION {{load.from, load.to} : load \in Range(loads) \ {Answered}}
  IN  named \subseteq Rows

\* Two bubbles never share an id, which is the key they are rendered and patched
\* by, whatever order regenerations, variants and replies land in.
OneBubblePerId ==
  \A i, j \in DOMAIN messages : messages[i].id = messages[j].id => i = j

\* A bubble that has taken a variant's id shows that variant's text first, not
\* what else was written to the bubble while the variant streamed - unless the
\* variant was itself regenerated, which writes under its id.
VariantShowsItsText ==
  \A m \in Range(messages) :
    m.id[1] = "variant" /\ (\A n \in DOMAIN regens : regens[n].of # m.id)
      => IsPrefix(ServerBody(m.id), m.body)

(***************************************************************************)
(* Claims of the code's comments.                                          *)
(***************************************************************************)

\* page.tsx:2624 - an edit's new text is sent, "identical to a normal send from
\* the UI's perspective".
EditedTurnIsSent == edit.pc = "landed" => edit.run # NoRun
=============================================================================
