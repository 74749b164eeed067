----------------------------- MODULE StreamHook -----------------------------
(***************************************************************************)
(* useStream (src/frontend/src/hooks/use-stream.ts): the state one chat    *)
(* area keeps of its conversation, and the requests it streams replies     *)
(* with.  A run is one call of sendMessage or continueMessage.  A reply is *)
(* the sequence of the runs its tokens came from, so that a token carries  *)
(* its origin; Stopped stands for the "_[stopped]_" stamp.                 *)
(*                                                                         *)
(* Events are atomic, as on the browser's event loop.  The rejection that  *)
(* an abort causes is a microtask: it lands before any other event.        *)
(***************************************************************************)
EXTENDS Naturals, Sequences, SequencesExt, FiniteSets

CONSTANTS
  MaxRuns,        \* calls of sendMessage and continueMessage
  MaxTokens,      \* tokens one stream carries
  HistoryTurns,   \* HISTORY_MAX_TURNS
  HistoryChars,   \* HISTORY_MAX_CHARS, in tokens
  Initial,        \* initialMessages
  InitialConv     \* conversationId, NoConv for a fresh chat

ASSUME BoundsAssumption ==
  /\ MaxRuns \in Nat /\ MaxTokens \in Nat
  /\ HistoryTurns \in Nat /\ HistoryChars \in Nat

Runs == 1..MaxRuns
NoRun == 0
Ids == {"none", "conv", "server", "user", "bubble", "row", "variant", "fork"} \X Nat
Message == [id : Ids, role : {"user", "assistant"}, body : Seq(Nat),
            thinking : BOOLEAN, truncated : BOOLEAN, row : Ids, siblings : Seq(Ids)]
Stopped == 0
NoId == <<"none", 0>>
NoConv == <<"none", 0>>
UserId(r) == <<"user", r>>
BubbleId(r) == <<"bubble", r>>
RowId(r) == <<"row", r>>

\* A hydrated message is a row the server had before this page: no call of the
\* page made its id or its text, and it knows of no other row.
ASSUME InitialAssumption ==
  /\ Initial \in Seq(Message) /\ InitialConv \in Ids
  /\ \A i \in DOMAIN Initial :
       /\ Initial[i].id[1] = "server"
       /\ Initial[i].row = NoId /\ Range(Initial[i].body) \cap Runs = {}
       /\ \A j \in DOMAIN Initial : Initial[i].id = Initial[j].id => i = j

VARIABLES
  messages, isStreaming, error,
  conversationId,    \* conversationIdRef
  lastUserMessage,   \* lastUserMessageRef
  buffer,            \* bufferRef
  raf,               \* rafIdRef: the run whose flush is scheduled
  flushNow,          \* flushNowRef: the run whose flushNow is published
  current,           \* currentAssistantIdRef
  controller,        \* abortControllerRef: the run it aborts
  run                \* the calls: closures, request bodies, progress

hookVars == <<messages, isStreaming, error, conversationId, lastUserMessage,
              buffer, raf, flushNow, current, controller, run>>

Idle == [pc |-> "idle", op |-> "none", target |-> NoId, row |-> NoId, text |-> 0,
         history |-> <<>>, conv |-> NoConv, opened |-> FALSE, tokens |-> 0, cut |-> FALSE]

User(r, text) ==
  [id |-> UserId(r), role |-> "user", body |-> <<text>>,
   thinking |-> FALSE, truncated |-> FALSE, row |-> NoId, siblings |-> <<>>]

Placeholder(r) ==
  [id |-> BubbleId(r), role |-> "assistant", body |-> <<>>,
   thinking |-> TRUE, truncated |-> FALSE, row |-> NoId, siblings |-> <<>>]

HookInit ==
  /\ messages = Initial /\ conversationId = InitialConv
  /\ isStreaming = FALSE /\ error = "none" /\ lastUserMessage = 0
  /\ buffer = <<>> /\ raf = NoRun /\ flushNow = NoRun
  /\ current = NoId /\ controller = NoRun
  /\ run = [r \in Runs |-> Idle]

(***************************************************************************)
(* buildHistoryPayload: the longest run of the newest spoken messages that *)
(* fits both caps.                                                         *)
(***************************************************************************)
Size(ms) == FoldSeq(LAMBDA m, n : n + Len(m.body), 0, ms)

BuildHistory(ms) ==
  LET said == SelectSeq(ms, LAMBDA m : ~m.thinking /\ m.body # <<>>)
      tail(n) == SubSeq(said, Len(said) - n + 1, Len(said))
      fits(n) == n <= HistoryTurns /\ Size(tail(n)) <= HistoryChars
      n == CHOOSE n \in 0..Len(said) :
             fits(n) /\ \A k \in (n + 1)..Len(said) : ~fits(k)
  IN  tail(n)

\* setMessages(prev => prev.map(m => m.id === id ? f(m) : m))
Patch(ms, id, f(_)) == [i \in DOMAIN ms |-> IF ms[i].id = id THEN f(ms[i]) ELSE ms[i]]

\* setMessages(prev => prev.filter(m => m.id !== id)): the k-th message left.
Without(ms, id) ==
  LET left == {i \in DOMAIN ms : ms[i].id # id}
  IN  [k \in 1..Cardinality(left) |->
         ms[CHOOSE i \in left : Cardinality({j \in left : j <= i}) = k]]

\* The body of a run's flush: what was buffered goes to the run's own bubble.
Flushed(r) ==
  IF r = NoRun \/ buffer = <<>> THEN messages
  ELSE Patch(messages, run[r].target,
         LAMBDA m : IF run[r].op = "send"
                    THEN [m EXCEPT !.body = @ \o buffer, !.thinking = FALSE]
                    ELSE [m EXCEPT !.body = @ \o buffer, !.truncated = FALSE])

(***************************************************************************)
(* Both calls begin alike; neither waits for the other.  Free is the run   *)
(* that is next.                                                           *)
(***************************************************************************)
Free(r) == run[r].pc = "idle" /\ \A q \in 1..(r - 1) : run[q].pc # "idle"

Begin(r, call) ==
  /\ Free(r)
  /\ isStreaming' = TRUE /\ error' = "none"
  /\ buffer' = <<>> /\ raf' = NoRun
  /\ flushNow' = r /\ controller' = r
  /\ run' = [run EXCEPT ![r] = [call EXCEPT !.pc = "fetching", !.conv = conversationId,
                                            !.history = BuildHistory(messages)]]
  /\ UNCHANGED conversationId

\* sendMessage: `shown` is what the setMessages calls queued before it leave;
\* the history is read from messagesRef, which still holds the last render.
SendMessage(r, text, shown) ==
  /\ Begin(r, [Idle EXCEPT !.op = "send", !.target = BubbleId(r), !.row = RowId(r),
                           !.text = text])
  /\ messages' = shown \o <<User(r, text), Placeholder(r)>>
  /\ lastUserMessage' = text
  /\ current' = BubbleId(r)

\* Mutant: an effect that does not wait for the stream under way.
ContinueWhileStreaming(r, m) ==
  /\ Begin(r, [Idle EXCEPT !.op = "continue", !.target = m.id, !.row = m.row])
  /\ UNCHANGED <<messages, lastUserMessage, current>>

\* continueMessage: the tokens go on in the bubble they are asked for.
ContinueMessage(r, m) ==
  /\ ~isStreaming
  /\ Begin(r, [Idle EXCEPT !.op = "continue", !.target = m.id, !.row = m.row])
  /\ UNCHANGED <<messages, lastUserMessage, current>>

\* Mutant: a finally that leaves the lock.
FinallyKeepsLock(r, outcome) ==
  /\ run' = [run EXCEPT ![r].pc = outcome, ![r].history = <<>>, ![r].cut = FALSE]
  /\ raf' = NoRun /\ buffer' = <<>>
  /\ controller' = NoRun /\ current' = NoId /\ flushNow' = NoRun
  /\ UNCHANGED isStreaming

\* The finally block of both, after which the run stays as `outcome` left it.
Finally(r, outcome) ==
  /\ run' = [run EXCEPT ![r].pc = outcome, ![r].history = <<>>, ![r].cut = FALSE]
  /\ raf' = NoRun /\ buffer' = <<>>
  /\ isStreaming' = FALSE
  /\ controller' = NoRun /\ current' = NoId /\ flushNow' = NoRun

\* Mutant: a failed send that leaves its placeholder.
FailKeepsPlaceholder(r, kind) ==
  /\ Finally(r, "failed")
  /\ IF run[r].op = "send"
     THEN messages' = Flushed(r) /\ error' = kind
     ELSE UNCHANGED <<messages, error>>
  /\ UNCHANGED <<conversationId, lastUserMessage>>

\* A failed send drops its placeholder and says why; a failed continuation
\* swallows the failure, and what it had buffered.
Fail(r, kind) ==
  /\ Finally(r, "failed")
  /\ IF run[r].op = "send"
     THEN /\ messages' = Without(Flushed(r), run[r].target)
          /\ error' = kind
     ELSE UNCHANGED <<messages, error>>
  /\ UNCHANGED <<conversationId, lastUserMessage>>

(***************************************************************************)
(* The steps of a run: what the network does to it.                        *)
(***************************************************************************)
\* The request's body is gone once it is answered.
Step(r, from, to) ==
  run[r].pc = from /\ run' = [run EXCEPT ![r].pc = to, ![r].history = <<>>]

Headers(r) ==
  /\ Step(r, "fetching", "open")
  /\ UNCHANGED <<messages, isStreaming, error, conversationId, lastUserMessage,
                 buffer, raf, flushNow, current, controller>>

\* !res.ok: a send drains the buffer, then awaits the body of the refusal.
Refused(r) ==
  /\ run[r].op = "send" /\ Step(r, "fetching", "refused")
  /\ messages' = Flushed(r) /\ buffer' = <<>> /\ raf' = NoRun
  /\ UNCHANGED <<isStreaming, error, conversationId, lastUserMessage,
                 flushNow, current, controller>>

\* Mutant: a status of the refusal that has no banner.
RefusedBodyUnknown(r) ==
  /\ run[r].pc = "refused"
  /\ \E kind \in {"auth", "client"} : Fail(r, kind)

RefusedBody(r) ==
  /\ run[r].pc = "refused"
  /\ \E kind \in {"auth", "rate_limit", "server"} : Fail(r, kind)

\* Mutant: a refused continuation that returns before its finally.
ContinuationGivesUp(r) ==
  /\ run[r].op = "continue" /\ Step(r, "fetching", "failed")
  /\ UNCHANGED <<messages, isStreaming, error, conversationId, lastUserMessage,
                 buffer, raf, flushNow, current, controller>>

ContinuationRefused(r) ==
  run[r].op = "continue" /\ run[r].pc = "fetching" /\ Fail(r, "none")

\* Mutant: the conversation of the first event is not kept.
FirstEventForgets(r) ==
  /\ run[r].pc = "open"
  /\ run' = [run EXCEPT ![r].pc = "reading", ![r].opened = TRUE]
  /\ UNCHANGED <<messages, isStreaming, error, conversationId, lastUserMessage,
                 buffer, raf, flushNow, current, controller>>

\* The first event carries the conversation; continueMessage does not read it.
FirstEvent(r) ==
  /\ run[r].pc = "open"
  /\ run' = [run EXCEPT ![r].pc = "reading", ![r].opened = TRUE]
  /\ conversationId' = IF run[r].op = "continue" THEN conversationId
                       ELSE IF run[r].conv = NoConv THEN <<"conv", r>> ELSE run[r].conv
  /\ UNCHANGED <<messages, isStreaming, error, lastUserMessage,
                 buffer, raf, flushNow, current, controller>>

Chunk(r) ==
  /\ run[r].pc = "reading" /\ run[r].tokens < MaxTokens
  /\ run' = [run EXCEPT ![r].tokens = @ + 1]
  /\ buffer' = Append(buffer, r)
  /\ raf' = IF raf = NoRun THEN r ELSE raf
  /\ UNCHANGED <<messages, isStreaming, error, conversationId, lastUserMessage,
                 flushNow, current, controller>>

\* Mutant: done leaves the last tokens to a frame it cancels.
DoneWithoutFlush(r, truncated) ==
  /\ run[r].pc = "reading"
  /\ run' = [run EXCEPT ![r].pc = "done", ![r].cut = truncated]
  /\ buffer' = <<>> /\ raf' = NoRun
  /\ messages' = Patch(messages, run[r].target, LAMBDA m : [m EXCEPT !.truncated = truncated])
  /\ UNCHANGED <<isStreaming, error, conversationId, lastUserMessage,
                 flushNow, current, controller>>

\* done: the last synchronous flush, and the mark of a reply cut short.
Done(r, truncated) ==
  /\ run[r].pc = "reading"
  /\ run' = [run EXCEPT ![r].pc = "done", ![r].cut = truncated]
  /\ buffer' = <<>> /\ raf' = NoRun
  /\ messages' = IF truncated
                 THEN Patch(Flushed(r), run[r].target,
                            LAMBDA m : [m EXCEPT !.truncated = TRUE])
                 ELSE Flushed(r)
  /\ UNCHANGED <<isStreaming, error, conversationId, lastUserMessage,
                 flushNow, current, controller>>

\* meta, when the reply has a row and its line was not in done's read (the
\* break there skips the rest of the read).
Meta(r) ==
  /\ run[r].tokens > 0 /\ Step(r, "done", "known")
  /\ messages' =
       Patch(messages, run[r].target,
             LAMBDA m : IF run[r].op = "send"
                        THEN [m EXCEPT !.id = RowId(r), !.row = RowId(r), !.truncated = run[r].cut]
                        ELSE [m EXCEPT !.row = RowId(r), !.truncated = run[r].cut])
  /\ UNCHANGED <<isStreaming, error, conversationId, lastUserMessage,
                 buffer, raf, flushNow, current, controller>>

EndOfStream(r) ==
  /\ run[r].pc \in {"done", "known"} /\ Finally(r, "ended")
  /\ UNCHANGED <<messages, error, conversationId, lastUserMessage>>

Live == {"fetching", "refused", "open", "reading", "done", "known"}

PcStates == Live \cup {"idle", "aborted", "body aborted", "ended", "failed"}

\* fetch rejects, or the connection drops; or the stream carries an error, which
\* a send takes for the server's and a continuation for the end.  A lost refusal
\* body is read as null.
NetFail(r) ==
  \/ run[r].pc \in Live \ {"refused"} /\ Fail(r, "network")
  \/ run[r].pc \in {"open", "reading"} /\ Fail(r, "server")

\* The animation frame: the flush that was scheduled.
Frame ==
  /\ raf # NoRun
  /\ raf' = NoRun /\ messages' = Flushed(raf) /\ buffer' = <<>>
  /\ UNCHANGED <<isStreaming, error, conversationId, lastUserMessage,
                 flushNow, current, controller, run>>

(***************************************************************************)
(* cancel and retry.                                                       *)
(***************************************************************************)
Cancel ==
  /\ isStreaming
  /\ messages' = Patch(Flushed(flushNow), current,
                       LAMBDA m : [m EXCEPT !.body = Append(@, Stopped), !.thinking = FALSE])
  /\ buffer' = IF flushNow = NoRun THEN buffer ELSE <<>>
  /\ raf' = IF flushNow = NoRun THEN raf ELSE NoRun
  /\ run' = IF controller = NoRun \/ run[controller].pc \notin Live THEN run
            ELSE [run EXCEPT ![controller].pc =
                    IF @ = "refused" THEN "body aborted" ELSE "aborted"]
  /\ isStreaming' = FALSE
  /\ UNCHANGED <<error, conversationId, lastUserMessage, flushNow, current, controller>>

\* The AbortError is swallowed; an aborted refusal body is read as null, and
\* its status still decides the banner.
AbortLands(r) ==
  \/ /\ run[r].pc = "aborted" /\ Finally(r, "ended")
     /\ messages' = IF run[r].op = "send" THEN Flushed(r) ELSE messages
     /\ UNCHANGED <<error, conversationId, lastUserMessage>>
  \/ /\ run[r].pc = "body aborted"
     /\ \E kind \in {"auth", "rate_limit", "server"} : Fail(r, kind)

\* The newest user message that says the same is taken out before it is sent
\* again, without its attachments.
WithoutLastTurn(text) ==
  LET same == {i \in DOMAIN messages : messages[i].role = "user" /\ messages[i].body = <<text>>}
      last == CHOOSE i \in same : \A j \in same : j <= i
  IN  IF same = {} THEN messages ELSE RemoveAt(messages, last)

Retry(r) ==
  /\ Free(r)
  /\ lastUserMessage # 0 /\ ~isStreaming /\ error \notin {"none", "auth"}
  /\ SendMessage(r, lastUserMessage, WithoutLastTurn(lastUserMessage))

Pending == \E r \in Runs : run[r].pc \in {"aborted", "body aborted"}

NetworkStep(r) ==
  /\ ~Pending
  /\ \/ Headers(r) \/ Refused(r) \/ RefusedBody(r) \/ ContinuationRefused(r)
     \/ FirstEvent(r) \/ Chunk(r) \/ Meta(r) \/ EndOfStream(r) \/ NetFail(r)
     \/ \E truncated \in BOOLEAN : Done(r, truncated)

(***************************************************************************)
(* The two callers every chat area has: handleSend, and the effect that    *)
(* continues a truncated last reply 800 ms after the stream ended.  A      *)
(* turn's text is named by the run that first sends it.                    *)
(***************************************************************************)
HandleSend(r) == ~isStreaming /\ SendMessage(r, r, messages)

AutoContinue(r) ==
  /\ messages # <<>>
  /\ LET m == Last(messages) IN
       /\ m.role = "assistant" /\ m.truncated /\ m.row # NoId
       /\ ContinueMessage(r, m)

HookStep ==
  \/ \E r \in Runs : AbortLands(r) \/ NetworkStep(r)
  \/ ~Pending /\ (Frame \/ Cancel)
  \/ ~Pending /\ \E r \in Runs : Retry(r) \/ HandleSend(r) \/ AutoContinue(r)

HookFairness ==
  /\ \A r \in Runs : WF_hookVars(AbortLands(r)) /\ WF_hookVars(NetworkStep(r))
  /\ WF_hookVars(~Pending /\ Frame)

HookSpec == HookInit /\ [][HookStep]_hookVars /\ HookFairness

(***************************************************************************)
(* Properties.                                                             *)
(***************************************************************************)

\* Type invariant.
HookTypeOK ==
  /\ messages \in Seq(Message)
  /\ isStreaming \in BOOLEAN
  /\ error \in {"none", "auth", "rate_limit", "server", "network"}
  /\ conversationId \in Ids /\ current \in Ids
  /\ raf \in Runs \cup {NoRun} /\ flushNow \in Runs \cup {NoRun}
  /\ controller \in Runs \cup {NoRun}
  /\ lastUserMessage \in Runs \cup {NoRun}
  /\ buffer \in Seq(Runs)
  /\ DOMAIN run = Runs
  /\ \A r \in Runs :
       /\ DOMAIN run[r] = DOMAIN Idle
       /\ run[r].pc \in PcStates /\ run[r].op \in {"none", "send", "continue"}
       /\ run[r].target \in Ids /\ run[r].row \in Ids /\ run[r].conv \in Ids
       /\ run[r].text \in Runs \cup {NoRun} /\ run[r].tokens \in 0..MaxTokens
       /\ run[r].opened \in BOOLEAN /\ run[r].cut \in BOOLEAN

\* One stream at a time, and everything the hook shares between calls - the
\* buffer, the frame, the published flush, the controller - is that stream's:
\* isStreaming keeps the calls apart, and every exit clears what it leaves.
OneStreamAtATime ==
  /\ \A r \in Runs : run[r].pc \in Live \cup {"aborted", "body aborted"} =>
       /\ controller = r /\ flushNow = r
       /\ Range(buffer) \subseteq {r} /\ raf \in {NoRun, r}
       /\ isStreaming <=> run[r].pc \in Live
  /\ ~isStreaming /\ ~Pending =>
       controller = NoRun /\ flushNow = NoRun /\ buffer = <<>> /\ raf = NoRun /\ current = NoId

Count(body, r) == Cardinality({i \in DOMAIN body : body[i] = r})

\* Tokens reach the bubble that asked for them and no other (the flush of one
\* run never carries another run's tokens, and no frame outlives its run): a
\* reply holds its own send's tokens and those of the runs that continue it.
TokensInTheirBubble ==
  \A i \in DOMAIN messages : \A r \in Runs :
    messages[i].role = "assistant" /\ Count(messages[i].body, r) > 0
      => messages[i].id \in {run[r].target, run[r].row}

\* No token is dropped at a stream's end, its error or its abort: when a stream
\* is over, the bubble it wrote holds every token it carried (only a failed
\* continuation gives up its buffer).
NoTokenDropped ==
  \A r \in Runs : \A i \in DOMAIN messages :
    /\ run[r].pc \in {"done", "known", "ended"} \/ (run[r].pc = "failed" /\ run[r].op = "send")
    /\ messages[i].id \in {run[r].target, run[r].row}
    => Count(messages[i].body, r) = run[r].tokens

\* An error offers a retry of the turn it is about: the newest user turn is the
\* one retry would resend, and no unfinished reply is left under it.
ErrorIsAboutTheLastTurn ==
  error # "none" /\ ~isStreaming =>
    LET turn == SelectLastInSeq(messages, LAMBDA m : m.role = "user") IN
      /\ turn > 0 /\ messages[turn].body = <<lastUserMessage>>
      /\ \A i \in (turn + 1)..Len(messages) : messages[i].row # NoId

\* Once a stream has told the hook its conversation, no later send opens
\* another one.
NoSecondConversation ==
  \A q, r \in Runs :
    q < r /\ run[q].op = "send" /\ run[q].opened /\ run[r].pc # "idle" => run[r].conv # NoConv

\* Streaming ends: the composer is unlocked again, whatever the network does.
StreamingEnds == isStreaming ~> ~isStreaming
=============================================================================
