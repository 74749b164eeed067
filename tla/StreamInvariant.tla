-------------------------- MODULE StreamInvariant --------------------------
(***************************************************************************)
(* The inductive invariant of StreamHook: who owns what the calls of the   *)
(* hook share, which message each call writes to, and where the tokens of  *)
(* a stream are between any two events.                                    *)
(***************************************************************************)
EXTENDS StreamHook

Busy(r) == run[r].pc \in Live \cup {"aborted", "body aborted"}

(***************************************************************************)
(* The calls.                                                              *)
(***************************************************************************)
\* The lock is held by a stream, and only a stream that is read buffers.
OneOwner ==
  /\ OneStreamAtATime
  /\ isStreaming => \E r \in Runs : run[r].pc \in Live
  /\ \A r \in Runs : Busy(r) /\ run[r].pc # "reading" => buffer = <<>>

\* A call is made when every earlier one is over.
CallsInOrder ==
  \A q, r \in Runs : q < r /\ run[r].pc # "idle" => run[q].pc # "idle" /\ ~Busy(q)

\* The conversation of an opened send is kept, and given to every later call.
KeepsConversation ==
  /\ \A q \in Runs : run[q].op = "send" /\ run[q].opened => conversationId # NoConv
  /\ NoSecondConversation

\* A send writes to its own bubble, a continuation to one that has a row.
CallShape(r) ==
  /\ run[r].pc = "idle" <=> run[r].op = "none"
  /\ run[r].op = "none" => run[r].target = NoId /\ run[r].row = NoId /\ run[r].tokens = 0
                           /\ ~run[r].opened
  /\ run[r].op = "send" => run[r].target = BubbleId(r) /\ run[r].row = RowId(r)
  /\ run[r].op = "continue" =>
       /\ \E q \in Runs : q < r /\ run[r].target = RowId(q)
       /\ \/ run[r].row = run[r].target
          \/ \E p \in Runs : run[p].op = "continue" /\ run[r].row = RowId(p)
  /\ run[r].pc \in {"refused", "body aborted"} => run[r].op = "send"

CallInv ==
  /\ OneOwner /\ CallsInOrder /\ KeepsConversation
  /\ \A r \in Runs : CallShape(r)
  /\ current # NoId => \E r \in Runs : current = BubbleId(r)

(***************************************************************************)
(* The messages.                                                           *)
(***************************************************************************)
\* Whose a message is, by its id; a bubble that has a row carries its id.
MessageShape(m) ==
  /\ m.id[1] \notin {"none", "variant", "fork"}
  /\ m.id[1] \in {"user", "bubble", "row"} => \E r \in Runs : m.id = <<m.id[1], r>>
  /\ \A r \in Runs :
       /\ m.id = UserId(r) => m.role = "user" /\ run[r].pc # "idle"
       /\ m.id = BubbleId(r) => m.role = "assistant" /\ run[r].op = "send"
       /\ m.id = RowId(r) => /\ m.role = "assistant" /\ run[r].op = "send" /\ m.row # NoId
                             /\ run[r].pc \in {"known", "aborted", "ended", "failed"}
  /\ m.row # NoId =>
       /\ \E r \in Runs : m.id = RowId(r)
       /\ m.row = m.id \/ \E p \in Runs : run[p].op = "continue" /\ m.row = RowId(p)

DistinctIds ==
  \A i, j \in DOMAIN messages : messages[i].id = messages[j].id => i = j

\* The transcript of a send under way ends with its turn and its bubble.
TurnAtEnd(r) ==
  Busy(r) /\ run[r].op = "send" =>
    /\ Len(messages) >= 2
    /\ messages[Len(messages) - 1].role = "user"
    /\ messages[Len(messages) - 1].body = <<lastUserMessage>>
    /\ messages[Len(messages)].id \in {BubbleId(r), RowId(r)}
    /\ \A i \in DOMAIN messages : messages[i].id = BubbleId(r) => i = Len(messages)

\* An error is shown once the call it is about is over, under its turn.
ErrorShape ==
  error # "none" =>
    /\ \A r \in Runs : ~Busy(r)
    /\ \E n \in {Len(messages) - 1, Len(messages)} :
         /\ n > 0 /\ messages[n].role = "user" /\ messages[n].body = <<lastUserMessage>>
         /\ \A i \in DOMAIN messages : i > n => /\ messages[i].role = "assistant"
                                                /\ messages[i].row # NoId

\* The tokens of a call are in the buffer or in the bubble it writes to.
TokensKept(r) ==
  run[r].op = "send" \/ run[r].pc # "failed" =>
    \A i \in DOMAIN messages :
      messages[i].id \in {run[r].target, run[r].row} =>
        Count(messages[i].body, r) + Count(buffer, r) = run[r].tokens

MessageInv ==
  /\ DistinctIds /\ ErrorShape /\ TokensInTheirBubble
  /\ \A i \in DOMAIN messages : MessageShape(messages[i])
  /\ \A r \in Runs : TurnAtEnd(r) /\ TokensKept(r)

\* The invariant the proofs carry from step to step.
HookInv == HookTypeOK /\ CallInv /\ MessageInv
=============================================================================
