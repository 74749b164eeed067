--------------------------- MODULE ChatAreaProofs ---------------------------
(***************************************************************************)
(* The invariant of the chat area (AreaInvariant) holds whatever edits,    *)
(* regenerations and variant loads are answered while streams come and go, *)
(* and what follows from it: no lock without a stream, requests that name  *)
(* rows, one bubble per id.                                                *)
(***************************************************************************)
EXTENDS AreaInvariant, StreamHookProofs

(***************************************************************************)
(* Messages.  A message grows: it stays whose it was, and text follows     *)
(* unless the reply is one that was regenerated.                           *)
(***************************************************************************)
Grown(m, n) ==
  /\ m \in Message /\ n \in Message /\ n.id = m.id /\ n.siblings \in {m.siblings, <<>>}
  /\ Regenerated(m.id) \/ \E b \in Seq(Nat) : n.body = m.body \o b

AllGrown(old, new) ==
  /\ old \in Seq(Message) /\ new \in Seq(Message) /\ Len(new) = Len(old)
  /\ \A i \in DOMAIN old : Grown(old[i], new[i])

\* ... or goes: each that is left is one that there was.
Kept(old, new) ==
  /\ new \in Seq(Message)
  /\ \E f \in [DOMAIN new -> DOMAIN old] :
       /\ \A i, j \in DOMAIN new : f[i] = f[j] => i = j
       /\ \A i \in DOMAIN new : Grown(old[f[i]], new[i])

LEMMA StaysIsGrown ==
  ASSUME NEW m \in Message, NEW n \in Message, n.id = m.id,
         n.siblings \in {m.siblings, <<>>}, n.body = m.body \/ Regenerated(m.id)
  PROVE  Grown(m, n)
<1>1. m.body \in Seq(Nat)
  BY DEF Message
<1>2. <<>> \in Seq(Nat) /\ m.body \o <<>> = m.body
  BY <1>1
<1>. QED
  BY <1>2 DEF Grown

LEMMA Associates ==
  ASSUME NEW x \in Seq(Nat), NEW y \in Seq(Nat), NEW z \in Seq(Nat)
  PROVE  (x \o y) \o z = x \o (y \o z)
  OBVIOUS

LEMMA GrownTwice ==
  ASSUME NEW l, NEW m, NEW n, Grown(l, m), Grown(m, n)
  PROVE  Grown(l, n)
<1>1. l \in Message /\ n \in Message /\ n.id = l.id /\ n.siblings \in {l.siblings, <<>>}
  BY DEF Grown
<1>2. CASE Regenerated(l.id)
  BY <1>1, <1>2 DEF Grown
<1>3. CASE ~Regenerated(l.id)
  <2>1. PICK b \in Seq(Nat) : m.body = l.body \o b
    BY <1>3 DEF Grown
  <2>2. PICK c \in Seq(Nat) : n.body = m.body \o c
    BY <1>3 DEF Grown
  <2>3. l.body \in Seq(Nat)
    BY DEF Grown, Message
  <2>4. b \o c \in Seq(Nat)
    BY ConcatProperties
  <2>5. PICK a \in Seq(Nat) : a = l.body
    BY <2>3
  <2>6. (a \o b) \o c = a \o (b \o c)
    BY Associates
  <2>7. n.body = a \o (b \o c)
    BY <2>1, <2>2, <2>5, <2>6
  <2>. QED
    BY <1>1, <2>4, <2>5, <2>7 DEF Grown
<1>. QED
  BY <1>2, <1>3

LEMMA AllGrownIsKept ==
  ASSUME NEW old, NEW new, AllGrown(old, new)
  PROVE  Kept(old, new)
<1> DEFINE f == [i \in DOMAIN new |-> i]
<1>1. DOMAIN new = DOMAIN old
  BY DEF AllGrown
<1>2. f \in [DOMAIN new -> DOMAIN old] /\ \A i \in DOMAIN new : f[i] = i
  BY <1>1
<1> HIDE DEF f
<1>. QED
  BY <1>1, <1>2 DEF Kept, AllGrown

LEMMA KeptTwice ==
  ASSUME NEW old, NEW mid, NEW new, Kept(old, mid), Kept(mid, new)
  PROVE  Kept(old, new)
<1>1. PICK f \in [DOMAIN mid -> DOMAIN old] :
        /\ \A i, j \in DOMAIN mid : f[i] = f[j] => i = j
        /\ \A i \in DOMAIN mid : Grown(old[f[i]], mid[i])
  BY DEF Kept
<1>2. PICK g \in [DOMAIN new -> DOMAIN mid] :
        /\ \A i, j \in DOMAIN new : g[i] = g[j] => i = j
        /\ \A i \in DOMAIN new : Grown(mid[g[i]], new[i])
  BY DEF Kept
<1> DEFINE h == [i \in DOMAIN new |-> f[g[i]]]
<1>3. h \in [DOMAIN new -> DOMAIN old] /\ \A i \in DOMAIN new : h[i] = f[g[i]]
  BY <1>1, <1>2
<1>4. \A i \in DOMAIN new : Grown(old[f[g[i]]], new[i])
  BY <1>1, <1>2, GrownTwice
<1> HIDE DEF h
<1>5. \A i, j \in DOMAIN new : h[i] = h[j] => i = j
  BY <1>1, <1>2, <1>3
<1>. QED
  BY <1>3, <1>4, <1>5 DEF Kept

LEMMA SameIsKept ==
  ASSUME NEW ms \in Seq(Message)
  PROVE  AllGrown(ms, ms) /\ Kept(ms, ms)
<1>1. \A i \in DOMAIN ms : Grown(ms[i], ms[i])
  BY StaysIsGrown
<1>. QED
  BY <1>1, AllGrownIsKept DEF AllGrown

(***************************************************************************)
(* What the hook does to its messages, besides sending.                    *)
(***************************************************************************)
\* A patch that rewrites nothing but text, at its end, and marks.
LEMMA PatchGrows ==
  ASSUME NEW ms \in Seq(Message), NEW new, new = [i \in DOMAIN ms |-> new[i]],
         \A i \in DOMAIN ms : Grown(ms[i], new[i])
  PROVE  AllGrown(ms, new)
<1>1. DOMAIN new = DOMAIN ms /\ \A i \in DOMAIN ms : new[i] \in Message
  BY DEF Grown
<1>2. new \in Seq(Message) /\ Len(new) = Len(ms)
  BY <1>1, PatchIsTyped
<1>. QED
  BY <1>2 DEF AllGrown

LEMMA FlushGrows ==
  ASSUME HookTypeOK, NEW r \in Runs \cup {NoRun}
  PROVE  AllGrown(messages, Flushed(r))
<1>0. messages \in Seq(Message) /\ buffer \in Seq(Nat)
      /\ \A i \in DOMAIN messages : messages[i] \in Message
  BY Typed
<1>1. CASE r = NoRun \/ buffer = <<>>
  <2>1. Flushed(r) = messages
    BY <1>1 DEF Flushed
  <2>. QED
    BY <1>0, <2>1, SameIsKept
<1>2. CASE r # NoRun /\ buffer # <<>>
  <2> DEFINE F == Flushed(r)
  <2>1. F = [i \in DOMAIN messages |->
               IF messages[i].id # run[r].target THEN messages[i]
               ELSE IF run[r].op = "send"
                    THEN [messages[i] EXCEPT !.body = @ \o buffer, !.thinking = FALSE]
                    ELSE [messages[i] EXCEPT !.body = @ \o buffer, !.truncated = FALSE]]
    BY <1>2 DEF Flushed, Patch
  <2>2. ASSUME NEW m \in Message
        PROVE  /\ Grown(m, [m EXCEPT !.body = @ \o buffer, !.thinking = FALSE])
               /\ Grown(m, [m EXCEPT !.body = @ \o buffer, !.truncated = FALSE])
    <3>1. m.body \o buffer \in Seq(Nat)
      BY <1>0, ConcatProperties DEF Message
    <3>2. ASSUME NEW b \in Seq(Nat), b = m.body \o buffer
          PROVE  /\ Grown(m, [m EXCEPT !.body = b, !.thinking = FALSE])
                 /\ Grown(m, [m EXCEPT !.body = b, !.truncated = FALSE])
      <4>1. ASSUME NEW n, n \in {[m EXCEPT !.body = b, !.thinking = FALSE],
                                 [m EXCEPT !.body = b, !.truncated = FALSE]}
            PROVE  n \in Message /\ n.id = m.id /\ n.siblings = m.siblings /\ n.body = b
        BY <4>1 DEF Message
      <4>. QED
        BY <1>0, <3>2, <4>1 DEF Grown
    <3>. QED
      BY <3>1, <3>2
  <2>3. ASSUME NEW i \in DOMAIN messages PROVE Grown(messages[i], F[i])
    <3>1. messages[i] \in Message /\ Grown(messages[i], messages[i])
      BY <1>0, StaysIsGrown
    <3>2. CASE messages[i].id # run[r].target
      BY <2>1, <3>1, <3>2
    <3>3. CASE messages[i].id = run[r].target /\ run[r].op = "send"
      <4>1. F[i] = [messages[i] EXCEPT !.body = @ \o buffer, !.thinking = FALSE]
        BY <2>1, <3>3
      <4>. QED
        BY <2>2, <3>1, <4>1
    <3>4. CASE messages[i].id = run[r].target /\ run[r].op # "send"
      <4>1. F[i] = [messages[i] EXCEPT !.body = @ \o buffer, !.truncated = FALSE]
        BY <2>1, <3>4
      <4>. QED
        BY <2>2, <3>1, <4>1
    <3>. QED
      BY <3>2, <3>3, <3>4
  <2>4. F = [i \in DOMAIN messages |-> F[i]]
    BY <2>1
  <2> HIDE DEF F
  <2>5. AllGrown(messages, F)
    BY <1>0, <2>3, <2>4, PatchGrows
  <2>. QED
    BY <2>5 DEF F
<1>. QED
  BY <1>1, <1>2

LEMMA TruncatedGrows ==
  ASSUME NEW ms \in Seq(Message), NEW id
  PROVE  AllGrown(ms, Patch(ms, id, LAMBDA m : [m EXCEPT !.truncated = TRUE]))
<1> DEFINE new == Patch(ms, id, LAMBDA m : [m EXCEPT !.truncated = TRUE])
<1>1. new = [i \in DOMAIN ms |-> IF ms[i].id = id THEN [ms[i] EXCEPT !.truncated = TRUE]
                                 ELSE ms[i]]
  BY DEF Patch
<1>2. ASSUME NEW m \in Message, NEW n \in {m, [m EXCEPT !.truncated = TRUE]}
      PROVE  Grown(m, n)
  <2>1. n \in Message /\ n.id = m.id /\ n.siblings = m.siblings /\ n.body = m.body
    BY <1>2 DEF Message
  <2>. QED
    BY <2>1, StaysIsGrown
<1>3. ASSUME NEW i \in DOMAIN ms PROVE Grown(ms[i], new[i])
  <2>1. ms[i] \in Message
    OBVIOUS
  <2>2. new[i] = ms[i] \/ new[i] = [ms[i] EXCEPT !.truncated = TRUE]
    BY <1>1
  <2> HIDE DEF new
  <2>. QED
    BY <2>1, <2>2, <1>2
<1>4. new = [i \in DOMAIN ms |-> new[i]]
  BY <1>1
<1> HIDE DEF new
<1>5. AllGrown(ms, new)
  BY <1>3, <1>4, PatchGrows
<1>. QED
  BY <1>5 DEF new

LEMMA StoppedGrows ==
  ASSUME NEW ms \in Seq(Message), NEW id
  PROVE  AllGrown(ms, Patch(ms, id, LAMBDA m : [m EXCEPT !.body = Append(@, Stopped),
                                                         !.thinking = FALSE]))
<1> DEFINE Stamp(m) == [m EXCEPT !.body = Append(m.body, Stopped), !.thinking = FALSE]
           new == Patch(ms, id, LAMBDA m : [m EXCEPT !.body = Append(@, Stopped),
                                                     !.thinking = FALSE])
<1>1. new = [i \in DOMAIN ms |-> IF ms[i].id = id THEN Stamp(ms[i]) ELSE ms[i]]
  BY DEF Patch
<1>2. ASSUME NEW m \in Message PROVE Grown(m, Stamp(m))
  <2>1. m.body \in Seq(Nat) /\ Stopped \in Nat
    BY DEF Message, Stopped
  <2>2. <<Stopped>> \in Seq(Nat) /\ Append(m.body, Stopped) = m.body \o <<Stopped>>
        /\ Append(m.body, Stopped) \in Seq(Nat)
    BY <2>1
  <2>3. PICK b \in Seq(Nat) : b = Append(m.body, Stopped)
    BY <2>2
  <2>4. Stamp(m) = [m EXCEPT !.body = b, !.thinking = FALSE]
    BY <2>3
  <2> HIDE DEF Stamp
  <2>5. /\ Stamp(m) \in Message /\ Stamp(m).id = m.id /\ Stamp(m).siblings = m.siblings
        /\ Stamp(m).body = b
    BY <2>4 DEF Message
  <2>. QED
    BY <2>2, <2>3, <2>5 DEF Grown
<1>3. ASSUME NEW m \in Message PROVE Grown(m, m)
  BY StaysIsGrown
<1> HIDE DEF Stamp
<1>4. ASSUME NEW i \in DOMAIN ms PROVE Grown(ms[i], new[i])
  <2>1. ms[i] \in Message /\ new[i] = IF ms[i].id = id THEN Stamp(ms[i]) ELSE ms[i]
    BY <1>1
  <2> HIDE DEF new
  <2>. QED
    BY <1>2, <1>3, <2>1
<1>5. new = [i \in DOMAIN ms |-> new[i]]
  BY <1>1
<1> HIDE DEF new
<1>6. AllGrown(ms, new)
  BY <1>4, <1>5, PatchGrows
<1>. QED
  BY <1>6 DEF new


(***************************************************************************)
(* Ids.                                                                    *)
(***************************************************************************)
LEMMA Tags ==
  ASSUME NEW r \in Runs, NEW n \in Nat
  PROVE  /\ UserId(r)[1] = "user" /\ BubbleId(r)[1] = "bubble" /\ RowId(r)[1] = "row"
         /\ UserId(r)[2] = r /\ BubbleId(r)[2] = r /\ RowId(r)[2] = r
         /\ Variant(n)[1] = "variant" /\ Variant(n)[2] = n /\ ForkId[1] = "fork"
  BY DEF UserId, BubbleId, RowId, Variant, ForkId

LEMMA NewIds ==
  ASSUME NEW n \in Nat
  PROVE  Variant(n) \in Ids /\ ForkId \in Ids
  BY DEF Ids, Variant, ForkId

LEMMA HeadTags ==
  ASSUME NEW t \in Heads
  PROVE  /\ t \in Ids /\ t[1] \in {"server", "row"}
         /\ \A r \in Runs : t # UserId(r) /\ t # BubbleId(r)
<1>1. CASE t \in {m.id : m \in Range(Initial)}
  <2>1. PICK i \in DOMAIN Initial : t = Initial[i].id
    BY <1>1 DEF Range
  <2>2. Initial[i] \in Message /\ t[1] = "server"
    BY <2>1, InitialAssumption
  <2>3. t \in Ids
    BY <2>1, <2>2 DEF Message
  <2>. QED
    BY <2>2, <2>3, Tags, 0 \in Nat
<1>2. CASE t \in {RowId(r) : r \in Runs}
  BY <1>2, Tags, IdsApart, 0 \in Nat
<1>. QED
  BY <1>1, <1>2 DEF Heads

LEMMA VersionTags ==
  ASSUME RequestsTyped, NEW t \in Heads, NEW id, VersionOf(id, t)
  PROVE  id[1] \in {"server", "row", "variant", "fork"}
<1>1. DOMAIN regens \subseteq Nat
  BY DEF RequestsTyped
<1>. QED
  BY <1>1, Tags, 0 \in Nat DEF VersionOf, ForkId, Variant, RowId

\* A version is of one turn or reply, and names it.
LEMMA VersionIsOf ==
  ASSUME RequestsTyped, ChainsOk, NEW t \in Heads, NEW id \in Range(chains[t])
  PROVE  /\ id \in Ids /\ Turn(id) = t /\ Kin(id) = t
         /\ \A r \in Runs : id # UserId(r) /\ id # BubbleId(r)
<1>1. id \in Ids
  BY DEF ChainsOk, Range
<1>2. VersionOf(id, t)
  BY DEF ChainsOk
<1>3. id[1] \in {"server", "row", "variant", "fork"}
  BY <1>2, VersionTags
<1>4. \A u \in DOMAIN chains : id \in Range(chains[u]) => u = t
  BY DEF ChainsOk
<1>5. Turn(id) = t
  BY <1>4 DEF Turn, ChainsOk
<1>6. Kin(id) = t
  BY <1>3, <1>5 DEF Kin
<1>. QED
  BY <1>1, <1>3, <1>5, <1>6, Tags, 0 \in Nat

NamesItsTurn == \A t \in Heads : \A id \in Range(chains[t]) : Kin(id) = t

LEMMA VersionsAreOf ==
  RequestsTyped /\ ChainsOk => NamesItsTurn
  BY VersionIsOf DEF NamesItsTurn

LEMMA KinOfSent ==
  ASSUME NEW r \in Runs
  PROVE  Kin(UserId(r)) = UserId(r) /\ Kin(BubbleId(r)) = RowId(r) /\ RowId(r) \in Heads
<1>1. Kin(UserId(r)) = UserId(r)
  BY Tags, 0 \in Nat DEF Kin
<1>2. Kin(BubbleId(r)) = RowId(r)
  BY Tags, 0 \in Nat DEF Kin
<1>. QED
  BY <1>1, <1>2 DEF Heads

(***************************************************************************)
(* Prefixes.                                                               *)
(***************************************************************************)
LEMMA PrefixGrows ==
  ASSUME NEW a \in Seq(Nat), NEW s \in Seq(Nat), NEW b \in Seq(Nat), IsPrefix(a, s)
  PROVE  IsPrefix(a, s \o b)
<1>1. Len(a) <= Len(s) /\ SubSeq(a, 1, Len(a)) = SubSeq(s, 1, Len(a))
  BY DEF IsPrefix
<1>2. s \o b \in Seq(Nat) /\ Len(s \o b) = Len(s) + Len(b)
      /\ \A i \in 1 .. Len(s) : (s \o b)[i] = s[i]
  BY ConcatProperties
<1>3. Len(a) \in Nat /\ Len(s) \in Nat /\ Len(b) \in Nat
  OBVIOUS
<1>4. SubSeq(s \o b, 1, Len(a)) = SubSeq(s, 1, Len(a))
  BY <1>1, <1>2, <1>3
<1>. QED
  BY <1>1, <1>2, <1>3, <1>4 DEF IsPrefix

LEMMA SamePrefix ==
  ASSUME NEW a \in Seq(Nat)
  PROVE  IsPrefix(a, a)
  BY DEF IsPrefix

LEMMA CopiesTyped ==
  ASSUME NEW n \in Nat, NEW t \in Nat
  PROVE  Copies(n, t) \in Seq(Nat)
  BY DEF Copies


(***************************************************************************)
(* What no step takes back.                                                *)
(***************************************************************************)
Forward ==
  /\ \A t \in Heads : Range(chains[t]) \subseteq Range(chains'[t])
  /\ \A r \in Runs : /\ run[r].pc # "idle" => run'[r].pc # "idle"
                     /\ run[r].tokens > 0 => run'[r].tokens > 0
  /\ \A n \in DOMAIN regens :
       /\ n \in DOMAIN regens' /\ regens'[n].of = regens[n].of
       /\ regens[n].pc \in {"hydrating", "over"} =>
            regens'[n].pc \in {"hydrating", "over"} /\ regens'[n].tokens = regens[n].tokens
  /\ edit.forked => edit'.forked

LEMMA VersionsStay ==
  ASSUME Forward, NEW id, NEW t, VersionOf(id, t)
  PROVE  VersionOf(id, t)'
  BY DEF Forward, VersionOf

LEMMA BegunStays ==
  ASSUME Forward, NEW t, Begun(t)
  PROVE  Begun(t)'
  BY DEF Forward, Begun

LEMMA RowsStay ==
  ASSUME Forward, NEW id, IsRow(id)
  PROVE  IsRow(id)'
<1>1. PICK t \in Heads : Begun(t) /\ id \in Range(chains[t])
  BY DEF IsRow
<1>2. Begun(t)' /\ id \in Range(chains'[t])
  BY <1>1, BegunStays DEF Forward
<1>. QED
  BY <1>2 DEF IsRow, Heads

LEMMA RegeneratedStays ==
  ASSUME Forward, NEW id, Regenerated(id)
  PROVE  Regenerated(id)'
  BY DEF Forward, Regenerated

(***************************************************************************)
(* A bubble follows one there was: as itself, grown; as another version of *)
(* its turn or reply; or as the row of the send that it was made for.      *)
(***************************************************************************)
Follows(m, n) ==
  \/ Grown(m, n)
  \/ /\ n \in Message /\ ShowsVariant(n)
     /\ \E t \in Heads : /\ Begun(t) /\ m.id \in Range(chains[t])
                         /\ {n.id} \cup Range(n.siblings) \subseteq Range(chains[t])
  \/ /\ n \in Message /\ n.siblings = m.siblings
     /\ \E r \in Runs : run[r].tokens > 0 /\ m.id = BubbleId(r) /\ n.id = RowId(r)

LEMMA GrownIsOk ==
  ASSUME NEW m, NEW n, Grown(m, n), BubbleOk(m)
  PROVE  BubbleOk(n)
<1>1. n.id = m.id /\ n.siblings \in {m.siblings, <<>>} /\ Range(<<>>) = {}
  BY DEF Grown, Range
<1>. QED
  BY <1>1 DEF BubbleOk

LEMMA OkStays ==
  ASSUME Forward, NEW m, BubbleOk(m)
  PROVE  BubbleOk(m)'
<1>1. CASE m.siblings = <<>> /\ \E r \in Runs : run[r].pc # "idle" /\ m.id \in {UserId(r), BubbleId(r)}
  BY <1>1 DEF Forward, BubbleOk
<1>2. CASE \E t \in Heads : Begun(t) /\ {m.id} \cup Range(m.siblings) \subseteq Range(chains[t])
  <2>1. PICK t \in Heads : Begun(t) /\ {m.id} \cup Range(m.siblings) \subseteq Range(chains[t])
    BY <1>2
  <2>2. Begun(t)' /\ {m.id} \cup Range(m.siblings) \subseteq Range(chains'[t])
    BY <2>1, BegunStays DEF Forward
  <2>. QED
    BY <2>2 DEF BubbleOk, Heads
<1>. QED
  BY <1>1, <1>2 DEF BubbleOk

LEMMA KinStays ==
  ASSUME RequestsTyped, ChainsOk, RequestsTyped', ChainsOk', Forward, NEW m, BubbleOk(m)
  PROVE  Kin(m.id)' = Kin(m.id)
<1>1. CASE \E r \in Runs : m.id \in {UserId(r), BubbleId(r)}
  <2>1. PICK r \in Runs : m.id = UserId(r) \/ m.id = BubbleId(r)
    BY <1>1
  <2>2. CASE m.id = UserId(r)
    BY <2>2, Tags, 0 \in Nat DEF Kin
  <2>3. CASE m.id = BubbleId(r)
    BY <2>3, Tags, 0 \in Nat DEF Kin
  <2>. QED
    BY <2>1, <2>2, <2>3
<1>2. CASE \E t \in Heads : m.id \in Range(chains[t])
  <2>1. PICK t \in Heads : m.id \in Range(chains[t])
    BY <1>2
  <2>2. Kin(m.id) = t
    BY <2>1, VersionIsOf
  <2>3. m.id \in Range(chains'[t])
    BY <2>1 DEF Forward
  <2>4. Kin(m.id)' = t
    <3>1. NamesItsTurn'
      BY VersionsAreOf, PTL
    <3>. QED
      BY <2>3, <3>1 DEF NamesItsTurn, Heads
  <2>. QED
    BY <2>2, <2>4
<1>. QED
  BY <1>1, <1>2 DEF BubbleOk


LEMMA VariantIsOver ==
  ASSUME RequestsTyped, ChainsOk, NEW n \in Nat, NEW t \in Heads, Variant(n) \in Range(chains[t])
  PROVE  n \in DOMAIN regens /\ regens[n].pc \in {"hydrating", "over"}
<1>1. VersionOf(Variant(n), t)
  BY DEF ChainsOk
<1>2. Variant(n)[1] = "variant"
  BY DEF Variant
<1>3. t[1] # "variant" /\ Variant(n) # ForkId
  BY HeadTags, <1>2 DEF ForkId
<1>4. \A k : Variant(n) = Variant(k) => n = k
  BY DEF Variant
<1>. QED
  BY <1>1, <1>2, <1>3, <1>4 DEF VersionOf

LEMMA ShowsStays ==
  ASSUME RequestsTyped, ChainsOk, RequestsTyped', Forward, NEW n, BubbleOk(n), ShowsVariant(n)
  PROVE  ShowsVariant(n)'
<1> SUFFICES ASSUME NEW k \in DOMAIN regens', n.id = Variant(k), ~Regenerated(Variant(k))'
             PROVE  IsPrefix(Copies(regens'[k].tokens, VariantToken(k)), n.body)
  BY DEF ShowsVariant, Copies
<1>1. k \in Nat
  BY DEF RequestsTyped
<1>2. ~Regenerated(Variant(k))
  BY RegeneratedStays
<1>3. \A r \in Runs : n.id \notin {UserId(r), BubbleId(r)}
  BY <1>1, Tags
<1>4. PICK t \in Heads : n.id \in Range(chains[t])
  BY <1>3 DEF BubbleOk
<1>5. k \in DOMAIN regens /\ regens[k].pc \in {"hydrating", "over"}
  BY <1>1, <1>4, VariantIsOver
<1>6. regens'[k].tokens = regens[k].tokens
  BY <1>5 DEF Forward
<1>. QED
  BY <1>2, <1>5, <1>6 DEF ShowsVariant

LEMMA RegensTyped ==
  ASSUME RequestsTyped, NEW n \in DOMAIN regens
  PROVE  /\ n \in Nat /\ regens[n].tokens \in 0 .. MaxTokens /\ regens[n].tokens \in Nat
         /\ regens[n].of \in Ids
         /\ regens[n] = [of |-> regens[n].of, tokens |-> regens[n].tokens, pc |-> regens[n].pc]
         /\ regens[n].pc \in {"fetching", "reading", "hydrating", "dropped", "over"}
<1>1. n \in Nat
  BY DEF RequestsTyped
<1>2. regens[n] \in Regeneration
  BY DEF RequestsTyped
<1>. QED
  BY <1>1, <1>2, BoundsAssumption DEF Regeneration

LEMMA GrownShows ==
  ASSUME NEW m, NEW n, Grown(m, n), ShowsVariant(m), RequestsTyped
  PROVE  ShowsVariant(n)
<1> SUFFICES ASSUME NEW k \in DOMAIN regens, n.id = Variant(k), ~Regenerated(Variant(k))
             PROVE  IsPrefix(Copies(regens[k].tokens, VariantToken(k)), n.body)
  BY DEF ShowsVariant
<1>1. m.id = Variant(k) /\ m.body \in Seq(Nat)
  BY DEF Grown, Message
<1>2. PICK b \in Seq(Nat) : n.body = m.body \o b
  BY <1>1 DEF Grown
<1>3. IsPrefix(Copies(regens[k].tokens, VariantToken(k)), m.body)
  BY <1>1 DEF ShowsVariant
<1>4. regens[k].tokens \in Nat /\ VariantToken(k) \in Nat
  BY RegensTyped DEF VariantToken
<1>5. Copies(regens[k].tokens, VariantToken(k)) \in Seq(Nat)
  BY <1>4, CopiesTyped
<1>. QED
  BY <1>1, <1>2, <1>3, <1>5, PrefixGrows

LEMMA FollowerIsOk ==
  ASSUME RequestsTyped, ChainsOk, RequestsTyped', ChainsOk', Forward,
         NEW m, NEW n, BubbleOk(m), ShowsVariant(m), Follows(m, n)
  PROVE  BubbleOk(n)' /\ Kin(n.id)' = Kin(m.id) /\ ShowsVariant(n)' /\ n \in Message
<1>1. CASE Grown(m, n)
  <2>1. BubbleOk(n) /\ ShowsVariant(n)
    BY <1>1, GrownIsOk, GrownShows
  <2>2. n \in Message /\ n.id = m.id
    BY <1>1 DEF Grown
  <2>. QED
    BY <2>1, <2>2, OkStays, ShowsStays, KinStays
<1>2. ASSUME n \in Message, ShowsVariant(n), NEW t \in Heads, Begun(t), m.id \in Range(chains[t]),
             {n.id} \cup Range(n.siblings) \subseteq Range(chains[t])
      PROVE  BubbleOk(n)' /\ Kin(n.id)' = Kin(m.id) /\ ShowsVariant(n)' /\ n \in Message
  <2>1. BubbleOk(n)
    BY <1>2 DEF BubbleOk
  <2>2. Kin(n.id) = t /\ Kin(m.id) = t
    BY <1>2, VersionIsOf
  <2>. QED
    BY <1>2, <2>1, <2>2, OkStays, ShowsStays, KinStays
<1>3. ASSUME n \in Message, n.siblings = m.siblings, NEW r \in Runs, run[r].tokens > 0,
             m.id = BubbleId(r), n.id = RowId(r)
      PROVE  BubbleOk(n)' /\ Kin(n.id)' = Kin(m.id) /\ ShowsVariant(n)' /\ n \in Message
  <2>1. \A t \in Heads : m.id \notin Range(chains[t])
    BY <1>3, VersionIsOf
  <2>2. n.siblings = <<>>
    BY <1>3, <2>1 DEF BubbleOk
  <2>3. RowId(r) \in Heads /\ Kin(m.id) = RowId(r)
    BY <1>3, KinOfSent
  <2>4. Begun(RowId(r))
    BY <1>3, IdsApart DEF Begun
  <2>5. RowId(r) \in Range(chains[RowId(r)])
    BY <2>3 DEF ChainsOk
  <2>6. BubbleOk(n)
    <3>1. Range(n.siblings) = {}
      BY <2>2 DEF Range
    <3>. QED
      BY <1>3, <2>3, <2>4, <2>5, <3>1 DEF BubbleOk
  <2>7. Kin(n.id) = RowId(r)
    BY <1>3, <2>3, <2>5, VersionIsOf
  <2>8. ShowsVariant(n)
    <3>1. \A k \in DOMAIN regens : n.id # Variant(k)
      BY <1>3 DEF RowId, Variant
    <3>. QED
      BY <3>1 DEF ShowsVariant
  <2>. QED
    BY <1>3, <2>3, <2>6, <2>7, <2>8, OkStays, ShowsStays, KinStays
<1>. QED
  BY <1>1, <1>2, <1>3 DEF Follows

(***************************************************************************)
(* The bubbles after a step: each follows one there was, no two the same,  *)
(* or is one of a send just made.                                          *)
(***************************************************************************)
Fresh(m) ==
  /\ m \in Message /\ m.siblings = <<>>
  /\ \E r \in Runs : /\ run[r].pc = "idle" /\ run[r].tokens = 0 /\ run'[r].pc # "idle"
                     /\ m.id \in {UserId(r), BubbleId(r)}

LEMMA FreshIsOk ==
  ASSUME RequestsTyped, RequestsTyped', ChainsOk, NEW m, Fresh(m)
  PROVE  /\ BubbleOk(m)' /\ ShowsVariant(m)'
         /\ \A l : BubbleOk(l) => Kin(l.id) # Kin(m.id)'
         /\ \A l : Fresh(l) /\ Kin(l.id)' = Kin(m.id)' => l.id = m.id
<1>1. PICK r \in Runs : /\ run[r].pc = "idle" /\ run[r].tokens = 0 /\ run'[r].pc # "idle"
                        /\ m.id \in {UserId(r), BubbleId(r)}
  BY DEF Fresh
<1>2. BubbleOk(m)'
  BY <1>1 DEF BubbleOk, Fresh
<1>3. ShowsVariant(m)'
  <2>1. \A k \in DOMAIN regens' : m.id # Variant(k)
    BY <1>1 DEF UserId, BubbleId, Variant
  <2>. QED
    BY <2>1 DEF ShowsVariant
<1>4. \A q \in Runs : Kin(UserId(q))' = UserId(q) /\ Kin(BubbleId(q))' = RowId(q)
  BY Tags, 0 \in Nat DEF Kin
<1>5. ASSUME NEW l, BubbleOk(l) PROVE Kin(l.id) # Kin(m.id)'
  <2>1. CASE \E q \in Runs : run[q].pc # "idle" /\ l.id \in {UserId(q), BubbleId(q)}
    <3>1. PICK q \in Runs : run[q].pc # "idle" /\ l.id \in {UserId(q), BubbleId(q)}
      BY <2>1
    <3>2. q # r /\ Kin(l.id) \in {UserId(q), RowId(q)}
      BY <1>1, <3>1, KinOfSent
    <3>. QED
      BY <1>1, <1>4, <3>1, <3>2, KinOfSent, IdsApart
  <2>2. CASE \E t \in Heads : Begun(t) /\ l.id \in Range(chains[t])
    <3>1. PICK t \in Heads : Begun(t) /\ l.id \in Range(chains[t])
      BY <2>2
    <3>2. Kin(l.id) = t /\ t # RowId(r) /\ t # UserId(r)
      BY <1>1, <3>1, VersionIsOf, HeadTags DEF Begun
    <3>. QED
      BY <1>1, <1>4, <3>2
  <2>. QED
    BY <1>5, <2>1, <2>2 DEF BubbleOk
<1>6. ASSUME NEW l, Fresh(l), Kin(l.id)' = Kin(m.id)' PROVE l.id = m.id
  <2>1. PICK q \in Runs : l.id \in {UserId(q), BubbleId(q)}
    BY <1>6 DEF Fresh
  <2>. QED
    BY <1>1, <1>4, <1>6, <2>1, IdsApart
<1>. QED
  BY <1>2, <1>3, <1>5, <1>6


BubblesOk ==
  /\ \A i \in DOMAIN messages : BubbleOk(messages[i]) /\ ShowsVariant(messages[i])
  /\ BubblesApart

LEMMA BubblesFollow ==
  ASSUME RequestsTyped, ChainsOk, BubblesOk, RequestsTyped', ChainsOk', Forward,
         NEW D \in SUBSET DOMAIN messages', NEW f \in [D -> DOMAIN messages],
         \A i, j \in D : f[i] = f[j] => i = j,
         \A i \in D : Follows(messages[f[i]], messages'[i]),
         \A i \in DOMAIN messages' \ D : Fresh(messages'[i]),
         \A i, j \in DOMAIN messages' \ D : messages'[i].id = messages'[j].id => i = j
  PROVE  BubblesOk'
<1>1. ASSUME NEW i \in D
      PROVE  /\ BubbleOk(messages[i])' /\ ShowsVariant(messages[i])'
             /\ Kin(messages[i].id)' = Kin(messages[f[i]].id) /\ BubbleOk(messages[f[i]])
  <2>1. f[i] \in DOMAIN messages
    OBVIOUS
  <2>2. BubbleOk(messages[f[i]]) /\ ShowsVariant(messages[f[i]])
    BY <2>1 DEF BubblesOk
  <2>3. Follows(messages[f[i]], messages'[i])
    OBVIOUS
  <2>4. ASSUME NEW m, NEW n, m = messages[f[i]], n = messages'[i]
        PROVE  /\ BubbleOk(n)' /\ ShowsVariant(n)' /\ Kin(n.id)' = Kin(m.id)
    BY <2>2, <2>3, <2>4, FollowerIsOk
  <2>. QED
    BY <2>2, <2>4
<1>2. ASSUME NEW i \in DOMAIN messages' \ D
      PROVE  /\ BubbleOk(messages[i])' /\ ShowsVariant(messages[i])'
             /\ \A l : BubbleOk(l) => Kin(l.id) # Kin(messages[i].id)'
             /\ \A l : Fresh(l) /\ Kin(l.id)' = Kin(messages[i].id)' => l.id = messages'[i].id
  <2>1. Fresh(messages'[i])
    OBVIOUS
  <2>. QED
    BY <2>1, FreshIsOk
<1>3. \A i \in DOMAIN messages' : BubbleOk(messages[i])' /\ ShowsVariant(messages[i])'
  BY <1>1, <1>2
<1>4. ASSUME NEW i \in DOMAIN messages', NEW j \in DOMAIN messages',
             Kin(messages[i].id)' = Kin(messages[j].id)'
      PROVE  i = j
  <2>1. CASE i \in D /\ j \in D
    <3>1. Kin(messages[f[i]].id) = Kin(messages[f[j]].id)
      BY <1>1, <1>4, <2>1
    <3>2. f[i] \in DOMAIN messages /\ f[j] \in DOMAIN messages
      BY <2>1
    <3>3. f[i] = f[j]
      BY <3>1, <3>2 DEF BubblesOk, BubblesApart
    <3>. QED
      BY <2>1, <3>3
  <2>2. CASE i \in D /\ j \notin D
    BY <1>1, <1>2, <1>4, <2>2
  <2>3. CASE i \notin D /\ j \in D
    BY <1>1, <1>2, <1>4, <2>3
  <2>4. CASE i \notin D /\ j \notin D
    BY <1>2, <1>4, <2>4
  <2>. QED
    BY <2>1, <2>2, <2>3, <2>4
<1>. QED
  BY <1>3, <1>4 DEF BubblesOk, BubblesApart

\* Each message follows the one in its place.
LEMMA AllFollow ==
  ASSUME RequestsTyped, ChainsOk, BubblesOk, RequestsTyped', ChainsOk', Forward,
         DOMAIN messages' = DOMAIN messages,
         \A i \in DOMAIN messages : Follows(messages[i], messages'[i])
  PROVE  BubblesOk'
<1>1. PICK f : f = [i \in DOMAIN messages' |-> i]
  OBVIOUS
<1>2. f \in [DOMAIN messages' -> DOMAIN messages] /\ \A i \in DOMAIN messages' : f[i] = i
  BY <1>1
<1>. QED
  BY <1>2, BubblesFollow

LEMMA KeptFollow ==
  ASSUME RequestsTyped, ChainsOk, BubblesOk, RequestsTyped', ChainsOk', Forward,
         Kept(messages, messages')
  PROVE  BubblesOk'
<1>1. PICK f \in [DOMAIN messages' -> DOMAIN messages] :
        /\ \A i, j \in DOMAIN messages' : f[i] = f[j] => i = j
        /\ \A i \in DOMAIN messages' : Grown(messages[f[i]], messages'[i])
  BY DEF Kept
<1>2. \A i \in DOMAIN messages' : Follows(messages[f[i]], messages'[i])
  BY <1>1 DEF Follows
<1>. QED
  BY <1>1, <1>2, BubblesFollow

LEMMA SentFollow ==
  ASSUME RequestsTyped, ChainsOk, BubblesOk, RequestsTyped', ChainsOk', Forward,
         NEW shown, Kept(messages, shown), NEW r \in Runs, NEW text \in Runs,
         messages' = shown \o <<User(r, text), Placeholder(r)>>,
         run[r].pc = "idle", run[r].tokens = 0, run'[r].pc # "idle"
  PROVE  BubblesOk' /\ messages' \in Seq(Message)
<1>1. shown \in Seq(Message) /\ User(r, text) \in Message /\ Placeholder(r) \in Message
  BY NewMessages DEF Kept
<1>2. PICK n \in Nat :
        /\ messages' \in Seq(Message) /\ DOMAIN messages' = 1 .. (n + 2) /\ DOMAIN shown = 1 .. n
        /\ \A i \in 1 .. n : messages'[i] = shown[i]
        /\ messages'[n + 1] = User(r, text) /\ messages'[n + 2] = Placeholder(r)
        /\ \A i \in 1 .. (n + 2) : i \in 1 .. n \/ i = n + 1 \/ i = n + 2
  BY <1>1, AppendedShape
<1>3. PICK f \in [1 .. n -> DOMAIN messages] :
        /\ \A i, j \in 1 .. n : f[i] = f[j] => i = j
        /\ \A i \in 1 .. n : Grown(messages[f[i]], shown[i])
  BY <1>2 DEF Kept
<1>4. 1 .. n \in SUBSET DOMAIN messages'
  BY <1>2
<1>5. \A i \in 1 .. n : Follows(messages[f[i]], messages'[i])
  BY <1>2, <1>3 DEF Follows
<1>6. Fresh(User(r, text)) /\ Fresh(Placeholder(r))
  BY <1>1 DEF Fresh, User, Placeholder
<1>7. User(r, text).id # Placeholder(r).id
  BY NewMessages, IdsApart
<1>8. \A i \in DOMAIN messages' \ (1 .. n) : i = n + 1 \/ i = n + 2
  BY <1>2
<1>9. \A i \in DOMAIN messages' \ (1 .. n) : Fresh(messages'[i])
  BY <1>2, <1>6, <1>8
<1>10. \A i, j \in DOMAIN messages' \ (1 .. n) : messages'[i].id = messages'[j].id => i = j
  BY <1>2, <1>7, <1>8
<1>. QED
  BY <1>2, <1>3, <1>4, <1>5, <1>9, <1>10, BubblesFollow


(***************************************************************************)
(* What goes: a placeholder, a turn that is sent again, all from a turn    *)
(* that was edited.                                                        *)
(***************************************************************************)
LEMMA KthLeft ==
  ASSUME NEW n \in Nat, NEW left \in SUBSET (1 .. n), NEW k \in 1 .. Cardinality(left)
  PROVE  \E i \in left : Cardinality({j \in left : j <= i}) = k
<1> DEFINE Upto(i) == {j \in left : j <= i}
           T == {i \in 0 .. n : Cardinality(Upto(i)) >= k}
<1>0. \A j \in left : j \in Nat /\ 1 <= j /\ j <= n
  OBVIOUS
<1>1. ASSUME NEW i \in Nat PROVE IsFiniteSet(Upto(i)) /\ Cardinality(Upto(i)) \in Nat
  <2>1. IsFiniteSet(1 .. n)
    BY FS_Interval
  <2>2. IsFiniteSet(Upto(i))
    <3>1. Upto(i) \in SUBSET (1 .. n)
      OBVIOUS
    <3> HIDE DEF Upto
    <3>. QED
      BY <2>1, <3>1, FS_Subset
  <2>. QED
    BY <2>2, FS_CardinalityType
<1>2. Upto(n) = left /\ Upto(0) = {}
  <2>1. \A j \in left : j <= n /\ ~ (j <= 0)
    BY <1>0
  <2>. QED
    BY <2>1
<1>3. Cardinality(left) \in Nat /\ Cardinality(left) >= k /\ k \in Nat /\ k > 0
  BY <1>1, <1>2
<1>4. n \in T /\ 0 \notin T /\ T \in SUBSET Nat
  BY <1>2, <1>3, FS_EmptySet
<1>5. PICK x \in T : \A y \in T : x <= y
  BY <1>4, LeastNat
<1>6. x \in 1 .. n /\ x - 1 \in 0 .. n /\ x - 1 \in Nat /\ x \in Nat
  BY <1>4, <1>5
<1>7. ~ (Cardinality(Upto(x - 1)) >= k) /\ Cardinality(Upto(x)) >= k
  <2>1. x - 1 \notin T
    <3>1. ~ (x <= x - 1)
      BY <1>6
    <3> HIDE DEF T
    <3>. QED
      BY <1>5, <3>1
  <2>2. x \in T
    BY <1>5
  <2> HIDE DEF Upto
  <2>. QED
    BY <1>6, <2>1, <2>2
<1>8. x \in left
  <2>1. CASE x \notin left
    <3>1. \A j \in left : j <= x <=> j <= x - 1
      BY <1>0, <1>6, <2>1
    <3>2. Upto(x) = Upto(x - 1)
      BY <3>1
    <3> HIDE DEF Upto
    <3>. QED
      BY <1>7, <3>2
  <2>. QED
    BY <2>1
<1>9. Upto(x) = Upto(x - 1) \cup {x} /\ x \notin Upto(x - 1)
  <2>1. \A j \in left : j <= x <=> j <= x - 1 \/ j = x
    BY <1>0, <1>6
  <2>2. ~ (x <= x - 1)
    BY <1>6
  <2>. QED
    BY <1>8, <2>1, <2>2
<1>10. Cardinality(Upto(x)) = Cardinality(Upto(x - 1)) + 1
  <2> HIDE DEF Upto
  <2>. QED
    BY <1>1, <1>6, <1>9, FS_AddElement
<1>11. Cardinality(Upto(x)) = k
  <2> PICK a : a = Cardinality(Upto(x - 1))
    OBVIOUS
  <2>1. a \in Nat /\ ~ (a >= k) /\ a + 1 >= k /\ Cardinality(Upto(x)) = a + 1
    BY <1>1, <1>6, <1>7, <1>10
  <2> HIDE DEF Upto
  <2>. QED
    BY <1>3, <2>1
<1>. QED
  BY <1>8, <1>11

LEMMA WithoutKept ==
  ASSUME NEW ms \in Seq(Message), NEW id
  PROVE  Kept(ms, Without(ms, id))
<1> DEFINE left == {i \in DOMAIN ms : ms[i].id # id}
           c == Cardinality(left)
           Nth(i) == Cardinality({j \in left : j <= i})
<1>1. Len(ms) \in Nat /\ DOMAIN ms = 1 .. Len(ms) /\ left \in SUBSET (1 .. Len(ms))
  OBVIOUS
<1>2. c \in Nat
  <2>1. IsFiniteSet(1 .. Len(ms))
    BY <1>1, FS_Interval
  <2>2. IsFiniteSet(left)
    <3> HIDE DEF left
    <3>. QED
      BY <1>1, <2>1, FS_Subset
  <2>. QED
    BY <2>2, FS_CardinalityType
<1>3. PICK f : f = [k \in 1 .. c |-> CHOOSE i \in left : Nth(i) = k]
  OBVIOUS
<1>4. ASSUME NEW k \in 1 .. c PROVE f[k] \in left /\ Nth(f[k]) = k
  <2>1. \E i \in left : Nth(i) = k
    <3> HIDE DEF left
    <3>. QED
      BY <1>1, KthLeft
  <2>2. f[k] = CHOOSE i \in left : Nth(i) = k
    BY <1>3
  <2> HIDE DEF left, Nth
  <2>. QED
    BY <2>1, <2>2
<1>5. PICK new : new = Without(ms, id)
  OBVIOUS
<1>6. new = [k \in 1 .. c |-> ms[f[k]]]
  <2>1. Without(ms, id) = [k \in 1 .. c |-> ms[CHOOSE i \in left : Nth(i) = k]]
    BY DEF Without
  <2> HIDE DEF left, Nth, c
  <2>. QED
    BY <1>3, <1>5, <2>1
<1>7. \A k \in 1 .. c : f[k] \in DOMAIN ms /\ ms[f[k]] \in Message
  <2>1. \A i \in DOMAIN ms : ms[i] \in Message
    OBVIOUS
  <2>2. \A i \in left : i \in DOMAIN ms
    OBVIOUS
  <2> HIDE DEF left, Nth, c
  <2>. QED
    BY <1>4, <2>1, <2>2
<1>8. \A j, k \in 1 .. c : f[j] = f[k] => j = k
  <2> HIDE DEF Nth
  <2>. QED
    BY <1>4
<1> HIDE DEF left, Nth, c
<1>9. DOMAIN new = 1 .. c /\ \A k \in 1 .. c : new[k] = ms[f[k]]
  BY <1>6
<1>10. new \in Seq(Message)
  BY <1>2, <1>6, <1>7
<1>11. f \in [DOMAIN new -> DOMAIN ms]
  BY <1>3, <1>7, <1>9
<1>12. \A k \in DOMAIN new : Grown(ms[f[k]], new[k])
  BY <1>7, <1>9, StaysIsGrown
<1>. QED
  BY <1>5, <1>8, <1>9, <1>10, <1>11, <1>12 DEF Kept

LEMMA RemovedKept ==
  ASSUME NEW ms \in Seq(Message), NEW k \in DOMAIN ms
  PROVE  Kept(ms, RemoveAt(ms, k))
<1>1. PICK new : new = RemoveAt(ms, k)
  OBVIOUS
<1>2. /\ new \in Seq(Message)
      /\ \A i \in DOMAIN new : LET j == IF i < k THEN i ELSE i + 1 IN
                                 j \in DOMAIN ms /\ new[i] = ms[j]
  BY <1>1, RemovedShape
<1>3. k \in Nat /\ \A i \in DOMAIN new : i \in Nat
  BY <1>2
<1>4. PICK f : f = [i \in DOMAIN new |-> IF i < k THEN i ELSE i + 1]
  OBVIOUS
<1>5. \A i \in DOMAIN new : f[i] \in DOMAIN ms /\ new[i] = ms[f[i]]
  BY <1>2, <1>4
<1>6. f \in [DOMAIN new -> DOMAIN ms]
  BY <1>4, <1>5
<1>7. \A i, j \in DOMAIN new : f[i] = f[j] => i = j
  BY <1>3, <1>4
<1>8. \A i \in DOMAIN new : Grown(ms[f[i]], new[i])
  <2>1. \A i \in DOMAIN ms : ms[i] \in Message
    OBVIOUS
  <2>. QED
    BY <1>5, <2>1, StaysIsGrown
<1>. QED
  BY <1>1, <1>2, <1>6, <1>7, <1>8 DEF Kept

LEMMA LastTurnKept ==
  ASSUME HookTypeOK, NEW text
  PROVE  Kept(messages, WithoutLastTurn(text))
  BY TurnIsRemoved, RemovedKept, SameIsKept, Typed

LEMMA PrefixKept ==
  ASSUME NEW ms \in Seq(Message), NEW k \in 0 .. Len(ms)
  PROVE  Kept(ms, SubSeq(ms, 1, k))
<1>1. PICK new : new = SubSeq(ms, 1, k)
  OBVIOUS
<1>2. new \in Seq(Message) /\ DOMAIN new = 1 .. k /\ \A i \in 1 .. k : new[i] = ms[i] /\ i \in DOMAIN ms
  BY <1>1
<1>3. PICK f : f = [i \in DOMAIN new |-> i]
  OBVIOUS
<1>4. f \in [DOMAIN new -> DOMAIN ms] /\ \A i \in DOMAIN new : f[i] = i
  BY <1>2, <1>3
<1>5. \A i \in DOMAIN new : Grown(ms[f[i]], new[i])
  BY <1>2, <1>4, StaysIsGrown
<1>. QED
  BY <1>1, <1>2, <1>4, <1>5 DEF Kept

LEMMA UpToKept ==
  ASSUME HookTypeOK, NEW id
  PROVE  Kept(messages, UpTo(id))
<1> DEFINE I == {i \in 1 .. Len(messages) : messages[i].id = id}
           at == SelectInSeq(messages, LAMBDA m : m.id = id)
<1>1. messages \in Seq(Message) /\ Len(messages) \in Nat
  BY Typed
<1>2. at \in 0 .. Len(messages)
  <2>1. CASE I = {}
    BY <1>1, <2>1 DEF SelectInSeq
  <2>2. CASE I # {}
    <3>1. at = CHOOSE x \in I : \A y \in I : x <= y
      BY <2>2 DEF SelectInSeq, Min
    <3>2. \E x \in I : \A y \in I : x <= y
      <4>1. I \in SUBSET Nat
        OBVIOUS
      <4> HIDE DEF I
      <4>. QED
        BY <2>2, <4>1, LeastNat
    <3>3. at \in I
      <4> HIDE DEF I, at
      <4>. QED
        BY <3>1, <3>2
    <3>. QED
      BY <3>3
  <2>. QED
    BY <2>1, <2>2
<1>3. UpTo(id) = IF at = 0 THEN messages ELSE SubSeq(messages, 1, at - 1)
  BY DEF UpTo
<1> HIDE DEF at
<1>4. at # 0 => at - 1 \in 0 .. Len(messages)
  BY <1>1, <1>2
<1>. QED
  BY <1>1, <1>3, <1>4, SameIsKept, PrefixKept


(***************************************************************************)
(* The hook's steps.                                                       *)
(***************************************************************************)
CallsOk == \A r \in Runs : CallOk(r)

CallsForward ==
  \A r \in Runs : /\ run[r].pc # "idle" => run'[r].pc # "idle"
                  /\ run[r].tokens > 0 => run'[r].tokens > 0

LEMMA MoveIsOk ==
  ASSUME HookTypeOK, CallsOk, NEW r \in Runs, NEW to, Moves(r, to),
         run[r].tokens > 0 => run'[r].tokens > 0, to = "known" => run'[r].tokens > 0
  PROVE  CallsOk' /\ CallsForward
<1>1. \A q \in Runs : q = r \/ run'[q] = run[q]
  BY DEF Moves
<1>2. run'[r].pc # "idle" /\ run'[r].pc = to /\ run'[r].op = run[r].op /\ run'[r].target = run[r].target
  BY DEF Moves
<1>3. CallsForward
  BY <1>1, <1>2 DEF CallsForward
<1>4. CallOk(r)'
  BY <1>2 DEF CallsOk, CallOk
<1>5. ASSUME NEW q \in Runs, run'[q] = run[q] PROVE CallOk(q)'
  BY <1>5 DEF CallsOk, CallOk
<1>. QED
  BY <1>1, <1>3, <1>4, <1>5 DEF CallsOk

LEMMA MadeIsOk ==
  ASSUME HookTypeOK, CallsOk, NEW r \in Runs, NEW call, Made(r, call),
         call.op = "send" => call.target = BubbleId(r)
  PROVE  /\ CallsOk' /\ CallsForward /\ LockedOnlyByAStream'
         /\ run[r].pc = "idle" /\ run[r].tokens = 0 /\ run'[r].pc # "idle"
<1>1. \A q \in Runs : q = r \/ run'[q] = run[q]
  BY DEF Made
<1>2. /\ run[r].pc = "idle" /\ run'[r].pc = "fetching" /\ run'[r].tokens = 0
      /\ run'[r].op = call.op /\ run'[r].target = call.target
  BY DEF Made, Free
<1>3. run[r].tokens = 0
  BY <1>2 DEF CallsOk, CallOk
<1>4. CallsForward
  BY <1>1, <1>2, <1>3 DEF CallsForward
<1>5. CallOk(r)'
  BY <1>2 DEF CallOk
<1>6. ASSUME NEW q \in Runs, run'[q] = run[q] PROVE CallOk(q)'
  BY <1>6 DEF CallsOk, CallOk
<1>7. LockedOnlyByAStream'
  BY <1>2 DEF LockedOnlyByAStream, Live
<1>. QED
  BY <1>1, <1>2, <1>3, <1>4, <1>5, <1>6, <1>7 DEF CallsOk

LEMMA FlushKept ==
  ASSUME HookTypeOK, NEW r \in Runs \cup {NoRun}
  PROVE  Flushed(r) \in Seq(Message) /\ Kept(messages, Flushed(r)) /\ Kept(messages, messages)
<1>1. AllGrown(messages, Flushed(r))
  BY FlushGrows
<1>. QED
  BY <1>1, AllGrownIsKept, SameIsKept, Typed DEF AllGrown

LEMMA FailMoves ==
  ASSUME HookTypeOK, CallsOk, NEW r \in Runs, NEW kind, Fail(r, kind)
  PROVE  CallsOk' /\ CallsForward /\ LockedOnlyByAStream' /\ Kept(messages, messages')
<1>1. Goes(r, "failed") /\ isStreaming' = FALSE
  BY FinallyGoes DEF Fail, Finally
<1>2. Kept(messages, messages')
  <2>1. CASE run[r].op = "send"
    <3>1. messages' = Without(Flushed(r), run[r].target)
      BY <2>1 DEF Fail
    <3>2. PICK ms \in Seq(Message) : ms = Flushed(r) /\ Kept(messages, ms)
      BY FlushKept
    <3>. QED
      BY <3>1, <3>2, WithoutKept, KeptTwice
  <2>2. CASE run[r].op # "send"
    BY <2>2, FlushKept DEF Fail
  <2>. QED
    BY <2>1, <2>2
<1>. QED
  BY <1>1, <1>2, MoveIsOk DEF Goes, LockedOnlyByAStream

LEMMA DoneKept ==
  ASSUME HookTypeOK, NEW r \in Runs, NEW truncated \in BOOLEAN, Done(r, truncated)
  PROVE  Kept(messages, messages')
<1>1. PICK ms \in Seq(Message) : ms = Flushed(r) /\ Kept(messages, ms)
  BY FlushKept
<1>2. Kept(ms, Patch(ms, run[r].target, LAMBDA m : [m EXCEPT !.truncated = TRUE]))
  BY TruncatedGrows, AllGrownIsKept
<1>3. CASE truncated
  BY <1>1, <1>2, <1>3, KeptTwice DEF Done
<1>4. CASE ~truncated
  BY <1>1, <1>4 DEF Done
<1>. QED
  BY <1>3, <1>4

LEMMA CancelKept ==
  ASSUME HookTypeOK, Cancel
  PROVE  Kept(messages, messages')
<1>1. PICK ms \in Seq(Message) : ms = Flushed(flushNow) /\ Kept(messages, ms)
  BY FlushKept DEF HookTypeOK
<1>2. Kept(ms, Patch(ms, current, LAMBDA m : [m EXCEPT !.body = Append(@, Stopped), !.thinking = FALSE]))
  BY StoppedGrows, AllGrownIsKept
<1>. QED
  BY <1>1, <1>2, KeptTwice DEF Cancel

LEMMA NetworkMoves ==
  ASSUME HookTypeOK, CallsOk, LockedOnlyByAStream, NEW r \in Runs, NetworkStep(r)
  PROVE  /\ CallsOk' /\ CallsForward /\ LockedOnlyByAStream'
         /\ Kept(messages, messages') \/ Meta(r)
<1>1. CASE Headers(r)
  <2>1. Goes(r, "open") /\ UNCHANGED <<messages, isStreaming>>
    BY <1>1, StepGoes DEF Headers, PcStates, Live
  <2>. QED
    BY <2>1, MoveIsOk, FlushKept DEF Goes, Moves, LockedOnlyByAStream, Live
<1>2. CASE Refused(r)
  <2>1. Goes(r, "refused") /\ messages' = Flushed(r) /\ UNCHANGED isStreaming
    BY <1>2, StepGoes DEF Refused, PcStates, Live
  <2>. QED
    BY <2>1, MoveIsOk, FlushKept DEF Goes, Moves, LockedOnlyByAStream, Live
<1>3. CASE FirstEvent(r)
  <2>1. /\ Moves(r, "reading") /\ run'[r].tokens = run[r].tokens
        /\ UNCHANGED <<messages, isStreaming>>
    BY <1>3, FirstEventMoves DEF FirstEvent
  <2>. QED
    BY <2>1, MoveIsOk, FlushKept DEF Moves, LockedOnlyByAStream, Live
<1>4. CASE Chunk(r)
  <2>1. /\ Moves(r, "reading") /\ run'[r].tokens = run[r].tokens + 1
        /\ UNCHANGED <<messages, isStreaming>>
    BY <1>4, ChunkMoves DEF Chunk
  <2>2. run'[r].tokens > 0
    BY <2>1, BoundsAssumption DEF HookTypeOK
  <2>. QED
    BY <2>1, <2>2, MoveIsOk, FlushKept DEF Moves, LockedOnlyByAStream, Live
<1>5. CASE Meta(r)
  <2>1. Goes(r, "known") /\ UNCHANGED isStreaming /\ run[r].tokens > 0
    BY <1>5, StepGoes DEF Meta, PcStates, Live
  <2>. QED
    BY <1>5, <2>1, MoveIsOk DEF Goes, Moves, LockedOnlyByAStream, Live
<1>6. CASE EndOfStream(r)
  <2>1. Goes(r, "ended") /\ isStreaming' = FALSE /\ UNCHANGED messages
    BY <1>6, FinallyGoes DEF EndOfStream, Finally
  <2>. QED
    BY <2>1, MoveIsOk, FlushKept DEF Goes, Moves, LockedOnlyByAStream
<1>7. ASSUME NEW truncated \in BOOLEAN, Done(r, truncated)
      PROVE  CallsOk' /\ CallsForward /\ LockedOnlyByAStream' /\ Kept(messages, messages')
  <2>1. Goes(r, "done") /\ UNCHANGED isStreaming
    BY <1>7, DoneGoes DEF Done
  <2>. QED
    BY <1>7, <2>1, MoveIsOk, DoneKept DEF Goes, Moves, LockedOnlyByAStream, Live
<1>8. ASSUME NEW kind, Fail(r, kind)
      PROVE  CallsOk' /\ CallsForward /\ LockedOnlyByAStream' /\ Kept(messages, messages')
  BY <1>8, FailMoves
<1>9. CASE RefusedBody(r) \/ ContinuationRefused(r) \/ NetFail(r)
  BY <1>8, <1>9 DEF RefusedBody, ContinuationRefused, NetFail
<1>. QED
  BY <1>1, <1>2, <1>3, <1>4, <1>5, <1>6, <1>7, <1>9 DEF NetworkStep

LEMMA AbortMoves ==
  ASSUME HookTypeOK, CallsOk, NEW r \in Runs, AbortLands(r)
  PROVE  CallsOk' /\ CallsForward /\ LockedOnlyByAStream' /\ Kept(messages, messages')
<1>1. CASE Finally(r, "ended") /\ messages' = IF run[r].op = "send" THEN Flushed(r) ELSE messages
  <2>1. Goes(r, "ended") /\ isStreaming' = FALSE
    BY <1>1, FinallyGoes DEF Finally
  <2>2. Kept(messages, messages')
    BY <1>1, FlushKept
  <2>. QED
    BY <2>1, <2>2, MoveIsOk DEF Goes, Moves, LockedOnlyByAStream
<1>2. CASE \E kind : Fail(r, kind)
  BY <1>2, FailMoves
<1>. QED
  BY <1>1, <1>2 DEF AbortLands

\* What a send leaves of the transcript, and adds.
Sends(shown) ==
  /\ Kept(messages, shown)
  /\ \E r \in Runs, text \in Runs :
       /\ messages' = shown \o <<User(r, text), Placeholder(r)>>
       /\ run[r].pc = "idle" /\ run[r].tokens = 0 /\ run'[r].pc # "idle"

LEMMA SendMoves ==
  ASSUME HookTypeOK, CallsOk, NEW r \in Runs, NEW text \in Runs, NEW shown, Kept(messages, shown),
         SendMessage(r, text, shown)
  PROVE  /\ CallsOk' /\ CallsForward /\ LockedOnlyByAStream' /\ Sends(shown)
<1>1. PICK call : call = [op |-> "send", target |-> BubbleId(r), row |-> RowId(r), text |-> text]
  OBVIOUS
<1>2. Made(r, call) /\ messages' = shown \o <<User(r, text), Placeholder(r)>>
  BY <1>1, SendMakes
<1>3. call.op = "send" => call.target = BubbleId(r)
  BY <1>1
<1>. QED
  BY <1>2, <1>3, MadeIsOk DEF Sends

LEMMA HookMoves ==
  ASSUME HookTypeOK, CallsOk, LockedOnlyByAStream, HookStep
  PROVE  /\ CallsOk' /\ CallsForward /\ LockedOnlyByAStream'
         /\ Kept(messages, messages') \/ (\E r \in Runs : Meta(r)) \/ \E shown : Sends(shown)
<1>1. CASE Frame
  <2>1. UNCHANGED <<isStreaming, run>> /\ messages' = Flushed(raf)
    BY <1>1 DEF Frame
  <2>2. Kept(messages, messages')
    BY <2>1, FlushKept DEF HookTypeOK
  <2>3. CallsOk' /\ LockedOnlyByAStream'
    BY <2>1 DEF CallsOk, CallOk, LockedOnlyByAStream
  <2>. QED
    BY <2>1, <2>2, <2>3 DEF CallsForward
<1>2. CASE Cancel
  <2>1. isStreaming' = FALSE /\ Kept(messages, messages')
    BY <1>2, CancelKept DEF Cancel
  <2>2. CASE run' = run
    BY <2>1, <2>2 DEF CallsOk, CallOk, CallsForward, LockedOnlyByAStream
  <2>3. ASSUME NEW r \in Runs, NEW to \in {"aborted", "body aborted"}, Goes(r, to)
        PROVE  CallsOk' /\ CallsForward
    BY <2>3, MoveIsOk DEF Goes
  <2>4. run' = run \/ \E r \in Runs, to \in {"aborted", "body aborted"} : Goes(r, to)
    BY <1>2, CancelRuns
  <2>. QED
    BY <2>1, <2>2, <2>3, <2>4 DEF LockedOnlyByAStream
<1>3. ASSUME NEW r \in Runs, Retry(r)
      PROVE  CallsOk' /\ CallsForward /\ LockedOnlyByAStream' /\ \E shown : Sends(shown)
  <2>1. lastUserMessage \in Runs /\ SendMessage(r, lastUserMessage, WithoutLastTurn(lastUserMessage))
    BY <1>3 DEF Retry, HookTypeOK, NoRun
  <2>2. Kept(messages, WithoutLastTurn(lastUserMessage))
    BY LastTurnKept
  <2>. QED
    BY <2>1, <2>2, SendMoves
<1>4. ASSUME NEW r \in Runs, HandleSend(r)
      PROVE  CallsOk' /\ CallsForward /\ LockedOnlyByAStream' /\ \E shown : Sends(shown)
  <2>1. SendMessage(r, r, messages) /\ Kept(messages, messages)
    BY <1>4, FlushKept DEF HandleSend
  <2>. QED
    BY <2>1, SendMoves
<1>5. ASSUME NEW r \in Runs, AutoContinue(r)
      PROVE  CallsOk' /\ CallsForward /\ LockedOnlyByAStream' /\ Kept(messages, messages')
  <2>1. PICK m \in Message :
          /\ Made(r, [op |-> "continue", target |-> m.id, row |-> m.row, text |-> 0])
          /\ UNCHANGED messages
    BY <1>5, ContinuationMakes
  <2>2. PICK call : /\ call = [op |-> "continue", target |-> m.id, row |-> m.row, text |-> 0]
                    /\ Made(r, call)
    BY <2>1
  <2>3. call.op # "send"
    BY <2>2
  <2>. QED
    BY <2>1, <2>2, <2>3, MadeIsOk, FlushKept
<1>. QED
  BY <1>1, <1>2, <1>3, <1>4, <1>5, NetworkMoves, AbortMoves DEF HookStep


(***************************************************************************)
(* The server's versions after a step.                                     *)
(***************************************************************************)
LEMMA ChainsStay ==
  ASSUME ChainsOk, Forward, UNCHANGED chains
  PROVE  ChainsOk'
<1>1. \A t \in Heads : \A id \in Range(chains[t]) : VersionOf(id, t)'
  BY VersionsStay DEF ChainsOk
<1>. QED
  BY <1>1 DEF ChainsOk, Heads

LEMMA ChainGrows ==
  ASSUME RequestsTyped, ChainsOk, NEW t \in Heads, NEW id \in Ids,
         \A u \in Heads : id \notin Range(chains[u]),
         chains' = [chains EXCEPT ![t] = Append(@, id)], VersionOf(id, t)',
         \A i, u : VersionOf(i, u) => VersionOf(i, u)'
  PROVE  ChainsOk' /\ \A u \in Heads : Range(chains[u]) \subseteq Range(chains'[u])
<1>1. DOMAIN chains = Heads /\ chains[t] \in Seq(Ids)
  BY DEF ChainsOk
<1>2. /\ DOMAIN chains' = Heads /\ chains'[t] = Append(chains[t], id)
      /\ \A u \in Heads : u # t => chains'[u] = chains[u]
  BY <1>1
<1>3. Append(chains[t], id) \in Seq(Ids) /\ Range(Append(chains[t], id)) = Range(chains[t]) \cup {id}
  <2>1. ASSUME NEW c \in Seq(Ids)
        PROVE  Append(c, id) \in Seq(Ids) /\ Range(Append(c, id)) = Range(c) \cup {id}
    <3>1. /\ Append(c, id) \in Seq(Ids) /\ Len(c) \in Nat /\ DOMAIN c = 1 .. Len(c)
          /\ DOMAIN Append(c, id) = 1 .. Len(c) + 1
          /\ \A i \in 1 .. Len(c) : Append(c, id)[i] = c[i]
          /\ Append(c, id)[Len(c) + 1] = id
      OBVIOUS
    <3>2. \A i \in 1 .. Len(c) + 1 : i \in 1 .. Len(c) \/ i = Len(c) + 1
      BY <3>1
    <3>3. \A i \in 1 .. Len(c) : i \in 1 .. Len(c) + 1
      BY <3>1
    <3>4. Len(c) + 1 \in 1 .. Len(c) + 1
      BY <3>1
    <3>. QED
      BY <3>1, <3>2, <3>3, <3>4 DEF Range
  <2>. QED
    BY <1>1, <2>1
<1>4. \A u \in Heads : /\ chains'[u] \in Seq(Ids)
                       /\ Range(chains'[u]) = Range(chains[u]) \cup (IF u = t THEN {id} ELSE {})
  BY <1>2, <1>3 DEF ChainsOk
<1>5. \A u \in Heads : \A i \in Range(chains'[u]) : VersionOf(i, u)'
  BY <1>4 DEF ChainsOk
<1>6. \A u \in Heads : u \in Range(chains'[u])
  BY <1>4 DEF ChainsOk
<1>7. \A u, w \in Heads : u # w => Range(chains'[u]) \cap Range(chains'[w]) = {}
  BY <1>4 DEF ChainsOk
<1>8. ChainsOk'
  <2>1. \A u \in Heads : chains'[u] \in Seq(Ids)
    BY <1>4
  <2>. QED
    BY <1>2, <1>5, <1>6, <1>7, <2>1 DEF ChainsOk, Heads
<1>9. \A u \in Heads : Range(chains[u]) \subseteq Range(chains'[u])
  BY <1>4
<1>. QED
  BY <1>8, <1>9

LEMMA SameTurnStays ==
  ASSUME Forward, NEW a, NEW b, SameTurn(a, b)
  PROVE  SameTurn(a, b)'
<1>1. PICK t \in Heads : Begun(t) /\ {a, b} \subseteq Range(chains[t])
  BY DEF SameTurn
<1>2. Begun(t)' /\ {a, b} \subseteq Range(chains'[t])
  BY <1>1, BegunStays DEF Forward
<1>. QED
  BY <1>2 DEF SameTurn, Heads

LEMMA RowIsOf ==
  ASSUME RequestsTyped, ChainsOk, NEW id, IsRow(id)
  PROVE  /\ Turn(id) \in Heads /\ Begun(Turn(id)) /\ id \in Range(chains[Turn(id)])
         /\ \A i \in Range(chains[Turn(id)]) : IsRow(i)
<1>1. PICK t \in Heads : Begun(t) /\ id \in Range(chains[t])
  BY DEF IsRow
<1>2. Turn(id) = t
  BY <1>1, VersionIsOf
<1>. QED
  BY <1>1, <1>2 DEF IsRow

(***************************************************************************)
(* Regenerations.                                                          *)
(***************************************************************************)
LEMMA InFlight ==
  ASSUME RequestsOk, regenerating # NoId
  PROVE  /\ Len(regens) \in DOMAIN regens /\ Last(regens) = regens[Len(regens)]
         /\ regenerating = regens[Len(regens)].of /\ IsRow(regenerating) /\ Regenerated(regenerating)
<1>1. RequestsTyped /\ regens # <<>> /\ regenerating = Last(regens).of
  BY DEF RequestsOk
<1>2. Len(regens) \in DOMAIN regens
  BY <1>1 DEF RequestsTyped
<1>3. Last(regens) = regens[Len(regens)]
  BY DEF Last
<1>. QED
  BY <1>1, <1>2, <1>3 DEF RequestsOk, Regenerated

RegenBecomes(n, g) ==
  /\ regens' \in Seq(Regeneration) /\ DOMAIN regens' = DOMAIN regens /\ Len(regens') = Len(regens)
  /\ regens'[n] = g /\ g.of = regens[n].of
  /\ \A k \in DOMAIN regens : k # n => regens'[k] = regens[k]

LEMMA RegenChanges ==
  ASSUME RequestsTyped, NEW n \in DOMAIN regens, NEW g \in Regeneration, g.of = regens[n].of,
         regens' = [regens EXCEPT ![n] = g]
  PROVE  RegenBecomes(n, g)
<1>1. regens \in Seq(Regeneration)
  BY DEF RequestsTyped
<1>. QED
  BY <1>1 DEF RegenBecomes

LEMMA RegenStepChanges ==
  ASSUME RequestsOk, NEW from, NEW to \in {"fetching", "reading", "hydrating", "dropped", "over"},
         RegenStep(from, to)
  PROVE  LET n == Len(regens) IN
           /\ n \in DOMAIN regens /\ regens[n].pc = from
           /\ \E g : RegenBecomes(n, g) /\ g.pc = to /\ g.tokens = regens[n].tokens
<1>1. PICK n : n = Len(regens)
  OBVIOUS
<1>2. n \in DOMAIN regens /\ regens[n].pc = from /\ regens' = [regens EXCEPT ![n].pc = to]
  BY <1>1, InFlight DEF RegenStep
<1>3. PICK g : g = [regens[n] EXCEPT !.pc = to]
  OBVIOUS
<1>4. regens[n] \in Regeneration
  BY <1>2 DEF RequestsOk, RequestsTyped
<1>5. g \in Regeneration /\ g.of = regens[n].of /\ g.pc = to /\ g.tokens = regens[n].tokens
  BY <1>3, <1>4 DEF Regeneration
<1>6. regens' = [regens EXCEPT ![n] = g]
  BY <1>2, <1>3
<1>7. RegenBecomes(n, g)
  BY <1>2, <1>5, <1>6, RegenChanges DEF RequestsOk
<1>. QED
  BY <1>1, <1>2, <1>5, <1>7

\* What a step of a regeneration leaves as it was.
LEMMA RegenForward ==
  ASSUME NEW n \in DOMAIN regens, NEW g, RegenBecomes(n, g),
         regens[n].pc \in {"hydrating", "over"} =>
           g.pc \in {"hydrating", "over"} /\ g.tokens = regens[n].tokens,
         UNCHANGED <<edit, run>>, \A t \in Heads : Range(chains[t]) \subseteq Range(chains'[t])
  PROVE  Forward
<1>1. ASSUME NEW k \in DOMAIN regens
      PROVE  /\ k \in DOMAIN regens' /\ regens'[k].of = regens[k].of
             /\ regens[k].pc \in {"hydrating", "over"} =>
                  regens'[k].pc \in {"hydrating", "over"} /\ regens'[k].tokens = regens[k].tokens
  BY DEF RegenBecomes
<1>. QED
  BY <1>1 DEF Forward


(***************************************************************************)
(* The student's clicks, and answers that change no message.               *)
(***************************************************************************)
LEMMA AreaParts ==
  AreaInv <=> /\ HookTypeOK /\ LockedOnlyByAStream /\ CallsOk
              /\ ChainsOk /\ RequestsOk /\ BubblesOk
  BY DEF AreaInv, CallsOk, BubblesOk

LEMMA ShownOnly ==
  ASSUME AreaInv, messages' \in Seq(Message),
         UNCHANGED <<isStreaming, error, conversationId, lastUserMessage,
                     buffer, raf, flushNow, current, controller, run>>
  PROVE  HookTypeOK' /\ LockedOnlyByAStream' /\ CallsOk'
<1>1. HookTypeOK' /\ LockedOnlyByAStream'
  BY AreaParts DEF HookTypeOK, LockedOnlyByAStream
<1>2. CallsOk'
  BY AreaParts DEF CallsOk, CallOk
<1>. QED
  BY <1>1, <1>2

LEMMA RequestsGoOn ==
  ASSUME RequestsOk, RequestsTyped', Forward,
         \A id \in persisted' : id \in persisted \/ IsRow(id)',
         edit'.pc \in {"open", "saving"} =>
           (edit'.id = edit.id /\ edit.pc \in {"open", "saving"}) \/ IsRow(edit.id)',
         \A n \in DOMAIN regens' :
           (n \in DOMAIN regens /\ regens'[n].of = regens[n].of) \/ IsRow(regens[n].of)',
         regenerating' # NoId => regens' # <<>> /\ regenerating' = Last(regens').of,
         \A k \in DOMAIN loads' :
           \/ k \in DOMAIN loads /\ loads'[k] = loads[k]
           \/ loads'[k] = Answered
           \/ SameTurn(loads[k].from, loads[k].to)'
  PROVE  RequestsOk'
<1>1. \A id \in persisted' : IsRow(id)'
  BY RowsStay DEF RequestsOk
<1>2. edit'.pc \in {"open", "saving"} => IsRow(edit.id)'
  <2>1. CASE edit'.id = edit.id /\ edit.pc \in {"open", "saving"}
    <3>1. ASSUME NEW id, id = edit.id, id = edit'.id PROVE IsRow(edit.id)'
      <4>1. IsRow(id)'
        BY <2>1, <3>1, RowsStay DEF RequestsOk
      <4>. QED
        BY <3>1, <4>1 DEF IsRow
    <3>. QED
      BY <2>1, <3>1
  <2>. QED
    BY <2>1
<1>3. ASSUME NEW n \in DOMAIN regens' PROVE IsRow(regens[n].of)'
  <2>1. ASSUME NEW id, n \in DOMAIN regens, id = regens[n].of, id = regens'[n].of
        PROVE  IsRow(regens[n].of)'
    <3>1. IsRow(id)'
      BY <2>1, RowsStay DEF RequestsOk
    <3>. QED
      BY <2>1, <3>1 DEF IsRow
  <2>. QED
    BY <2>1
<1>4. ASSUME NEW k \in DOMAIN loads', loads'[k] # Answered
      PROVE  SameTurn(loads[k].from, loads[k].to)'
  <2>1. ASSUME NEW a, NEW b, k \in DOMAIN loads, loads'[k] = loads[k],
               a = loads[k].from, b = loads[k].to
        PROVE  SameTurn(loads[k].from, loads[k].to)'
    <3>1. SameTurn(a, b)'
      BY <1>4, <2>1, SameTurnStays DEF RequestsOk
    <3>. QED
      BY <2>1, <3>1 DEF SameTurn
  <2>. QED
    BY <1>4, <2>1
<1>5. \A k \in DOMAIN loads' : loads'[k] # Answered => SameTurn(loads[k].from, loads[k].to)'
  BY <1>4
<1>. QED
  BY <1>1, <1>2, <1>3, <1>5 DEF RequestsOk, Answered, NoId

LEMMA QuietStep ==
  ASSUME AreaInv, UNCHANGED <<hookVars, chains>>, Forward, RequestsOk'
  PROVE  AreaInv'
<1>1. HookTypeOK' /\ LockedOnlyByAStream' /\ CallsOk'
  BY ShownOnly, AreaParts DEF hookVars, HookTypeOK
<1>2. ChainsOk'
  BY AreaParts, ChainsStay
<1>3. Kept(messages, messages')
  BY AreaParts, SameIsKept, Typed DEF hookVars
<1>4. BubblesOk'
  BY <1>2, <1>3, AreaParts, KeptFollow DEF RequestsOk
<1>5. HookTypeOK' /\ LockedOnlyByAStream' /\ CallsOk' /\ ChainsOk' /\ RequestsOk' /\ BubblesOk'
  BY <1>1, <1>2, <1>4
<1>. QED
  BY <1>5, AreaParts, PTL

LEMMA SameForward ==
  ASSUME UNCHANGED <<run, chains, regens>>, edit.forked => edit'.forked
  PROVE  Forward
  BY DEF Forward

\* What a persisted message, or one that offers its actions, is asked about.
LEMMA EditorKeeps ==
  ASSUME AreaInv, OpenEditor \/ CloseEditor \/ SaveEdit \/ EditFails
  PROVE  AreaInv'
<1>1. RequestsOk /\ RequestsTyped
  BY AreaParts DEF RequestsOk
<1>2. /\ UNCHANGED <<hookVars, persisted, regenerating, regens, loads, chains>>
      /\ edit'.forked = edit.forked /\ DOMAIN edit' = DOMAIN edit
      /\ edit'.pc \in {"closed", "open", "saving", "landed"}
      /\ edit'.pc \in {"open", "saving"} =>
           (edit'.id = edit.id /\ edit.pc \in {"open", "saving"}) \/ edit'.id \in persisted
  BY <1>1 DEF RequestsTyped, OpenEditor, CloseEditor, SaveEdit, EditFails
<1>3. Forward
  BY <1>2, SameForward DEF hookVars
<1>4. RequestsTyped'
  BY <1>1, <1>2 DEF RequestsTyped
<1>5. ASSUME edit'.id \in persisted PROVE IsRow(edit.id)'
  <2>1. ASSUME NEW id, id = edit'.id PROVE IsRow(edit.id)'
    <3>1. IsRow(id)'
      BY <1>1, <1>3, <1>5, <2>1, RowsStay DEF RequestsOk
    <3>. QED
      BY <2>1, <3>1 DEF IsRow
  <2>. QED
    BY <2>1
<1>6. edit'.pc \in {"open", "saving"} =>
        (edit'.id = edit.id /\ edit.pc \in {"open", "saving"}) \/ IsRow(edit.id)'
  BY <1>2, <1>5
<1>7. regenerating' # NoId => regens' # <<>> /\ regenerating' = Last(regens').of
  BY <1>1, <1>2 DEF RequestsOk
<1>8. RequestsOk'
  BY <1>1, <1>2, <1>3, <1>4, <1>6, <1>7, RequestsGoOn
<1>. QED
  BY <1>2, <1>3, <1>8, QuietStep


\* A bubble that offers its actions is a row, and its versions are of one turn.
LEMMA PersistedBubble ==
  ASSUME AreaInv, NEW i \in DOMAIN messages, messages[i].id \in persisted
  PROVE  \E t \in Heads : /\ Begun(t) /\ messages[i].id \in Range(chains[t])
                          /\ Range(messages[i].siblings) \subseteq Range(chains[t])
<1>1. BubbleOk(messages[i]) /\ IsRow(messages[i].id)
  BY AreaParts DEF BubblesOk, RequestsOk
<1>2. PICK t \in Heads : messages[i].id \in Range(chains[t])
  BY <1>1 DEF IsRow
<1>3. \A r \in Runs : messages[i].id # UserId(r) /\ messages[i].id # BubbleId(r)
  BY <1>2, AreaParts, VersionIsOf DEF RequestsOk
<1>. QED
  BY <1>1, <1>3 DEF BubbleOk

LEMMA RegenerateKeeps ==
  ASSUME AreaInv, Regenerate
  PROVE  AreaInv'
<1>1. RequestsOk /\ RequestsTyped /\ HookTypeOK
  BY AreaParts DEF RequestsOk
<1>2. PICK i \in DOMAIN messages :
        /\ messages[i].id \in persisted /\ regenerating' = messages[i].id
        /\ regens' = Append(regens, [of |-> messages[i].id, tokens |-> 0, pc |-> "fetching"])
        /\ UNCHANGED <<hookVars, persisted, edit, loads, chains>>
  BY DEF Regenerate, OffersActions
<1>3. IsRow(messages[i].id) /\ messages[i].id \in Ids
  BY <1>1, <1>2, Typed DEF RequestsOk, Message
<1>4. PICK g : g = [of |-> messages[i].id, tokens |-> 0, pc |-> "fetching"]
  OBVIOUS
<1>5. g \in Regeneration /\ g.of = messages[i].id
  BY <1>3, <1>4, BoundsAssumption DEF Regeneration
<1>6. /\ regens' \in Seq(Regeneration) /\ regens' # <<>> /\ Last(regens') = g
      /\ \A n \in DOMAIN regens : n \in DOMAIN regens' /\ regens'[n] = regens[n]
      /\ \A n \in DOMAIN regens' : n \in DOMAIN regens \/ regens'[n] = g
  <2>1. regens \in Seq(Regeneration) /\ regens' = Append(regens, g)
    BY <1>1, <1>2, <1>4 DEF RequestsTyped
  <2>2. /\ regens' \in Seq(Regeneration) /\ Len(regens) \in Nat /\ Len(regens') = Len(regens) + 1
        /\ DOMAIN regens = 1 .. Len(regens) /\ DOMAIN regens' = 1 .. Len(regens) + 1
        /\ \A n \in 1 .. Len(regens) : regens'[n] = regens[n]
        /\ regens'[Len(regens) + 1] = g
    BY <1>5, <2>1
  <2>3. \A n \in 1 .. Len(regens) + 1 : n \in 1 .. Len(regens) \/ n = Len(regens) + 1
    BY <2>2
  <2>4. \A n \in 1 .. Len(regens) : n \in 1 .. Len(regens) + 1
    BY <2>2
  <2>5. Last(regens') = g /\ regens' # <<>>
    BY <2>2 DEF Last
  <2>. QED
    BY <2>2, <2>3, <2>4, <2>5
<1>7. Forward
  BY <1>2, <1>6 DEF Forward, hookVars
<1>8. RequestsTyped'
  BY <1>1, <1>2, <1>6 DEF RequestsTyped
<1>9. ASSUME NEW n \in DOMAIN regens'
      PROVE  (n \in DOMAIN regens /\ regens'[n].of = regens[n].of) \/ IsRow(regens[n].of)'
  <2>1. CASE n \in DOMAIN regens
    BY <1>6, <2>1
  <2>2. CASE n \notin DOMAIN regens
    <3>1. regens'[n].of = messages[i].id
      BY <1>5, <1>6, <2>2
    <3>2. ASSUME NEW id, id = messages[i].id PROVE IsRow(regens[n].of)'
      <4>1. IsRow(id)' /\ id = regens'[n].of
        BY <1>3, <1>7, <3>1, <3>2, RowsStay
      <4>. QED
        BY <4>1 DEF IsRow
    <3>. QED
      BY <3>2
  <2>. QED
    BY <2>1, <2>2
<1>10. regenerating' = Last(regens').of
  BY <1>2, <1>5, <1>6
<1>11. RequestsOk'
  BY <1>1, <1>2, <1>6, <1>7, <1>8, <1>9, <1>10, RequestsGoOn
<1>. QED
  BY <1>2, <1>7, <1>11, QuietStep

LEMMA SelectKeeps ==
  ASSUME AreaInv, SelectSibling
  PROVE  AreaInv'
<1>1. RequestsOk /\ RequestsTyped /\ HookTypeOK
  BY AreaParts DEF RequestsOk
<1>2. PICK i, j :
        /\ i \in DOMAIN messages /\ j \in DOMAIN messages[i].siblings
        /\ messages[i].id \in persisted
        /\ loads' = Append(loads, [from |-> messages[i].id, to |-> messages[i].siblings[j]])
        /\ UNCHANGED <<hookVars, persisted, edit, regenerating, regens, chains>>
  BY DEF SelectSibling, OffersVersions, OffersActions
<1>3. messages[i].siblings[j] \in Range(messages[i].siblings)
  BY <1>2 DEF Range
<1>4. PICK a, b : a = messages[i].id /\ b = messages[i].siblings[j]
  OBVIOUS
<1>5. SameTurn(a, b) /\ a \in Ids /\ b \in Ids
  <2>1. PICK t \in Heads : /\ Begun(t) /\ a \in Range(chains[t]) /\ b \in Range(chains[t])
    BY <1>2, <1>3, <1>4, PersistedBubble
  <2>. QED
    BY <1>1, <2>1, AreaParts, VersionIsOf DEF SameTurn
<1>6. PICK l : l = [from |-> a, to |-> b]
  OBVIOUS
<1>7. l \in VersionLoad /\ l.from = a /\ l.to = b
  BY <1>5, <1>6 DEF VersionLoad
<1>8. /\ loads' \in Seq(VersionLoad)
      /\ \A k \in DOMAIN loads' :
           (k \in DOMAIN loads /\ loads'[k] = loads[k]) \/ loads'[k] = l
  <2>1. loads \in Seq(VersionLoad) /\ loads' = Append(loads, l)
    BY <1>1, <1>2, <1>4, <1>6 DEF RequestsTyped
  <2>2. /\ loads' \in Seq(VersionLoad) /\ Len(loads) \in Nat
        /\ DOMAIN loads = 1 .. Len(loads) /\ DOMAIN loads' = 1 .. Len(loads) + 1
        /\ \A n \in 1 .. Len(loads) : loads'[n] = loads[n]
        /\ loads'[Len(loads) + 1] = l
    BY <1>7, <2>1
  <2>3. \A n \in 1 .. Len(loads) + 1 : n \in 1 .. Len(loads) \/ n = Len(loads) + 1
    BY <2>2
  <2>. QED
    BY <2>2, <2>3
<1>9. Forward
  BY <1>2, SameForward DEF hookVars
<1>10. RequestsTyped'
  BY <1>1, <1>2, <1>8 DEF RequestsTyped
<1>11. ASSUME NEW k \in DOMAIN loads', loads'[k] = l
       PROVE  SameTurn(loads[k].from, loads[k].to)'
  <2>1. SameTurn(a, b)' /\ loads'[k].from = a /\ loads'[k].to = b
    BY <1>5, <1>7, <1>9, <1>11, SameTurnStays
  <2>. QED
    BY <2>1 DEF SameTurn
<1>12. \A k \in DOMAIN loads' :
         \/ k \in DOMAIN loads /\ loads'[k] = loads[k]
         \/ loads'[k] = Answered
         \/ SameTurn(loads[k].from, loads[k].to)'
  BY <1>8, <1>11
<1>13. regenerating' # NoId => regens' # <<>> /\ regenerating' = Last(regens').of
  BY <1>1, <1>2 DEF RequestsOk
<1>14. RequestsOk'
  BY <1>1, <1>2, <1>9, <1>10, <1>12, <1>13, RequestsGoOn
<1>. QED
  BY <1>2, <1>9, <1>14, QuietStep

LEMMA LoadAnswered ==
  ASSUME RequestsTyped, NEW k \in DOMAIN loads, loads' = [loads EXCEPT ![k] = Answered]
  PROVE  /\ loads' \in Seq(VersionLoad) /\ DOMAIN loads' = DOMAIN loads
         /\ \A j \in DOMAIN loads' : loads'[j] = loads[j] \/ loads'[j] = Answered
<1>1. NoId \in Ids
  BY DEF NoId, Ids
<1>2. Answered \in VersionLoad
  BY <1>1 DEF Answered, VersionLoad
<1>. QED
  BY <1>2 DEF RequestsTyped

LEMMA LoadFailsKeeps ==
  ASSUME AreaInv, NEW k \in DOMAIN loads, SiblingFails(k)
  PROVE  AreaInv'
<1>1. RequestsOk /\ RequestsTyped
  BY AreaParts DEF RequestsOk
<1>2. UNCHANGED <<hookVars, persisted, edit, regenerating, regens, chains>>
  BY DEF SiblingFails
<1>3. /\ loads' \in Seq(VersionLoad) /\ DOMAIN loads' = DOMAIN loads
      /\ \A j \in DOMAIN loads' : loads'[j] = loads[j] \/ loads'[j] = Answered
  BY <1>1, LoadAnswered DEF SiblingFails
<1>4. Forward
  BY <1>2, SameForward DEF hookVars
<1>5. RequestsTyped'
  BY <1>1, <1>2, <1>3 DEF RequestsTyped
<1>6. regenerating' # NoId => regens' # <<>> /\ regenerating' = Last(regens').of
  BY <1>1, <1>2 DEF RequestsOk
<1>7. RequestsOk'
  BY <1>1, <1>2, <1>3, <1>4, <1>5, <1>6, RequestsGoOn
<1>. QED
  BY <1>2, <1>4, <1>7, QuietStep

\* A regeneration goes on: the requests stay what they were.
LEMMA RegenRequests ==
  ASSUME RequestsOk, Forward, NEW n, NEW g, RegenBecomes(n, g), UNCHANGED <<edit, loads>>,
         \A id \in persisted' : id \in persisted \/ IsRow(id)',
         regenerating' \in {regenerating, NoId}
  PROVE  RequestsOk'
<1>1. RequestsTyped'
  BY DEF RequestsOk, RequestsTyped, RegenBecomes
<1>2. \A k \in DOMAIN regens : regens'[k].of = regens[k].of
  BY DEF RegenBecomes
<1>3. regenerating' # NoId => regens' # <<>> /\ regenerating' = Last(regens').of
  <2>1. CASE regenerating' # NoId
    <3>1. regenerating' = regens[Len(regens)].of /\ Len(regens) \in DOMAIN regens
      BY <2>1, InFlight
    <3>2. Len(regens') \in DOMAIN regens' /\ regens'[Len(regens')].of = regens[Len(regens)].of
      BY <1>2, <3>1 DEF RegenBecomes
    <3>3. regens' # <<>>
      BY <3>2
    <3>. QED
      BY <3>1, <3>2, <3>3 DEF Last
  <2>. QED
    BY <2>1
<1>. QED
  BY <1>1, <1>2, <1>3, RequestsGoOn DEF RegenBecomes

LEMMA RegenFailsKeeps ==
  ASSUME AreaInv, RegenFails
  PROVE  AreaInv'
<1>1. RequestsOk
  BY AreaParts
<1>2. UNCHANGED <<hookVars, persisted, edit, loads, chains>> /\ regenerating' = NoId
  BY DEF RegenFails
<1>3. PICK n, g :
        /\ n \in DOMAIN regens /\ RegenBecomes(n, g) /\ g.tokens = regens[n].tokens
        /\ regens[n].pc \in {"hydrating", "over"} => g.pc \in {"hydrating", "over"}
  <2>1. PICK from, to :
          /\ RegenStep(from, to) /\ to \in {"over", "dropped"}
          /\ from \in {"hydrating", "over"} => to = "over"
    BY DEF RegenFails
  <2>2. PICK n : n = Len(regens)
    OBVIOUS
  <2>3. PICK g : /\ n \in DOMAIN regens /\ regens[n].pc = from
                 /\ RegenBecomes(n, g) /\ g.pc = to /\ g.tokens = regens[n].tokens
    BY <1>1, <2>1, <2>2, RegenStepChanges
  <2>. QED
    BY <2>1, <2>3
<1>4. Forward
  BY <1>2, <1>3, RegenForward DEF hookVars
<1>5. RequestsOk'
  BY <1>1, <1>2, <1>3, <1>4, RegenRequests
<1>. QED
  BY <1>2, <1>4, <1>5, QuietStep


(***************************************************************************)
(* Answers that the server stores something with.                          *)
(***************************************************************************)
LEMMA AnswerStep ==
  ASSUME AreaInv, messages' \in Seq(Message),
         UNCHANGED <<isStreaming, error, conversationId, lastUserMessage,
                     buffer, raf, flushNow, current, controller, run>>,
         ChainsOk', RequestsOk', BubblesOk'
  PROVE  AreaInv'
<1>1. HookTypeOK' /\ LockedOnlyByAStream' /\ CallsOk'
  BY ShownOnly
<1>2. HookTypeOK' /\ LockedOnlyByAStream' /\ CallsOk' /\ ChainsOk' /\ RequestsOk' /\ BubblesOk'
  BY <1>1
<1>. QED
  BY <1>2, AreaParts, PTL

LEMMA EditForksKeeps ==
  ASSUME AreaInv, EditForks
  PROVE  AreaInv'
<1>1. RequestsOk /\ RequestsTyped /\ ChainsOk /\ HookTypeOK /\ BubblesOk
  BY AreaParts DEF RequestsOk
<1>2. /\ edit.pc = "saving" /\ edit.forked # TRUE /\ edit' = [edit EXCEPT !.forked = TRUE]
      /\ chains' = [chains EXCEPT ![Turn(edit.id)] = Append(@, ForkId)]
      /\ UNCHANGED <<hookVars, persisted, regenerating, regens, loads>>
  BY DEF EditForks
<1>3. DOMAIN edit' = DOMAIN edit /\ edit'.forked = TRUE /\ edit'.pc = edit.pc /\ edit'.id = edit.id
  BY <1>1, <1>2 DEF RequestsTyped
<1>4. PICK t \in Heads : t = Turn(edit.id)
  BY <1>1, <1>2, RowIsOf DEF RequestsOk
<1>5. ForkId \in Ids
  BY NewIds, 0 \in Nat
<1>6. ASSUME NEW u \in Heads PROVE ForkId \notin Range(chains[u])
  <2>1. ~ VersionOf(ForkId, u)
    <3>1. ForkId[1] = "fork" /\ u[1] # "fork" /\ \A n : ForkId # Variant(n)
      BY HeadTags DEF ForkId, Variant
    <3>. QED
      BY <1>2, <3>1 DEF VersionOf
  <2>. QED
    BY <1>1, <2>1 DEF ChainsOk
<1>7. VersionOf(ForkId, t)' /\ \A i, u : VersionOf(i, u) => VersionOf(i, u)'
  BY <1>2, <1>3 DEF VersionOf
<1>8. ChainsOk' /\ \A u \in Heads : Range(chains[u]) \subseteq Range(chains'[u])
  BY <1>1, <1>2, <1>4, <1>5, <1>6, <1>7, ChainGrows
<1>9. Forward
  BY <1>2, <1>3, <1>8 DEF Forward, hookVars
<1>10. RequestsTyped'
  BY <1>1, <1>2, <1>3 DEF RequestsTyped
<1>11. regenerating' # NoId => regens' # <<>> /\ regenerating' = Last(regens').of
  BY <1>1, <1>2 DEF RequestsOk
<1>12. RequestsOk'
  BY <1>1, <1>2, <1>3, <1>9, <1>10, <1>11, RequestsGoOn
<1>13. messages' = messages /\ Kept(messages, messages')
  BY <1>1, <1>2, SameIsKept, Typed DEF hookVars
<1>14. BubblesOk'
  BY <1>1, <1>8, <1>9, <1>10, <1>13, KeptFollow
<1>. QED
  BY <1>1, <1>2, <1>8, <1>12, <1>13, <1>14, AnswerStep, Typed DEF hookVars

LEMMA RegenVersions ==
  ASSUME NEW n \in DOMAIN regens, NEW g, RegenBecomes(n, g), UNCHANGED edit,
         regens[n].pc \in {"hydrating", "over"} => g.pc \in {"hydrating", "over"}
  PROVE  \A i, u : VersionOf(i, u) => VersionOf(i, u)'
<1>1. \A k \in DOMAIN regens :
        /\ k \in DOMAIN regens'
        /\ regens[k].pc \in {"hydrating", "over"} => regens'[k].pc \in {"hydrating", "over"}
  BY DEF RegenBecomes
<1>. QED
  BY <1>1 DEF VersionOf

LEMMA StoredChains ==
  ASSUME RequestsOk, ChainsOk, NEW n \in DOMAIN regens, NEW g, RegenBecomes(n, g),
         regens[n].pc \notin {"hydrating", "over"}, g.pc \in {"hydrating", "over"},
         UNCHANGED edit, chains' = Store(n)
  PROVE  ChainsOk' /\ \A u \in Heads : Range(chains[u]) \subseteq Range(chains'[u])
<1>1. RequestsTyped /\ n \in Nat
  BY RegensTyped DEF RequestsOk
<1>2. PICK t \in Heads : t = Turn(regens[n].of)
  BY <1>1, RowIsOf DEF RequestsOk
<1>3. Variant(n) \in Ids
  BY <1>1, NewIds
<1>4. \A u \in Heads : Variant(n) \notin Range(chains[u])
  BY <1>1, VariantIsOver
<1>5. chains' = [chains EXCEPT ![t] = Append(@, Variant(n))]
  BY <1>2 DEF Store
<1>6. VersionOf(Variant(n), t)'
  BY DEF VersionOf, RegenBecomes
<1>7. \A i, u : VersionOf(i, u) => VersionOf(i, u)'
  BY RegenVersions
<1>. QED
  BY <1>1, <1>3, <1>4, <1>5, <1>6, <1>7, ChainGrows

\* A bubble that is regenerated is written anew.
LEMMA RewrittenGrows ==
  ASSUME HookTypeOK, NEW id, Regenerated(id), NEW b \in Seq(Nat), NEW thinking \in BOOLEAN
  PROVE  AllGrown(messages, [i \in DOMAIN messages |->
           IF messages[i].id = id THEN [messages[i] EXCEPT !.body = b, !.thinking = thinking]
           ELSE messages[i]])
<1> DEFINE new == [i \in DOMAIN messages |->
             IF messages[i].id = id THEN [messages[i] EXCEPT !.body = b, !.thinking = thinking]
             ELSE messages[i]]
<1>1. messages \in Seq(Message)
  BY Typed
<1>2. ASSUME NEW m \in Message, m.id = id
      PROVE  Grown(m, [m EXCEPT !.body = b, !.thinking = thinking])
  <2>1. ASSUME NEW n, n = [m EXCEPT !.body = b, !.thinking = thinking]
        PROVE  n \in Message /\ n.id = m.id /\ n.siblings = m.siblings
    BY <2>1 DEF Message
  <2>. QED
    BY <1>2, <2>1, StaysIsGrown
<1>3. ASSUME NEW m \in Message PROVE Grown(m, m)
  BY StaysIsGrown
<1>4. ASSUME NEW i \in DOMAIN messages PROVE Grown(messages[i], new[i])
  <2>1. messages[i] \in Message
    BY Typed
  <2>2. new[i] = IF messages[i].id = id
                 THEN [messages[i] EXCEPT !.body = b, !.thinking = thinking] ELSE messages[i]
    OBVIOUS
  <2> HIDE DEF new
  <2>. QED
    BY <1>2, <1>3, <2>1, <2>2
<1>5. new = [i \in DOMAIN messages |-> new[i]]
  OBVIOUS
<1> HIDE DEF new
<1>6. AllGrown(messages, new)
  BY <1>1, <1>4, <1>5, PatchGrows
<1>. QED
  BY <1>6 DEF new

\* Chunks, a notice, and the end of a regeneration.
LEMMA RegenWrites ==
  ASSUME AreaInv, NEW n \in DOMAIN regens, NEW g, RegenBecomes(n, g),
         regens[n].pc \notin {"hydrating", "over"},
         messages' \in Seq(Message), Kept(messages, messages'),
         UNCHANGED <<isStreaming, error, conversationId, lastUserMessage,
                     buffer, raf, flushNow, current, controller, run>>,
         UNCHANGED <<persisted, edit, loads>>, regenerating' \in {regenerating, NoId},
         chains' = chains \/ (chains' = Store(n) /\ g.pc \in {"hydrating", "over"})
  PROVE  AreaInv'
<1>1. RequestsOk /\ RequestsTyped /\ ChainsOk /\ HookTypeOK /\ BubblesOk
  BY AreaParts DEF RequestsOk
<1>2. \A u \in Heads : Range(chains[u]) \subseteq Range(chains'[u])
  BY <1>1, StoredChains
<1>3. Forward
  BY <1>2, RegenForward
<1>4. ChainsOk'
  BY <1>1, <1>3, ChainsStay, StoredChains
<1>5. RequestsOk'
  BY <1>1, <1>3, RegenRequests
<1>6. BubblesOk'
  BY <1>1, <1>3, <1>4, <1>5, KeptFollow DEF RequestsOk
<1>. QED
  BY <1>4, <1>5, <1>6, AnswerStep


LEMMA RegenOpensKeeps ==
  ASSUME AreaInv, RegenOpens
  PROVE  AreaInv'
<1>1. RequestsOk /\ HookTypeOK
  BY AreaParts
<1>2. PICK n : n = Len(regens)
  OBVIOUS
<1>3. PICK g : n \in DOMAIN regens /\ regens[n].pc = "fetching" /\ RegenBecomes(n, g)
  BY <1>1, <1>2, RegenStepChanges DEF RegenOpens
<1>4. Regenerated(regenerating)
  BY <1>1, InFlight DEF RegenOpens, RegenStep
<1>5. PICK b \in Seq(Nat) : b = <<>>
  <2>1. <<>> \in Seq(Nat)
    OBVIOUS
  <2>. QED
    BY <2>1, Zenon
<1>6. messages' = [i \in DOMAIN messages |->
        IF messages[i].id = regenerating THEN [messages[i] EXCEPT !.body = b, !.thinking = TRUE]
        ELSE messages[i]]
  BY <1>5 DEF RegenOpens, ShowOnly, Patch
<1>7. AllGrown(messages, messages')
  BY <1>1, <1>4, <1>6, RewrittenGrows
<1>8. messages' \in Seq(Message) /\ Kept(messages, messages')
  BY <1>7, AllGrownIsKept DEF AllGrown
<1>9. /\ UNCHANGED <<isStreaming, error, conversationId, lastUserMessage,
                     buffer, raf, flushNow, current, controller, run>>
      /\ UNCHANGED <<persisted, edit, regenerating, loads, chains>>
  BY DEF RegenOpens, ShowOnly
<1>. QED
  BY <1>3, <1>8, <1>9, RegenWrites

LEMMA RegenChunkKeeps ==
  ASSUME AreaInv, RegenChunk
  PROVE  AreaInv'
<1>1. RequestsOk /\ RequestsTyped /\ HookTypeOK
  BY AreaParts DEF RequestsOk
<1>2. PICK n : n = Len(regens)
  OBVIOUS
<1>3. /\ n \in DOMAIN regens /\ regens[n].pc = "reading" /\ regens[n].tokens < MaxTokens
      /\ regens' = [regens EXCEPT ![n].tokens = @ + 1] /\ Regenerated(regenerating)
  BY <1>1, <1>2, InFlight DEF RegenChunk
<1>4. PICK g : g = [regens[n] EXCEPT !.tokens = @ + 1]
  OBVIOUS
<1>5. regens[n] \in Regeneration /\ regens[n].tokens \in Nat /\ n \in Nat
  BY <1>1, <1>3, RegensTyped DEF RequestsTyped
<1>6. regens[n].tokens + 1 \in 0 .. MaxTokens
  BY <1>3, <1>5, BoundsAssumption
<1>7. g \in Regeneration /\ g.of = regens[n].of /\ regens' = [regens EXCEPT ![n] = g]
  BY <1>3, <1>4, <1>5, <1>6 DEF Regeneration
<1>8. RegenBecomes(n, g)
  BY <1>1, <1>3, <1>7, RegenChanges
<1>9. PICK b \in Seq(Nat) : b = Copies(regens[n].tokens + 1, VariantToken(n))
  <2>1. regens[n].tokens + 1 \in Nat /\ VariantToken(n) \in Nat
    BY <1>5 DEF VariantToken
  <2>. QED
    BY <2>1, CopiesTyped
<1>10. messages' = [i \in DOMAIN messages |->
         IF messages[i].id = regenerating THEN [messages[i] EXCEPT !.body = b, !.thinking = FALSE]
         ELSE messages[i]]
  BY <1>2, <1>9 DEF RegenChunk, ShowOnly, Patch
<1>11. AllGrown(messages, messages')
  BY <1>1, <1>3, <1>10, RewrittenGrows
<1>12. messages' \in Seq(Message) /\ Kept(messages, messages')
  BY <1>11, AllGrownIsKept DEF AllGrown
<1>13. /\ UNCHANGED <<isStreaming, error, conversationId, lastUserMessage,
                      buffer, raf, flushNow, current, controller, run>>
       /\ UNCHANGED <<persisted, edit, regenerating, loads, chains>>
  BY DEF RegenChunk, ShowOnly
<1>. QED
  BY <1>3, <1>8, <1>12, <1>13, RegenWrites

LEMMA RegenEndsKeeps ==
  ASSUME AreaInv, RegenEnds
  PROVE  AreaInv'
<1>1. RequestsOk /\ RequestsTyped /\ HookTypeOK
  BY AreaParts DEF RequestsOk
<1>2. PICK n : n = Len(regens)
  OBVIOUS
<1>3. PICK g : /\ n \in DOMAIN regens /\ regens[n].pc = "reading" /\ RegenBecomes(n, g)
               /\ g.pc \in {"over", "hydrating"}
  <2>1. PICK to \in {"over", "hydrating"} : RegenStep("reading", to)
    BY DEF RegenEnds
  <2>. QED
    BY <1>1, <1>2, <2>1, RegenStepChanges
<1>4. Regenerated(regenerating)
  BY <1>1, InFlight DEF RegenEnds, RegenStep
<1>5. PICK b \in Seq(Nat) : b = Append(Copies(regens[n].tokens, VariantToken(n)), Stopped)
  <2>1. regens[n].tokens \in Nat /\ VariantToken(n) \in Nat /\ Stopped \in Nat
    BY <1>1, <1>3, RegensTyped DEF VariantToken, Stopped
  <2>2. PICK c \in Seq(Nat) : c = Copies(regens[n].tokens, VariantToken(n))
    BY <2>1, CopiesTyped
  <2>3. Append(c, Stopped) \in Seq(Nat)
    BY <2>1
  <2>. QED
    BY <2>2, <2>3
<1>6. messages' \in Seq(Message) /\ Kept(messages, messages')
  <2>1. CASE messages' = messages
    BY <1>1, <2>1, SameIsKept, Typed
  <2>2. CASE messages' = Patch(messages, regenerating,
               LAMBDA m : [m EXCEPT !.body = Append(Copies(regens[n].tokens, VariantToken(n)), Stopped),
                                    !.thinking = FALSE])
    <3>1. messages' = [i \in DOMAIN messages |->
            IF messages[i].id = regenerating THEN [messages[i] EXCEPT !.body = b, !.thinking = FALSE]
            ELSE messages[i]]
      BY <1>5, <2>2 DEF Patch
    <3>2. AllGrown(messages, messages')
      BY <1>1, <1>4, <3>1, RewrittenGrows
    <3>. QED
      BY <3>2, AllGrownIsKept DEF AllGrown
  <2>. QED
    BY <1>2, <2>1, <2>2 DEF RegenEnds, ShowOnly, hookVars
<1>7. /\ UNCHANGED <<isStreaming, error, conversationId, lastUserMessage,
                     buffer, raf, flushNow, current, controller, run>>
      /\ UNCHANGED <<persisted, edit, loads>> /\ regenerating' \in {regenerating, NoId}
      /\ chains' = chains \/ chains' = Store(n)
  BY <1>2 DEF RegenEnds, ShowOnly, hookVars
<1>. QED
  BY <1>3, <1>6, <1>7, RegenWrites

LEMMA StoredLateKeeps ==
  ASSUME AreaInv, NEW n \in DOMAIN regens, StoredLate(n)
  PROVE  AreaInv'
<1>1. RequestsOk /\ RequestsTyped /\ HookTypeOK
  BY AreaParts DEF RequestsOk
<1>2. PICK t \in regens[n].tokens..MaxTokens : regens' = [regens EXCEPT ![n].pc = "over", ![n].tokens = t]
  BY DEF StoredLate
<1>3. PICK g : g = [regens[n] EXCEPT !.pc = "over", !.tokens = t]
  OBVIOUS
<1>4. regens[n] \in Regeneration /\ regens[n].tokens \in Nat
  BY <1>1, RegensTyped DEF RequestsTyped
<1>5. t \in 0 .. MaxTokens
  BY <1>4, BoundsAssumption
<1>6. g \in Regeneration /\ g.of = regens[n].of /\ g.pc = "over"
  BY <1>3, <1>4, <1>5 DEF Regeneration
<1>7. regens' = [regens EXCEPT ![n] = g]
  BY <1>2, <1>3
<1>8. RegenBecomes(n, g)
  BY <1>1, <1>6, <1>7, RegenChanges
<1>9. /\ regens[n].pc = "dropped" /\ chains' = Store(n)
      /\ UNCHANGED <<hookVars, persisted, edit, regenerating, loads>>
  BY DEF StoredLate
<1>10. messages' \in Seq(Message) /\ Kept(messages, messages')
  BY <1>1, <1>9, SameIsKept, Typed DEF hookVars
<1>. QED
  BY <1>6, <1>8, <1>9, <1>10, RegenWrites DEF hookVars


(***************************************************************************)
(* Answers that put another version in a bubble.                           *)
(***************************************************************************)
LEMMA VersionBody ==
  ASSUME HookTypeOK, RequestsTyped, ChainsOk, NEW t \in Heads, NEW id \in Range(chains[t])
  PROVE  /\ ServerBody(id) \in Seq(Nat)
         /\ \A n \in DOMAIN regens :
              id = Variant(n) => ServerBody(id) = Copies(regens[n].tokens, VariantToken(n))
<1>1. VersionOf(id, t)
  BY DEF ChainsOk
<1>2. \A i \in DOMAIN RowBody : i[1] = "server" /\ RowBody[i] \in Seq(Nat)
  BY AreaAssumption
<1>3. CASE id[1] = "server" /\ id \in DOMAIN RowBody
  <2>1. ServerBody(id) = RowBody[id]
    <3>1. id # ForkId
      BY <1>3 DEF ForkId
    <3>. QED
      BY <1>3, <3>1 DEF ServerBody
  <2>2. \A n : id # Variant(n)
    BY <1>3 DEF Variant
  <2>. QED
    BY <1>2, <1>3, <2>1, <2>2
<1>4. ASSUME NEW r \in Runs, id = RowId(r)
      PROVE  ServerBody(id) \in Seq(Nat) /\ \A n : id # Variant(n)
  <2>1. id[1] = "row" /\ id[2] = r /\ id # ForkId /\ id \notin DOMAIN RowBody /\ \A n : id # Variant(n)
    BY <1>2, <1>4 DEF RowId, ForkId, Variant
  <2>2. ServerBody(id) = Copies(run[r].tokens, r)
    BY <2>1 DEF ServerBody
  <2>3. run[r].tokens \in Nat /\ r \in Nat
    BY Typed, BoundsAssumption DEF HookTypeOK
  <2>. QED
    BY <2>1, <2>2, <2>3, CopiesTyped
<1>5. ASSUME NEW n \in DOMAIN regens, id = Variant(n)
      PROVE  ServerBody(id) = Copies(regens[n].tokens, VariantToken(n)) /\ ServerBody(id) \in Seq(Nat)
  <2>1. id[1] = "variant" /\ id[2] = n /\ id # ForkId /\ id \notin DOMAIN RowBody
    BY <1>2, <1>5 DEF Variant, ForkId
  <2>2. ServerBody(id) = Copies(regens[n].tokens, VariantToken(n))
    BY <2>1 DEF ServerBody
  <2>3. regens[n].tokens \in Nat /\ VariantToken(n) \in Nat
    BY RegensTyped DEF VariantToken
  <2>. QED
    BY <2>2, <2>3, CopiesTyped
<1>6. ASSUME id = ForkId
      PROVE  ServerBody(id) \in Seq(Nat) /\ \A n : id # Variant(n)
  <2>1. id[1] = "fork" /\ id \notin DOMAIN RowBody /\ \A n : id # Variant(n)
    BY <1>2, <1>6 DEF ForkId, Variant
  <2>2. ServerBody(id) = <<EditText>>
    BY <1>6, <2>1 DEF ServerBody
  <2>. QED
    BY <2>1, <2>2 DEF EditText
<1>. QED
  BY <1>1, <1>3, <1>4, <1>5, <1>6 DEF VersionOf

\* The bubble that shows one version of t takes another.
LEMMA VersionFollows ==
  ASSUME HookTypeOK, RequestsTyped, ChainsOk, NEW t \in Heads, Begun(t),
         NEW to \in Range(chains[t]), NEW m \in Message, m.id \in Range(chains[t]),
         NEW s \in Seq(Ids), Range(s) \subseteq Range(chains[t])
  PROVE  Follows(m, [m EXCEPT !.id = to, !.body = ServerBody(to), !.siblings = s, !.thinking = FALSE])
<1>1. PICK b \in Seq(Nat) : b = ServerBody(to)
  BY VersionBody
<1>2. to \in Ids
  BY VersionIsOf
<1>3. PICK n : n = [m EXCEPT !.id = to, !.body = b, !.siblings = s, !.thinking = FALSE]
  OBVIOUS
<1>4. n \in Message /\ n.id = to /\ n.siblings = s /\ n.body = b
  BY <1>2, <1>3 DEF Message
<1>5. ShowsVariant(n)
  <2>1. ASSUME NEW k \in DOMAIN regens, n.id = Variant(k)
        PROVE  IsPrefix(Copies(regens[k].tokens, VariantToken(k)), n.body)
    <3>1. n.body = Copies(regens[k].tokens, VariantToken(k))
      BY <1>1, <1>4, <2>1, VersionBody
    <3>. QED
      BY <1>4, <3>1, SamePrefix
  <2>. QED
    BY <2>1 DEF ShowsVariant
<1>6. Follows(m, n)
  BY <1>4, <1>5 DEF Follows
<1>. QED
  BY <1>1, <1>3, <1>6

LEMMA SameFollows ==
  ASSUME NEW m \in Message
  PROVE  Follows(m, m)
  BY StaysIsGrown DEF Follows

\* ... and no other bubble changes.
LEMMA FollowInPlace ==
  ASSUME AreaInv, Forward, ChainsOk', RequestsOk', NEW ms,
         messages' = [i \in DOMAIN messages |-> ms[i]],
         \A i \in DOMAIN messages : Follows(messages[i], ms[i]),
         UNCHANGED <<isStreaming, error, conversationId, lastUserMessage,
                     buffer, raf, flushNow, current, controller, run>>
  PROVE  AreaInv'
<1>1. RequestsOk /\ RequestsTyped /\ RequestsTyped' /\ ChainsOk /\ HookTypeOK /\ BubblesOk
  BY AreaParts DEF RequestsOk
<1>2. DOMAIN messages' = DOMAIN messages
  OBVIOUS
<1>3. \A i \in DOMAIN messages : Follows(messages[i], messages'[i])
  OBVIOUS
<1>4. \A m, n : Follows(m, n) => n \in Message
  BY DEF Follows, Grown
<1>5. messages' \in Seq(Message)
  <2>1. \A i \in DOMAIN messages : messages'[i] \in Message
    BY <1>3, <1>4
  <2>2. messages' = [i \in DOMAIN messages |-> messages'[i]]
    OBVIOUS
  <2>3. messages \in Seq(Message)
    BY <1>1, Typed
  <2>4. ASSUME NEW new, new = messages' PROVE new \in Seq(Message)
    BY <1>2, <2>1, <2>2, <2>3, <2>4, PatchIsTyped
  <2>. QED
    BY <2>4
<1>6. BubblesOk'
  BY <1>1, <1>2, <1>3, AllFollow
<1>. QED
  BY <1>5, <1>6, AnswerStep


\* The versions a row's answer lists, or none when it has only one.
LEMMA SiblingsAreVersions ==
  ASSUME RequestsTyped, ChainsOk, NEW id, IsRow(id)
  PROVE  /\ SiblingIds(id) \in Seq(Ids) /\ Range(SiblingIds(id)) \subseteq Range(chains[Turn(id)])
         /\ SiblingIds(id) # <<>> => Last(SiblingIds(id)) \in Range(chains[Turn(id)])
<1>1. chains[Turn(id)] \in Seq(Ids)
  BY RowIsOf DEF ChainsOk
<1>2. PICK c \in Seq(Ids) : c = chains[Turn(id)]
  BY <1>1
<1>3. SiblingIds(id) = IF Len(c) > 1 THEN c ELSE <<>>
  BY <1>2 DEF SiblingIds
<1>4. Range(<<>>) = {} /\ <<>> \in Seq(Ids)
  BY DEF Range
<1>5. Len(c) > 1 => Last(c) \in Range(c)
  <2>1. Len(c) > 1 => Len(c) \in DOMAIN c
    OBVIOUS
  <2>. QED
    BY <2>1 DEF Last, Range
<1>. QED
  BY <1>2, <1>3, <1>4, <1>5

LEMMA RegenHydratedKeeps ==
  ASSUME AreaInv, RegenHydrated
  PROVE  AreaInv'
<1>1. RequestsOk /\ RequestsTyped /\ ChainsOk /\ HookTypeOK /\ BubblesOk
  BY AreaParts DEF RequestsOk
<1>2. PICK n : n = Len(regens)
  OBVIOUS
<1>3. PICK g : /\ n \in DOMAIN regens /\ regens[n].pc = "hydrating" /\ RegenBecomes(n, g)
               /\ g.pc = "over" /\ g.tokens = regens[n].tokens
  BY <1>1, <1>2, RegenStepChanges DEF RegenHydrated
<1>4. IsRow(regenerating) /\ Regenerated(regenerating)
  BY <1>1, InFlight DEF RegenHydrated, RegenStep
<1>5. PICK t \in Heads : /\ t = Turn(regenerating) /\ Begun(t) /\ regenerating \in Range(chains[t])
                         /\ \A i \in Range(chains[t]) : IsRow(i)
  BY <1>1, <1>4, RowIsOf
<1>6. PICK siblings \in Seq(Ids) : siblings = SiblingIds(regenerating)
  BY <1>1, <1>4, SiblingsAreVersions
<1>7. /\ Range(siblings) \subseteq Range(chains[t])
      /\ siblings # <<>> => Last(siblings) \in Range(chains[t])
  BY <1>1, <1>4, <1>5, <1>6, SiblingsAreVersions
<1>8. PICK newest \in Range(chains[t]) : newest = IF siblings = <<>> THEN regenerating ELSE Last(siblings)
  BY <1>5, <1>7
<1>9. /\ UNCHANGED <<isStreaming, error, conversationId, lastUserMessage,
                     buffer, raf, flushNow, current, controller, run>>
      /\ UNCHANGED <<edit, loads, chains>> /\ regenerating' = NoId
      /\ persisted' = persisted \/ persisted' = persisted \cup Range(siblings)
  BY <1>6 DEF RegenHydrated, ShowOnly
<1>10. Forward
  BY <1>3, <1>9, RegenForward
<1>11. ChainsOk'
  BY <1>1, <1>9, <1>10, ChainsStay
<1>12. \A id \in persisted' : id \in persisted \/ IsRow(id)'
  BY <1>5, <1>7, <1>9, <1>10, RowsStay
<1>13. RequestsOk'
  BY <1>1, <1>3, <1>9, <1>10, <1>12, RegenRequests
<1>14. \A i \in DOMAIN messages : messages[i] \in Message
  BY <1>1, Typed
<1>15. CASE messages' = Patch(messages, regenerating,
              LAMBDA m : [m EXCEPT !.id = newest, !.body = ServerBody(newest),
                                   !.siblings = siblings, !.thinking = FALSE])
  <2> DEFINE New(m) == [m EXCEPT !.id = newest, !.body = ServerBody(newest),
                                 !.siblings = siblings, !.thinking = FALSE]
             ms == [i \in DOMAIN messages |->
                      IF messages[i].id = regenerating THEN New(messages[i]) ELSE messages[i]]
  <2>1. messages' = ms
    BY <1>15 DEF Patch
  <2>2. ASSUME NEW m \in Message, m.id = regenerating PROVE Follows(m, New(m))
    BY <1>1, <1>5, <1>7, <2>2, VersionFollows
  <2>3. ASSUME NEW i \in DOMAIN messages PROVE Follows(messages[i], ms[i])
    <3>1. ms[i] = IF messages[i].id = regenerating THEN New(messages[i]) ELSE messages[i]
      OBVIOUS
    <3> HIDE DEF ms, New
    <3>. QED
      BY <1>14, <2>2, <3>1, SameFollows
  <2>4. ms = [i \in DOMAIN messages |-> ms[i]]
    OBVIOUS
  <2> HIDE DEF ms
  <2>. QED
    BY <1>9, <1>10, <1>11, <1>13, <2>1, <2>3, <2>4, FollowInPlace
<1>16. CASE messages' = Patch(messages, regenerating, LAMBDA m : [m EXCEPT !.siblings = <<>>])
  <2> DEFINE ms == [i \in DOMAIN messages |->
                      IF messages[i].id = regenerating THEN [messages[i] EXCEPT !.siblings = <<>>]
                      ELSE messages[i]]
  <2>1. messages' = ms
    BY <1>16 DEF Patch
  <2>2. ASSUME NEW m \in Message PROVE Follows(m, [m EXCEPT !.siblings = <<>>])
    <3>1. <<>> \in Seq(Ids)
      OBVIOUS
    <3>2. ASSUME NEW l, l = [m EXCEPT !.siblings = <<>>]
          PROVE  l \in Message /\ l.id = m.id /\ l.siblings = <<>> /\ l.body = m.body
      BY <3>1, <3>2 DEF Message
    <3>. QED
      BY <3>2, StaysIsGrown DEF Follows
  <2>3. ASSUME NEW i \in DOMAIN messages PROVE Follows(messages[i], ms[i])
    <3>1. ms[i] = IF messages[i].id = regenerating THEN [messages[i] EXCEPT !.siblings = <<>>]
                  ELSE messages[i]
      OBVIOUS
    <3> HIDE DEF ms
    <3>. QED
      BY <1>14, <2>2, <3>1, SameFollows
  <2>4. ms = [i \in DOMAIN messages |-> ms[i]]
    OBVIOUS
  <2> HIDE DEF ms
  <2>. QED
    BY <1>9, <1>10, <1>11, <1>13, <2>1, <2>3, <2>4, FollowInPlace
<1>. QED
  BY <1>6, <1>8, <1>15, <1>16 DEF RegenHydrated, ShowOnly

LEMMA SiblingLandsKeeps ==
  ASSUME AreaInv, NEW k \in DOMAIN loads, SiblingLands(k)
  PROVE  AreaInv'
<1>1. RequestsOk /\ RequestsTyped /\ ChainsOk /\ HookTypeOK /\ BubblesOk
  BY AreaParts DEF RequestsOk
<1>2. PICK from, to : from = loads[k].from /\ to = loads[k].to
  OBVIOUS
<1>3. PICK t \in Heads : Begun(t) /\ from \in Range(chains[t]) /\ to \in Range(chains[t])
  BY <1>1, <1>2 DEF SiblingLands, RequestsOk, SameTurn
<1>4. IsRow(to) /\ Turn(to) = t /\ \A i \in Range(chains[t]) : IsRow(i)
  BY <1>1, <1>3, VersionIsOf DEF IsRow
<1>5. PICK siblings \in Seq(Ids) : siblings = SiblingIds(to) /\ Range(siblings) \subseteq Range(chains[t])
  BY <1>1, <1>4, SiblingsAreVersions
<1>6. /\ loads' = [loads EXCEPT ![k] = Answered]
      /\ persisted' = persisted \cup {to} \cup Range(siblings)
      /\ UNCHANGED <<edit, regenerating, regens, chains>>
      /\ UNCHANGED <<isStreaming, error, conversationId, lastUserMessage,
                     buffer, raf, flushNow, current, controller, run>>
  BY <1>2, <1>5 DEF SiblingLands, ShowOnly
<1>7. /\ loads' \in Seq(VersionLoad) /\ DOMAIN loads' = DOMAIN loads
      /\ \A j \in DOMAIN loads' : loads'[j] = loads[j] \/ loads'[j] = Answered
  BY <1>1, <1>6, LoadAnswered
<1>8. Forward
  BY <1>6, SameForward
<1>9. ChainsOk'
  BY <1>1, <1>6, <1>8, ChainsStay
<1>10. RequestsTyped'
  BY <1>1, <1>6, <1>7 DEF RequestsTyped
<1>11. \A id \in persisted' : id \in persisted \/ IsRow(id)'
  BY <1>3, <1>4, <1>5, <1>6, <1>8, RowsStay
<1>12. regenerating' # NoId => regens' # <<>> /\ regenerating' = Last(regens').of
  BY <1>1, <1>6 DEF RequestsOk
<1>13. RequestsOk'
  BY <1>1, <1>6, <1>7, <1>8, <1>10, <1>11, <1>12, RequestsGoOn
<1> DEFINE Listed(m) == IF siblings = <<>> THEN m.siblings ELSE siblings
           New(m) == [m EXCEPT !.id = to, !.body = ServerBody(to), !.siblings = Listed(m),
                               !.thinking = FALSE]
           ms == [i \in DOMAIN messages |->
                    IF messages[i].id = from THEN New(messages[i]) ELSE messages[i]]
<1>14. messages' = ms
  BY <1>2, <1>5 DEF SiblingLands, ShowOnly, Patch
<1>15. ASSUME NEW m \in Message, m.id = from, BubbleOk(m) PROVE Follows(m, New(m))
  <2>1. \A r \in Runs : m.id # UserId(r) /\ m.id # BubbleId(r)
    BY <1>1, <1>3, <1>15, VersionIsOf
  <2>2. PICK u \in Heads : m.id \in Range(chains[u]) /\ Range(m.siblings) \subseteq Range(chains[u])
    BY <1>15, <2>1 DEF BubbleOk
  <2>3. u = t
    BY <1>1, <1>3, <1>15, <2>2, VersionIsOf
  <2>4. m.siblings \in Seq(Ids)
    BY DEF Message
  <2>5. PICK s \in Seq(Ids) : s = Listed(m) /\ Range(s) \subseteq Range(chains[t])
    BY <1>5, <2>2, <2>3, <2>4
  <2> HIDE DEF Listed
  <2>6. Follows(m, [m EXCEPT !.id = to, !.body = ServerBody(to), !.siblings = s, !.thinking = FALSE])
    BY <1>1, <1>3, <1>15, <2>5, VersionFollows
  <2>. QED
    BY <2>5, <2>6
<1>16. ASSUME NEW i \in DOMAIN messages PROVE Follows(messages[i], ms[i])
  <2>1. messages[i] \in Message /\ BubbleOk(messages[i])
    BY <1>1, Typed DEF BubblesOk
  <2>2. ms[i] = IF messages[i].id = from THEN New(messages[i]) ELSE messages[i]
    OBVIOUS
  <2> HIDE DEF ms, New
  <2>. QED
    BY <1>15, <2>1, <2>2, SameFollows
<1>17. ms = [i \in DOMAIN messages |-> ms[i]]
  OBVIOUS
<1> HIDE DEF ms
<1>. QED
  BY <1>6, <1>8, <1>9, <1>13, <1>14, <1>16, <1>17, FollowInPlace


(***************************************************************************)
(* Steps of the hook, and the send of an edit.                             *)
(***************************************************************************)
LEMMA ForwardOfCalls ==
  ASSUME CallsForward, UNCHANGED <<chains, regens>>, edit.forked => edit'.forked
  PROVE  Forward
  BY DEF Forward, CallsForward

LEMMA MessagesTyped ==
  ASSUME HookTypeOK, RunsTyped', SharedTyped', messages' \in Seq(Message)
  PROVE  HookTypeOK'
  BY DEF HookTypeOK, RunsTyped, SharedTyped

LEMMA SendsFollow ==
  ASSUME RequestsTyped, ChainsOk, BubblesOk, RequestsTyped', ChainsOk', Forward,
         NEW shown, Sends(shown)
  PROVE  BubblesOk' /\ messages' \in Seq(Message)
  BY SentFollow DEF Sends

LEMMA EditLandsKeeps ==
  ASSUME AreaInv, EditLands
  PROVE  AreaInv'
<1>1. /\ RequestsOk /\ RequestsTyped /\ ChainsOk /\ HookTypeOK /\ BubblesOk /\ CallsOk
      /\ LockedOnlyByAStream /\ RunsTyped /\ SharedTyped
  BY AreaParts, TypeParts DEF RequestsOk
<1>2. /\ edit.pc = "saving" /\ edit.forked
      /\ persisted' = persisted \cup Range(chains[Turn(edit.id)])
      /\ UNCHANGED <<regenerating, regens, loads, chains>>
  BY DEF EditLands
<1>3. \A i \in Range(chains[Turn(edit.id)]) : IsRow(i)
  BY <1>1, <1>2, RowIsOf DEF RequestsOk
<1>4. /\ edit'.pc = "landed" /\ edit'.forked = edit.forked /\ DOMAIN edit' = DOMAIN edit
  BY <1>1 DEF EditLands, RequestsTyped
<1>5. Kept(messages, UpTo(edit.id))
  BY <1>1, UpToKept
<1>6. RequestsTyped'
  BY <1>1, <1>2, <1>4 DEF RequestsTyped
<1>7. regenerating' # NoId => regens' # <<>> /\ regenerating' = Last(regens').of
  BY <1>1, <1>2 DEF RequestsOk
<1>8. ASSUME Forward PROVE RequestsOk' /\ ChainsOk'
  <2>1. \A id \in persisted' : id \in persisted \/ IsRow(id)'
    BY <1>2, <1>3, <1>8, RowsStay
  <2>2. RequestsOk'
    BY <1>1, <1>2, <1>4, <1>6, <1>7, <1>8, <2>1, RequestsGoOn
  <2>3. ChainsOk'
    BY <1>1, <1>2, <1>8, ChainsStay
  <2>. QED
    BY <2>2, <2>3
<1>9. CASE edit.streaming
  <2>1. /\ messages' = UpTo(edit.id)
        /\ UNCHANGED <<isStreaming, error, conversationId, lastUserMessage,
                       buffer, raf, flushNow, current, controller, run>>
    BY <1>9 DEF EditLands
  <2>2. Forward
    BY <1>2, <1>4, <2>1, SameForward
  <2>3. Kept(messages, messages') /\ messages' \in Seq(Message)
    BY <1>5, <2>1 DEF Kept
  <2>4. BubblesOk'
    BY <1>1, <1>6, <1>8, <2>2, <2>3, KeptFollow
  <2>. QED
    BY <1>8, <2>1, <2>2, <2>3, <2>4, AnswerStep
<1>10. CASE ~edit.streaming
  <2>1. PICK r \in Runs : SendMessage(r, r, UpTo(edit.id))
    BY <1>10 DEF EditLands
  <2>2. CallsOk' /\ CallsForward /\ LockedOnlyByAStream' /\ Sends(UpTo(edit.id))
    BY <1>1, <1>5, <2>1, SendMoves
  <2>3. Forward
    BY <1>2, <1>4, <2>2, ForwardOfCalls
  <2>4. BubblesOk' /\ messages' \in Seq(Message)
    BY <1>1, <1>6, <1>8, <2>2, <2>3, SendsFollow
  <2>5. HookTypeOK'
    BY <1>1, <2>1, <2>4, SendTyped, MessagesTyped
  <2>6. HookTypeOK' /\ LockedOnlyByAStream' /\ CallsOk' /\ ChainsOk' /\ RequestsOk' /\ BubblesOk'
    BY <1>8, <2>2, <2>3, <2>4, <2>5
  <2>. QED
    BY <2>6, AreaParts, PTL
<1>. QED
  BY <1>9, <1>10

\* meta: the placeholder of a send becomes its row.
LEMMA MetaFollows ==
  ASSUME HookTypeOK, CallsOk, NEW r \in Runs, Meta(r)
  PROVE  /\ DOMAIN messages' = DOMAIN messages /\ messages' \in Seq(Message)
         /\ \A i \in DOMAIN messages : Follows(messages[i], messages'[i])
<1> DEFINE Sent(m) == [m EXCEPT !.id = RowId(r), !.row = RowId(r), !.truncated = run[r].cut]
           Continued(m) == [m EXCEPT !.row = RowId(r), !.truncated = run[r].cut]
<1>1. messages' \in Seq(Message) /\ DOMAIN messages' = DOMAIN messages /\ run[r].tokens > 0
  BY MetaShape DEF Meta
<1>2. RowId(r) \in Ids /\ run[r].cut \in BOOLEAN
  BY IdsApart DEF HookTypeOK
<1>3. ASSUME NEW m \in Message, m.id = run[r].target, run[r].op = "send" PROVE Follows(m, Sent(m))
  <2>1. m.id = BubbleId(r)
    BY <1>3 DEF CallsOk, CallOk
  <2>2. ASSUME NEW n, n = Sent(m)
        PROVE  n \in Message /\ n.id = RowId(r) /\ n.siblings = m.siblings
    BY <1>2, <2>2 DEF Message
  <2>. QED
    BY <1>1, <2>1, <2>2 DEF Follows
<1>4. ASSUME NEW m \in Message PROVE Follows(m, Continued(m))
  <2>1. ASSUME NEW n, n = Continued(m)
        PROVE  n \in Message /\ n.id = m.id /\ n.siblings = m.siblings /\ n.body = m.body
    BY <1>2, <2>1 DEF Message
  <2>. QED
    BY <2>1, StaysIsGrown DEF Follows
<1>5. ASSUME NEW i \in DOMAIN messages PROVE Follows(messages[i], messages'[i])
  <2>1. messages[i] \in Message
    BY Typed
  <2>2. CASE messages[i].id # run[r].target
    <3>1. messages'[i] = messages[i]
      BY <2>2 DEF Meta, Patch
    <3>. QED
      BY <2>1, <3>1, SameFollows
  <2>3. CASE messages[i].id = run[r].target /\ run[r].op = "send"
    <3>1. messages'[i] = Sent(messages[i])
      BY <2>3 DEF Meta, Patch
    <3> HIDE DEF Sent
    <3>. QED
      BY <1>3, <2>1, <2>3, <3>1
  <2>4. CASE messages[i].id = run[r].target /\ run[r].op # "send"
    <3>1. messages'[i] = Continued(messages[i])
      BY <2>4 DEF Meta, Patch
    <3> HIDE DEF Continued
    <3>. QED
      BY <1>4, <2>1, <3>1
  <2>. QED
    BY <2>2, <2>3, <2>4
<1>. QED
  BY <1>1, <1>5

LEMMA StreamsKeep ==
  ASSUME AreaInv, Streams
  PROVE  AreaInv'
<1>1. /\ RequestsOk /\ RequestsTyped /\ ChainsOk /\ HookTypeOK /\ BubblesOk /\ CallsOk
      /\ LockedOnlyByAStream
  BY AreaParts DEF RequestsOk
<1>2. /\ HookStep /\ UNCHANGED <<edit, regenerating, regens, loads, chains>>
      /\ persisted' = persisted \cup {RowId(r) : r \in {q \in Runs :
                        run[q].op = "send" /\ run'[q].pc = "known"}}
  BY DEF Streams
<1>3. /\ CallsOk' /\ CallsForward /\ LockedOnlyByAStream'
      /\ Kept(messages, messages') \/ (\E r \in Runs : Meta(r)) \/ \E shown : Sends(shown)
  BY <1>1, <1>2, HookMoves
<1>4. Forward
  BY <1>2, <1>3, ForwardOfCalls
<1>5. ChainsOk' /\ RequestsTyped'
  BY <1>1, <1>2, <1>4, ChainsStay DEF RequestsTyped
<1>6. ASSUME NEW r \in Runs, run'[r].pc = "known" PROVE IsRow(RowId(r))'
  <2>1. run'[r].tokens > 0
    BY <1>3, <1>6 DEF CallsOk, CallOk
  <2>2. Begun(RowId(r))'
    BY <2>1, IdsApart DEF Begun
  <2>3. RowId(r) \in Heads /\ RowId(r) \in Range(chains'[RowId(r)])
    BY <1>1, <1>2, KinOfSent DEF ChainsOk
  <2>. QED
    BY <2>2, <2>3 DEF IsRow, Heads
<1>7. \A id \in persisted' : id \in persisted \/ IsRow(id)'
  <2>1. ASSUME NEW id \in persisted', id \notin persisted PROVE IsRow(id)'
    <3>1. PICK r \in Runs : id = RowId(r) /\ run'[r].pc = "known"
      BY <1>2, <2>1
    <3>. QED
      BY <1>6, <3>1
  <2>. QED
    BY <2>1
<1>8. regenerating' # NoId => regens' # <<>> /\ regenerating' = Last(regens').of
  BY <1>1, <1>2 DEF RequestsOk
<1>9. RequestsOk'
  BY <1>1, <1>2, <1>4, <1>5, <1>7, <1>8, RequestsGoOn
<1>10. BubblesOk' /\ messages' \in Seq(Message)
  <2>1. CASE Kept(messages, messages')
    BY <1>1, <1>4, <1>5, <2>1, KeptFollow DEF Kept
  <2>2. ASSUME NEW r \in Runs, Meta(r) PROVE BubblesOk' /\ messages' \in Seq(Message)
    BY <1>1, <1>4, <1>5, <2>2, MetaFollows, AllFollow
  <2>3. ASSUME NEW shown, Sends(shown) PROVE BubblesOk' /\ messages' \in Seq(Message)
    BY <1>1, <1>4, <1>5, <2>3, SendsFollow
  <2>. QED
    BY <1>3, <2>1, <2>2, <2>3
<1>11. HookTypeOK'
  BY <1>1, <1>2, <1>10, CallsTyped, MessagesTyped
<1>12. HookTypeOK' /\ LockedOnlyByAStream' /\ CallsOk' /\ ChainsOk' /\ RequestsOk' /\ BubblesOk'
  BY <1>3, <1>5, <1>9, <1>10, <1>11
<1>. QED
  BY <1>12, AreaParts, PTL



(***************************************************************************)
(* The invariant.                                                          *)
(***************************************************************************)
\* A hydrated turn or reply has the versions the server listed for it.
LEMMA InitialVersions ==
  ASSUME AreaInit, NEW i \in DOMAIN Initial
  PROVE  LET m == Initial[i] IN
           /\ m.id \in Heads /\ m.id[1] = "server" /\ m.siblings \in Seq(Ids)
           /\ chains[m.id] = Versions(m) /\ Begun(m.id)
<1> DEFINE m == Initial[i]
<1>1. m \in Message /\ m \in Range(Initial) /\ m.id[1] = "server"
  BY InitialAssumption DEF Range
<1>2. m.id \in {x.id : x \in Range(Initial)} /\ m.siblings \in Seq(Ids)
  BY <1>1 DEF Message
<1>3. \A x \in Range(Initial) : x.id = m.id => x = m
  BY InitialAssumption DEF Range
<1>4. (CHOOSE x \in Range(Initial) : x.id = m.id) = m
  BY <1>1, <1>3
<1>5. m.id[1] # "row"
  BY <1>1
<1>6. chains[m.id] = Versions(CHOOSE x \in Range(Initial) : x.id = m.id)
  BY <1>2, <1>5 DEF AreaInit
<1>7. \A r \in Runs : m.id # RowId(r)
  BY <1>1, Tags, 0 \in Nat
<1>. QED
  BY <1>1, <1>2, <1>4, <1>6, <1>7 DEF Heads, Begun

LEMMA InitialChains ==
  ASSUME AreaInit
  PROVE  ChainsOk
<1>1. DOMAIN chains = Heads
  BY DEF AreaInit, Heads
<1>2. ASSUME NEW i \in DOMAIN Initial, NEW t, t = Initial[i].id
      PROVE  /\ chains[t] \in Seq(Ids) /\ t \in Range(chains[t])
             /\ \A id \in Range(chains[t]) : VersionOf(id, t) /\ id \in DOMAIN RowBody
             /\ chains[t] = Versions(Initial[i])
  <2>1. /\ chains[t] = Versions(Initial[i]) /\ Initial[i].siblings \in Seq(Ids)
        /\ Initial[i] \in Message
    BY <1>2, InitialVersions, InitialAssumption
  <2>2. chains[t] \in Seq(Ids)
    <3>1. Initial[i].id \in Ids
      BY <2>1 DEF Message
    <3>2. <<Initial[i].id>> \in Seq(Ids)
      BY <3>1
    <3>. QED
      BY <2>1, <3>2 DEF Versions
  <2>3. t \in Range(chains[t]) /\ Range(chains[t]) \subseteq DOMAIN RowBody
    BY <1>2, <2>1, AreaAssumption
  <2>4. \A id \in Range(chains[t]) : VersionOf(id, t) /\ id \in DOMAIN RowBody
    BY <2>3, AreaAssumption DEF VersionOf
  <2>. QED
    BY <2>1, <2>2, <2>3, <2>4
<1>3. ASSUME NEW r \in Runs, NEW t, t = RowId(r)
      PROVE  /\ chains[t] = <<t>> /\ chains[t] \in Seq(Ids) /\ Range(chains[t]) = {t}
             /\ VersionOf(t, t) /\ t \notin DOMAIN RowBody
  <2>1. t[1] = "row" /\ t \in Heads
    BY <1>3, Tags, 0 \in Nat DEF Heads
  <2>2. chains[t] = <<t>>
    BY <2>1 DEF AreaInit, Heads
  <2>3. t \in Ids
    BY <2>1, HeadTags
  <2>4. <<t>> \in Seq(Ids) /\ Range(<<t>>) = {t}
    BY <2>3 DEF Range
  <2>5. t \notin DOMAIN RowBody
    BY <2>1, AreaAssumption
  <2>6. VersionOf(t, t)
    BY <1>3 DEF VersionOf
  <2>. QED
    BY <2>2, <2>4, <2>5, <2>6
<1>4. \A t \in Heads : (\E i \in DOMAIN Initial : t = Initial[i].id) \/ (\E r \in Runs : t = RowId(r))
  BY DEF Heads, Range
<1>5. ASSUME NEW t \in Heads
      PROVE  /\ chains[t] \in Seq(Ids) /\ t \in Range(chains[t])
             /\ \A id \in Range(chains[t]) : VersionOf(id, t)
  <2>1. CASE \E i \in DOMAIN Initial : t = Initial[i].id
    BY <1>2, <2>1
  <2>2. CASE \E r \in Runs : t = RowId(r)
    <3>1. chains[t] \in Seq(Ids) /\ Range(chains[t]) = {t} /\ VersionOf(t, t)
      BY <1>3, <2>2
    <3>. QED
      BY <3>1
  <2>. QED
    BY <1>4, <2>1, <2>2
<1>6. ASSUME NEW t \in Heads, NEW u \in Heads, t # u
      PROVE  Range(chains[t]) \cap Range(chains[u]) = {}
  <2>1. ASSUME NEW i \in DOMAIN Initial, NEW j \in DOMAIN Initial, t = Initial[i].id, u = Initial[j].id
        PROVE  Range(chains[t]) \cap Range(chains[u]) = {}
    <3>1. i # j
      BY <1>6, <2>1
    <3>2. chains[t] = Versions(Initial[i]) /\ chains[u] = Versions(Initial[j])
      BY <1>2, <2>1
    <3>. QED
      BY <3>1, <3>2, AreaAssumption
  <2>2. ASSUME NEW r \in Runs, NEW w \in Heads, RowId(r) # w
        PROVE  Range(chains[RowId(r)]) \cap Range(chains[w]) = {}
    <3>1. Range(chains[RowId(r)]) = {RowId(r)} /\ RowId(r) \notin DOMAIN RowBody
      BY <1>3
    <3>2. CASE \E i \in DOMAIN Initial : w = Initial[i].id
      BY <1>2, <3>1, <3>2
    <3>3. CASE \E q \in Runs : w = RowId(q)
      <4>1. Range(chains[w]) = {w}
        BY <1>3, <3>3
      <4>. QED
        BY <2>2, <3>1, <4>1
    <3>. QED
      BY <1>4, <3>2, <3>3
  <2>. QED
    BY <1>4, <1>6, <2>1, <2>2
<1>. QED
  BY <1>1, <1>5, <1>6 DEF ChainsOk

LEMMA AreaStarts ==
  ASSUME AreaInit
  PROVE  AreaInv
<1>1. HookTypeOK /\ ~isStreaming /\ messages = Initial /\ \A r \in Runs : run[r] = Idle
  BY HookStarts DEF AreaInit, HookInit, HookInv
<1>2. LockedOnlyByAStream /\ CallsOk
  BY <1>1 DEF LockedOnlyByAStream, CallsOk, CallOk, Idle
<1>3. ChainsOk
  BY InitialChains
<1>4. ASSUME NEW i \in DOMAIN Initial
      PROVE  /\ Initial[i].id \in Heads /\ Begun(Initial[i].id)
             /\ {Initial[i].id} \cup Range(Initial[i].siblings) \subseteq Range(chains[Initial[i].id])
  <2>1. /\ Initial[i].id \in Heads /\ Begun(Initial[i].id) /\ Initial[i].siblings \in Seq(Ids)
        /\ chains[Initial[i].id] = Versions(Initial[i])
    BY InitialVersions
  <2>2. Range(Initial[i].siblings) \subseteq Range(Versions(Initial[i]))
    BY DEF Versions, Range
  <2>. QED
    BY <2>1, <2>2, AreaAssumption
<1>5. RequestsTyped
  <2>1. <<>> \in Seq(Regeneration) /\ <<>> \in Seq(VersionLoad)
    OBVIOUS
  <2>. QED
    BY <2>1 DEF RequestsTyped, AreaInit
<1>6. RequestsOk
  <2>1. \A id \in persisted : \E i \in DOMAIN Initial :
          id \in {Initial[i].id} \cup Range(Initial[i].siblings)
    BY DEF AreaInit, Range
  <2>2. \A id \in persisted : IsRow(id)
    BY <1>4, <2>1 DEF IsRow
  <2>3. edit.pc = "closed" /\ regens = <<>> /\ loads = <<>> /\ regenerating = NoId
    BY DEF AreaInit
  <2>. QED
    BY <1>5, <2>2, <2>3 DEF RequestsOk
<1>7. BubblesOk
  <2>1. \A i \in DOMAIN messages : BubbleOk(messages[i])
    BY <1>1, <1>4 DEF BubbleOk
  <2>2. \A i \in DOMAIN messages : ShowsVariant(messages[i])
    BY DEF AreaInit, ShowsVariant
  <2>3. ASSUME NEW i \in DOMAIN messages PROVE Kin(messages[i].id) = messages[i].id
    <3>1. messages[i].id \in Heads /\ messages[i].id \in Range(chains[messages[i].id])
      BY <1>1, <1>4
    <3>. QED
      BY <1>3, <1>5, <3>1, VersionIsOf
  <2>4. BubblesApart
    BY <1>1, <2>3, InitialAssumption DEF BubblesApart
  <2>. QED
    BY <2>1, <2>2, <2>4 DEF BubblesOk
<1>. QED
  BY <1>1, <1>2, <1>3, <1>6, <1>7, AreaParts

LEMMA AreaSteps ==
  ASSUME AreaInv, [AreaNext]_vars
  PROVE  AreaInv'
<1>1. CASE Streams
  BY <1>1, StreamsKeep
<1>2. CASE Answers
  <2>1. CASE EditForks \/ EditLands \/ EditFails
    BY <2>1, EditForksKeeps, EditLandsKeeps, EditorKeeps
  <2>2. CASE RegenAnswers
    BY <2>2, RegenOpensKeeps, RegenChunkKeeps, RegenEndsKeeps, RegenHydratedKeeps, RegenFailsKeeps
       DEF RegenAnswers
  <2>3. CASE \E n \in DOMAIN regens : StoredLate(n)
    BY <2>3, StoredLateKeeps
  <2>4. CASE \E k \in DOMAIN loads : SiblingLands(k) \/ SiblingFails(k)
    BY <2>4, SiblingLandsKeeps, LoadFailsKeeps
  <2>. QED
    BY <1>2, <2>1, <2>2, <2>3, <2>4 DEF Answers
<1>3. CASE Clicks
  BY <1>3, EditorKeeps, RegenerateKeeps, SelectKeeps DEF Clicks
<1>4. CASE UNCHANGED vars
  <2>1. UNCHANGED <<hookVars, persisted, edit, regenerating, regens, loads, chains>>
    BY <1>4 DEF vars, areaVars
  <2>2. RequestsOk /\ Forward
    BY <2>1, AreaParts, SameForward DEF hookVars
  <2>3. RequestsTyped'
    BY <2>1, <2>2 DEF RequestsOk, RequestsTyped
  <2>4. regenerating' # NoId => regens' # <<>> /\ regenerating' = Last(regens').of
    BY <2>1, <2>2 DEF RequestsOk
  <2>5. RequestsOk'
    BY <2>1, <2>2, <2>3, <2>4, RequestsGoOn
  <2>. QED
    BY <2>1, <2>2, <2>5, QuietStep
<1>. QED
  BY <1>1, <1>2, <1>3, <1>4 DEF AreaNext

\* Whatever order the answers to streams, edits, regenerations and loads land
\* in, every id the chat area holds is of one turn or reply, and no two bubbles
\* show versions of the same one (AreaInvariant).
THEOREM AreaInvariantHolds == AreaSpec => []AreaInv
<1>1. AreaInit => AreaInv
  BY AreaStarts
<1>2. AreaInv /\ [AreaNext]_vars => AreaInv'
  BY AreaSteps
<1>. QED
  BY <1>1, <1>2, PTL DEF AreaSpec

\* An edit that lands may send beside a stream under way; even so isStreaming
\* holds only while some call is on the network.
THEOREM LockIsAStreams == AreaSpec => []LockedOnlyByAStream
<1>1. AreaInv => LockedOnlyByAStream
  BY DEF AreaInv
<1>. QED
  BY <1>1, AreaInvariantHolds, PTL

\* However bubbles are renamed - by a hydrate, a variant or the row of a
\* finished reply - no two come to have one id.
THEOREM IdsStayApart == AreaSpec => []OneBubblePerId
<1>1. AreaInv => OneBubblePerId
  BY AreaParts DEF BubblesOk, BubblesApart, OneBubblePerId
<1>. QED
  BY <1>1, AreaInvariantHolds, PTL

\* A version of a turn that has begun is a row of the server.
LEMMA VersionsAreRows ==
  ASSUME HookTypeOK, RequestsTyped, ChainsOk, NEW t \in Heads, Begun(t), NEW id \in Range(chains[t])
  PROVE  id \in Rows
<1>1. VersionOf(id, t) /\ t \in DOMAIN chains
  BY DEF ChainsOk
<1>2. CASE id \in DOMAIN RowBody
  BY <1>2 DEF Rows
<1>3. ASSUME NEW r \in Runs, id = t, t = RowId(r) PROVE id \in Rows
  BY <1>3 DEF Begun, Rows
<1>4. ASSUME id[1] \in {"variant", "fork"} PROVE id \in Rows
  BY <1>1, <1>4 DEF Rows
<1>5. \A n \in DOMAIN regens : n \in Nat
  BY DEF RequestsTyped
<1>. QED
  BY <1>1, <1>2, <1>3, <1>4, <1>5, Tags, NewIds DEF VersionOf, ForkId, Variant

\* Every edit, regeneration and load asks the server about a row it has.
THEOREM RequestsAreOfRows == AreaSpec => []RequestsNameRows
<1>1. ASSUME AreaInv PROVE RequestsNameRows
  <2>1. HookTypeOK /\ RequestsTyped /\ ChainsOk /\ RequestsOk
    BY <1>1, AreaParts DEF RequestsOk
  <2>2. \A id : IsRow(id) => id \in Rows
    BY <2>1, VersionsAreRows DEF IsRow
  <2>3. \A a, b : SameTurn(a, b) => a \in Rows /\ b \in Rows
    BY <2>1, VersionsAreRows DEF SameTurn
  <2>4. edit.pc = "saving" => edit.id \in Rows
    BY <2>1, <2>2 DEF RequestsOk
  <2>5. \A n \in DOMAIN regens : regens[n].of \in Rows
    BY <2>1, <2>2 DEF RequestsOk
  <2>6. \A load \in Range(loads) : load # Answered => load.from \in Rows /\ load.to \in Rows
    BY <2>1, <2>3 DEF RequestsOk, Range
  <2>. QED
    BY <2>4, <2>5, <2>6 DEF RequestsNameRows
<1>2. AreaInv => RequestsNameRows
  BY <1>1
<1>. QED
  BY <1>2, AreaInvariantHolds, PTL

\* The chunks of a variant go to the bubble it was asked for, so the bubble that
\* takes the variant's id has its text first, whatever was patched meanwhile.
THEOREM VariantIsShown == AreaSpec => []VariantShowsItsText
<1>1. ASSUME AreaInv, NEW m \in Range(messages), m.id[1] = "variant",
             \A n \in DOMAIN regens : regens[n].of # m.id
      PROVE  IsPrefix(ServerBody(m.id), m.body)
  <2>1. HookTypeOK /\ RequestsTyped /\ ChainsOk /\ BubblesOk
    BY <1>1, AreaParts DEF RequestsOk
  <2>2. BubbleOk(m) /\ ShowsVariant(m)
    BY <2>1 DEF BubblesOk, Range
  <2>3. PICK t \in Heads : m.id \in Range(chains[t])
    <3>1. \A r \in Runs : m.id # UserId(r) /\ m.id # BubbleId(r)
      BY <1>1, Tags, 0 \in Nat
    <3>. QED
      BY <2>2, <3>1 DEF BubbleOk
  <2>4. VersionOf(m.id, t)
    BY <2>1, <2>3 DEF ChainsOk
  <2>5. PICK n \in DOMAIN regens : m.id = Variant(n)
    <3>1. \A r \in Runs : m.id # RowId(r)
      BY <1>1, Tags, 0 \in Nat
    <3>2. m.id # ForkId
      BY <1>1 DEF ForkId
    <3>. QED
      BY <1>1, <2>4, <3>1, <3>2 DEF VersionOf
  <2>6. ServerBody(m.id) = Copies(regens[n].tokens, VariantToken(n))
    BY <2>1, <2>3, <2>5, VersionBody
  <2>7. ~Regenerated(Variant(n))
    BY <1>1, <2>5 DEF Regenerated
  <2>. QED
    BY <2>2, <2>5, <2>6, <2>7 DEF ShowsVariant
<1>2. AreaInv => VariantShowsItsText
  BY <1>1 DEF VariantShowsItsText
<1>. QED
  BY <1>2, AreaInvariantHolds, PTL
=============================================================================
