---------------------------- MODULE PortalProofs ----------------------------
(***************************************************************************)
(* The invariants of the chat page and of the screens around it hold for   *)
(* any conversations, accounts, caps and numbers of clicks.                *)
(***************************************************************************)
EXTENDS PortalInvariant, FiniteSetTheorems, SequenceTheorems, WellFoundedInduction, TLAPS

(***************************************************************************)
(* The chat page.                                                          *)
(***************************************************************************)
\* A request to open a conversation joins those under way.
LEMMA Opened == ASSUME NEW B, NEW id, NEW push PROVE BagToSet(B (+) Open(id, push)) = BagToSet(B) \cup {[id |-> id, push |-> push]}
  BY DEF BagToSet, SetToBag, Open, (+)

\* An answer takes one away.
LEMMA Answered1 == ASSUME NEW B, NEW D PROVE BagToSet(B (-) D) \subseteq BagToSet(B)
  BY DEF BagToSet, (-)

\* At the start none is under way.
LEMMA NothingOpen == BagToSet(EmptyBag) = {}
  BY DEF BagToSet, EmptyBag, SetToBag

\* The page opens what its URL, or else the last visit, names.
LEMMA InitPage == PageInit => PageInv
<1>. SUFFICES ASSUME PageInit PROVE PageInv
  OBVIOUS
<1>1. \A o \in BagToSet(opening) : o.id \in {url, lastViewed}
  BY NothingOpen DEF PageInit, Open, SetToBag, BagToSet, (+)
<1>2. KnownIds
  BY <1>1 DEF PageInit, KnownIds, KnownConvs
<1>. QED
  BY <1>2 DEF PageInit, PageInv, WillShowTheActive, LastListing

\* The conversation of the page, of its URL and of its transcript.
ConvOf == <<activeConv, url, urlNext, lastViewed, area, opening, born, effectDue>>

\* The effect that compares opens nothing but the conversation of the URL.
LEMMA SyncOpens == ASSUME SyncWithUrl PROVE BagToSet(opening') \subseteq BagToSet(opening) \cup {[id |-> url, push |-> FALSE]}
<1>1. opening' = opening (+) Open(url, FALSE) \/ opening' = opening
  BY DEF SyncWithUrl
<1>2. BagToSet(opening (+) Open(url, FALSE)) = BagToSet(opening) \cup {[id |-> url, push |-> FALSE]}
  BY Opened
<1>. QED
  BY <1>1, <1>2

\* No handler of the page invents a conversation.
LEMMA KnownStep == ASSUME KnownIds, PageNext PROVE KnownIds'
<1>. USE PageAssumption DEF KnownIds, KnownConvs, listVars
<1>1. CASE UrlCommits
  BY <1>1 DEF UrlCommits
<1>2. CASE SyncWithUrl
  <2>1. \A o \in BagToSet(opening') : o.id \in KnownConvs
    BY <1>2, SyncOpens
  <2>2. /\ UNCHANGED <<url, urlNext, lastViewed, born>>
        /\ \/ activeConv' = None /\ Remount(None)
           \/ UNCHANGED <<activeConv, area>>
    BY <1>2 DEF SyncWithUrl
  <2>3. [key |-> area.key + 1, conv |-> None] \in [key : Nat, conv : KnownConvs]
    OBVIOUS
  <2>. QED
    BY <2>1, <2>2, <2>3 DEF Remount
<1>3. ASSUME NEW id \in Stored, SelectConversation(id) PROVE KnownIds'
  <2>1. BagToSet(opening') = BagToSet(opening) \cup {[id |-> id, push |-> TRUE]}
    BY <1>3, Opened DEF SelectConversation
  <2>2. UNCHANGED <<activeConv, url, urlNext, lastViewed, area, born>>
    BY <1>3 DEF SelectConversation
  <2>. QED
    BY <2>1, <2>2
<1>4. ASSUME NEW id \in Stored, Remove(id) PROVE KnownIds'
  BY <1>4 DEF Remove
<1>5. CASE New
  BY <1>5 DEF New, Reset, SetActive, Remount
<1>6. CASE FirstTurn
  BY <1>6 DEF FirstTurn
<1>7. CASE ToggleArchived
  BY <1>7 DEF ToggleArchived
<1>8. ASSUME NEW o \in BagToSet(opening), OpenLands(o) PROVE KnownIds'
  BY <1>8, Answered1 DEF OpenLands, SetActive, Remount
<1>9. ASSUME NEW o \in BagToSet(opening), OpenFails(o) PROVE KnownIds'
  BY <1>9, Answered1 DEF OpenFails, SetActive
<1>10. ASSUME NEW key \in streams, FirstEvent(key) PROVE KnownIds'
  BY <1>10 DEF FirstEvent, SetActive
<1>11. ASSUME NEW key \in streams, FirstTurnFails(key) PROVE KnownIds'
  BY <1>11 DEF FirstTurnFails
<1>12. CASE RemoveLands
  BY <1>12 DEF RemoveLands, Reset, SetActive, Remount
<1>13. CASE RemoveFails
  BY <1>13 DEF RemoveFails
<1>14. ASSUME NEW i \in DOMAIN listing, ListLands(i) PROVE KnownIds'
  BY <1>14 DEF ListLands
<1>. QED
  BY <1>1, <1>2, <1>3, <1>4, <1>5, <1>6, <1>7, <1>8, <1>9, <1>10, <1>11, <1>12, <1>13, <1>14
     DEF PageNext, Clicked, Answered

\* What the page shows as active it has opened, is opening or is about to open.
LEMMA ShowsStep == ASSUME KnownIds, WillShowTheActive, PageNext PROVE WillShowTheActive'
<1>. USE DEF WillShowTheActive, listVars
<1>1. CASE UrlCommits
  BY <1>1 DEF UrlCommits
<1>2. CASE SyncWithUrl
  <2>1. CASE url = None /\ activeConv # None
    BY <1>2, <2>1 DEF SyncWithUrl
  <2>2. CASE url # None /\ url # activeConv
    <3>1. opening' = opening (+) Open(url, FALSE)
      BY <1>2, <2>2 DEF SyncWithUrl
    <3>2. BagToSet(opening (+) Open(url, FALSE)) = BagToSet(opening) \cup {[id |-> url, push |-> FALSE]}
      BY Opened
    <3>. QED
      BY <3>1, <3>2
  <2>3. CASE url = activeConv \/ (url = None /\ activeConv = None)
    BY <1>2, <2>3 DEF SyncWithUrl
  <2>. QED
    BY <2>1, <2>2, <2>3
<1>3. ASSUME NEW id \in Stored, SelectConversation(id) PROVE WillShowTheActive'
  <2>1. BagToSet(opening') = BagToSet(opening) \cup {[id |-> id, push |-> TRUE]}
    BY <1>3, Opened DEF SelectConversation
  <2>2. UNCHANGED <<activeConv, url, area, effectDue>>
    BY <1>3 DEF SelectConversation
  <2>. QED
    BY <2>1, <2>2
<1>4. ASSUME NEW id \in Stored, Remove(id) PROVE WillShowTheActive'
  BY <1>4 DEF Remove
<1>5. CASE New
  BY <1>5 DEF New, Reset, SetActive, Remount
<1>6. CASE FirstTurn
  BY <1>6 DEF FirstTurn
<1>7. CASE ToggleArchived
  BY <1>7 DEF ToggleArchived
<1>8. ASSUME NEW o \in BagToSet(opening), OpenLands(o) PROVE WillShowTheActive'
  BY <1>8 DEF OpenLands, SetActive, Remount
<1>9. ASSUME NEW o \in BagToSet(opening), OpenFails(o) PROVE WillShowTheActive'
  BY <1>9 DEF OpenFails, SetActive
<1>10. ASSUME NEW key \in streams, FirstEvent(key) PROVE WillShowTheActive'
  BY <1>10, PageAssumption DEF FirstEvent, SetActive, KnownIds, KnownConvs
<1>11. ASSUME NEW key \in streams, FirstTurnFails(key) PROVE WillShowTheActive'
  BY <1>11 DEF FirstTurnFails
<1>12. CASE RemoveLands
  BY <1>12 DEF RemoveLands, Reset, SetActive, Remount
<1>13. CASE RemoveFails
  BY <1>13 DEF RemoveFails
<1>14. ASSUME NEW i \in DOMAIN listing, ListLands(i) PROVE WillShowTheActive'
  BY <1>14 DEF ListLands
<1>. QED
  BY <1>1, <1>2, <1>3, <1>4, <1>5, <1>6, <1>7, <1>8, <1>9, <1>10, <1>11, <1>12, <1>13, <1>14
     DEF PageNext, Clicked, Answered

\* Each change of the filter, and each change on the server, asks for the list again.
LEMMA ListStep == ASSUME LastListing, PageNext PROVE LastListing'
<1>1. CASE UNCHANGED listVars
  BY <1>1 DEF LastListing, listVars
<1>2. CASE ToggleArchived
  BY <1>2 DEF ToggleArchived, LastListing
<1>3. ASSUME NEW i \in DOMAIN listing, ListLands(i) PROVE LastListing'
  BY <1>3 DEF ListLands, LastListing
<1>. QED
  BY <1>1, <1>2, <1>3 DEF PageNext, Clicked, Answered, UrlCommits, SyncWithUrl, SelectConversation, Remove,
       New, FirstTurn, OpenLands, OpenFails, FirstEvent, FirstTurnFails, RemoveLands, RemoveFails, listVars

\* Every step of the page keeps its invariant.
LEMMA PageStep == ASSUME PageInv, [PageNext]_pageVars PROVE PageInv'
<1>1. CASE PageNext
  BY <1>1, KnownStep, ShowsStep, ListStep DEF PageInv
<1>2. CASE UNCHANGED pageVars
  BY <1>2 DEF pageVars, PageInv, KnownIds, KnownConvs, WillShowTheActive, LastListing
<1>. QED
  BY <1>1, <1>2

(***************************************************************************)
(* The composer.                                                           *)
(***************************************************************************)
\* What the upload loops are made of.
LEMMA LoopsAreNumbers ==
  ASSUME NEW ups \in Seq(Loops), NEW u \in DOMAIN ups
  PROVE  /\ u \in Nat /\ ups[u] \in Loops
         /\ ups[u].next \in Nat /\ ups[u].last \in Nat
<1>1. u \in Nat /\ ups[u] \in Loops
  OBVIOUS
<1>. QED
  BY <1>1 DEF Loops

\* A loop over files just picked starts behind all those before it.
LEMMA LoopStarts ==
  ASSUME NEW p, NEW files, NEW ups, UploadsOk(p, files, ups), NEW n \in Nat, NEW k \in 0 .. n, NEW b \in BOOLEAN
  PROVE  /\ UploadsOk(p + n, files, ups)
         /\ UploadsOk(p + n, files, Append(ups, [next |-> p + 1, last |-> p + k, extras |-> b]))
<1>. DEFINE loop == [next |-> p + 1, last |-> p + k, extras |-> b]
            more == Append(ups, loop)
<1>1. /\ p \in Nat /\ p + n \in Nat /\ files \subseteq 1 .. p /\ ups \in Seq(Loops)
      /\ \A u \in DOMAIN ups : ups[u].next \in Nat /\ ups[u].last \in Nat
  BY LoopsAreNumbers DEF UploadsOk
<1>2. loop \in Loops /\ loop.next = p + 1 /\ loop.last = p + k
  BY <1>1 DEF Loops
<1>. HIDE DEF loop
<1>3. /\ more \in Seq(Loops) /\ Len(ups) \in Nat /\ DOMAIN ups = 1 .. Len(ups) /\ DOMAIN more = 1 .. Len(ups) + 1
      /\ more[Len(ups) + 1] = loop /\ \A u \in DOMAIN ups : more[u] = ups[u]
  BY <1>1, <1>2
<1>. HIDE DEF more
<1>4. files \subseteq 1 .. p + n
  BY <1>1
<1>5. \A u \in DOMAIN ups : ups[u].last <= p /\ ups[u].last <= p + n
  BY <1>1 DEF UploadsOk
<1>6. UploadsOk(p + n, files, ups)
  BY <1>1, <1>4, <1>5 DEF UploadsOk
<1>7. \A u \in DOMAIN more : u \in DOMAIN ups \/ (u = Len(ups) + 1 /\ more[u] = loop)
  BY <1>3
<1>8. UploadsOk(p + n, files, more)
  BY <1>1, <1>2, <1>3, <1>4, <1>5, <1>6, <1>7 DEF UploadsOk
<1>. QED
  BY <1>6, <1>8 DEF loop, more

\* A loop that is done with a file never comes back to it.
LEMMA LoopMovesOn ==
  ASSUME NEW p, NEW files, NEW ups, UploadsOk(p, files, ups), NEW u \in DOMAIN ups, ups[u].next <= ups[u].last
  PROVE  /\ UploadsOk(p, files, [ups EXCEPT ![u].next = @ + 1])
         /\ UploadsOk(p, files \cup {ups[u].next}, [ups EXCEPT ![u].next = @ + 1])
<1>. DEFINE loop == [ups[u] EXCEPT !.next = @ + 1]
            moved == [ups EXCEPT ![u] = loop]
<1>1. /\ p \in Nat /\ files \subseteq 1 .. p /\ ups \in Seq(Loops)
      /\ \A v \in DOMAIN ups : ups[v] \in Loops /\ ups[v].next \in Nat /\ ups[v].last \in Nat /\ v \in Nat
  BY LoopsAreNumbers DEF UploadsOk
<1>2. loop \in Loops /\ loop.next = ups[u].next + 1 /\ loop.last = ups[u].last
  <2>1. ups[u] \in Loops /\ ups[u].next \in Nat
    BY <1>1
  <2>. HIDE DEF UploadsOk
  <2>. QED
    BY <2>1 DEF Loops
<1>3. moved = [ups EXCEPT ![u].next = @ + 1]
  OBVIOUS
<1>. HIDE DEF loop
<1>4. /\ moved \in Seq(Loops) /\ DOMAIN moved = DOMAIN ups
      /\ moved[u] = loop /\ \A v \in DOMAIN ups : v # u => moved[v] = ups[v]
  BY <1>1, <1>2
<1>. HIDE DEF moved
<1>5. \A v \in DOMAIN ups : moved[v].last = ups[v].last /\ moved[v].next \in Nat /\ ups[v].next <= moved[v].next
  BY <1>1, <1>2, <1>4
<1>6. \A v \in DOMAIN ups : ups[u].next < moved[v].next \/ moved[v].last < ups[u].next
  <2>. SUFFICES ASSUME NEW v \in DOMAIN ups PROVE ups[u].next < moved[v].next \/ moved[v].last < ups[u].next
    OBVIOUS
  <2>1. CASE v = u
    BY <1>1, <1>2, <1>4, <2>1
  <2>2. CASE v < u
    BY <1>1, <1>5, <2>2 DEF UploadsOk
  <2>3. CASE u < v
    BY <1>1, <1>5, <2>3 DEF UploadsOk
  <2>. QED
    BY <1>1, <2>1, <2>2, <2>3
<1>7. ups[u].next \in 1 .. p
  BY <1>1 DEF UploadsOk
<1>8. UploadsOk(p, files, moved)
  <2>. SUFFICES ASSUME NEW v \in DOMAIN ups
                PROVE  /\ 0 < moved[v].next /\ moved[v].last <= p
                       /\ \A w \in DOMAIN ups : v < w => moved[v].last < moved[w].next
                       /\ \A f \in files : f < moved[v].next \/ moved[v].last < f
    BY <1>1, <1>4 DEF UploadsOk
  <2>1. /\ 0 < ups[v].next /\ ups[v].last <= p
        /\ \A w \in DOMAIN ups : v < w => ups[v].last < ups[w].next
        /\ \A f \in files : f \in Nat /\ (f < ups[v].next \/ ups[v].last < f)
    BY <1>1 DEF UploadsOk
  <2>2. 0 < moved[v].next /\ moved[v].last <= p
    BY <1>1, <1>5, <2>1
  <2>3. ASSUME NEW w \in DOMAIN ups, v < w PROVE moved[v].last < moved[w].next
    BY <1>1, <1>5, <2>1, <2>3
  <2>4. ASSUME NEW f \in files PROVE f < moved[v].next \/ moved[v].last < f
    BY <1>1, <1>5, <2>1, <2>4
  <2>. QED
    BY <2>2, <2>3, <2>4
<1>9. UploadsOk(p, files \cup {ups[u].next}, moved)
  BY <1>1, <1>4, <1>5, <1>6, <1>7, <1>8 DEF UploadsOk
<1>. QED
  BY <1>3, <1>8, <1>9

\* Detaching files disturbs no loop.
LEMMA FewerFiles ==
  ASSUME NEW p, NEW files, NEW ups, UploadsOk(p, files, ups), NEW few \in SUBSET files
  PROVE  UploadsOk(p, few, ups)
  BY DEF UploadsOk

\* The turn that is sent takes every file attached, none of which has ridden before.
LEMMA TurnRides ==
  ASSUME NEW p, NEW files, NEW ups, NEW sent \in Seq(SentTurns), UploadsOk(p, files, ups), RodeOk(p, files, ups, sent),
         NEW turn \in SentTurns, turn.files \subseteq files, RefsOk(turn.refs),
         \A i \in DOMAIN sent : RefsOk(sent[i].refs),
         NEW left \in SUBSET files, left \cap turn.files = {}
  PROVE  /\ RodeOk(p, left, ups, Append(sent, turn)) /\ Append(sent, turn) \in Seq(SentTurns)
         /\ \A i \in DOMAIN Append(sent, turn) : RefsOk(Append(sent, turn)[i].refs)
<1>. DEFINE more == Append(sent, turn)
<1>1. /\ more \in Seq(SentTurns) /\ Len(sent) \in Nat /\ DOMAIN sent = 1 .. Len(sent) /\ DOMAIN more = 1 .. Len(sent) + 1
      /\ more[Len(sent) + 1] = turn /\ \A i \in DOMAIN sent : more[i] = sent[i]
  OBVIOUS
<1>. HIDE DEF more
<1>2. \A i \in DOMAIN more : (i \in DOMAIN sent /\ more[i] = sent[i]) \/ (i = Len(sent) + 1 /\ more[i] = turn)
  BY <1>1
<1>3. UploadsOk(p, turn.files, ups)
  BY FewerFiles
<1>4. RodeOk(p, left, ups, more)
  BY <1>1, <1>2, <1>3 DEF RodeOk
<1>. QED
  BY <1>1, <1>2, <1>4 DEF more

\* Every step of the composer keeps its invariant.
LEMMA ComposerStep == ASSUME ComposerInv, ComposerNext PROVE ComposerInv'
<1>. DEFINE Same == UNCHANGED <<s.picked, s.files, s.uploads, s.sent, DOMAIN s>>
<1>. USE DEF Set, Step1
<1>0. /\ ComposerFields \subseteq DOMAIN s /\ s.value \in {"empty", "prose", "slash"} /\ s.refs \subseteq ContextRefs /\ RefsOk(s.refs)
      /\ RefsOk({})
  <2>1. IsFiniteSet({}) /\ Cardinality({}) = 0
    BY FS_EmptySet
  <2>2. RefsOk({})
    BY <2>1, ComposerAssumption DEF RefsOk
  <2>. QED
    BY <2>2 DEF ComposerInv
<1>1. ASSUME Same, s'.value \in {"empty", "prose", "slash"}, s'.refs \subseteq ContextRefs, RefsOk(s'.refs) PROVE ComposerInv'
  BY <1>1 DEF ComposerInv, RefsOk
<1>2. ASSUME Same, s'.value \in {"empty", "prose", "slash"}, s'.refs = s.refs PROVE ComposerInv'
  BY <1>0, <1>1, <1>2
<1>3. ASSUME NEW st, st = s \/ st = Step1(s), NEW entry, s' = Executed(st, entry) PROVE ComposerInv'
  <2>1. Same /\ s'.value = "empty" /\ s'.refs = s.refs
    BY <1>0, <1>3 DEF Executed, ComposerFields
  <2>. QED
    BY <1>2, <2>1
<1>4. ASSUME s' = Sent(Step1(s)) PROVE ComposerInv'
  <2>. DEFINE turn == [text |-> s.value, files |-> s.files, refs |-> s.refs]
  <2>1. /\ DOMAIN s' = DOMAIN s /\ UNCHANGED <<s.picked, s.uploads>> /\ s'.files = {} /\ s'.value = "empty" /\ s'.refs = {}
        /\ s'.sent = Append(s.sent, turn)
    BY <1>0, <1>4 DEF Sent, ComposerFields
  <2>2. turn \in SentTurns /\ turn.files = s.files /\ turn.refs = s.refs
    <3>1. UploadsOk(s.picked, s.files, s.uploads)
      BY DEF ComposerInv
    <3>2. s.files \subseteq 1 .. s.picked /\ s.picked \in Nat
      BY <3>1 DEF UploadsOk
    <3>3. s.files \subseteq Nat
      BY <3>2
    <3>. QED
      BY <1>0, <3>3 DEF SentTurns
  <2>. HIDE DEF turn
  <2>3. UploadsOk(s.picked, {}, s.uploads)
    BY FewerFiles DEF ComposerInv
  <2>4. /\ UploadsOk(s.picked, s.files, s.uploads) /\ RodeOk(s.picked, s.files, s.uploads, s.sent)
        /\ s.sent \in Seq(SentTurns) /\ \A i \in DOMAIN s.sent : RefsOk(s.sent[i].refs)
    BY DEF ComposerInv
  <2>5. /\ RodeOk(s.picked, {}, s.uploads, Append(s.sent, turn)) /\ Append(s.sent, turn) \in Seq(SentTurns)
        /\ \A i \in DOMAIN Append(s.sent, turn) : RefsOk(Append(s.sent, turn)[i].refs)
    <3>1. {} \in SUBSET s.files /\ {} \cap turn.files = {} /\ turn.files \subseteq s.files /\ RefsOk(turn.refs)
      BY <1>0, <2>2
    <3>. QED
      BY ONLY <2>2, <2>4, <3>1, TurnRides
  <2>. QED
    BY <1>0, <2>1, <2>3, <2>5 DEF ComposerInv
<1>5. CASE Retried
  <2>. DEFINE turn == [text |-> s.sent[Len(s.sent)].text, files |-> {}, refs |-> {}]
  <2>1. /\ DOMAIN s' = DOMAIN s /\ UNCHANGED <<s.picked, s.uploads, s.files, s.value, s.refs>>
        /\ s'.sent = Append(s.sent, turn) /\ s.sent # << >>
    <3>1. s.sent # << >> /\ Step1(s).sent = s.sent
      BY <1>0, <1>5 DEF Retried, ComposerFields
    <3>2. s' = [Step1(s) EXCEPT !.streaming = TRUE, !.sent = Append(s.sent, turn)]
      BY <1>0, <1>5 DEF Retried, ComposerFields
    <3>. HIDE DEF turn
    <3>. QED
      BY <1>0, <3>1, <3>2 DEF ComposerFields
  <2>2. turn \in SentTurns /\ turn.files = {} /\ turn.refs = {}
    <3>1. s.sent \in Seq(SentTurns)
      BY DEF ComposerInv
    <3>2. s.sent[Len(s.sent)] \in SentTurns
      BY <2>1, <3>1
    <3>. QED
      BY <3>2 DEF SentTurns
  <2>. HIDE DEF turn
  <2>3. /\ UploadsOk(s.picked, s.files, s.uploads) /\ RodeOk(s.picked, s.files, s.uploads, s.sent)
        /\ s.sent \in Seq(SentTurns) /\ \A i \in DOMAIN s.sent : RefsOk(s.sent[i].refs)
    BY DEF ComposerInv
  <2>4. /\ RodeOk(s.picked, s.files, s.uploads, Append(s.sent, turn)) /\ Append(s.sent, turn) \in Seq(SentTurns)
        /\ \A i \in DOMAIN Append(s.sent, turn) : RefsOk(Append(s.sent, turn)[i].refs)
    BY ONLY <1>0, <2>2, <2>3, TurnRides
  <2>. QED
    BY <1>0, <2>1, <2>3, <2>4 DEF ComposerInv
<1>6. ASSUME NEW v \in {"empty", "prose", "slash"}, Types(v) PROVE ComposerInv'
  <2>1. Same /\ s'.value = v /\ s'.refs = s.refs
    BY <1>0, <1>6 DEF Types, ComposerFields
  <2>. QED
    BY <1>2, <2>1
<1>7. ASSUME NEW key \in {"down", "escape", "enter"}, handleKeyDown(key) PROVE ComposerInv'
  <2>. DEFINE n == Len(slashVisible(s.value))
  <2>1. \/ s' = [Step1(s) EXCEPT !.menu = TRUE, !.highlight = (@ + 1) % n]
        \/ s' = [Step1(s) EXCEPT !.menu = FALSE, !.streaming = IF n > 0 THEN @ ELSE FALSE]
        \/ s' = Executed(Step1(s), Commands[s.highlight + 1])
        \/ s' = Sent(Step1(s))
    BY <1>7 DEF handleKeyDown
  <2>. HIDE DEF n
  <2>2. CASE s' = [Step1(s) EXCEPT !.menu = TRUE, !.highlight = (@ + 1) % n]
    <3>1. Same /\ s'.value = s.value /\ s'.refs = s.refs
      BY <1>0, <2>2 DEF ComposerFields
    <3>. QED
      BY <1>0, <1>2, <3>1
  <2>3. CASE s' = [Step1(s) EXCEPT !.menu = FALSE, !.streaming = IF n > 0 THEN @ ELSE FALSE]
    <3>1. Same /\ s'.value = s.value /\ s'.refs = s.refs
      BY <1>0, <2>3 DEF ComposerFields
    <3>. QED
      BY <1>0, <1>2, <3>1
  <2>. QED
    BY <1>3, <1>4, <2>1, <2>2, <2>3
<1>8. CASE executeSlashCommand
  BY <1>3, <1>8 DEF executeSlashCommand
<1>9. CASE handleSend
  BY <1>4, <1>9 DEF handleSend
<1>10. CASE Stop \/ OpenPicker \/ ClosePicker \/ TurnEnds \/ SuggestionsLand \/ SuggestionsFail
  <2>1. Same /\ s'.value = s.value /\ s'.refs = s.refs
    BY <1>0, <1>10 DEF Stop, OpenPicker, ClosePicker, TurnEnds, SuggestionsLand, SuggestionsFail, ComposerFields
  <2>. QED
    BY <1>0, <1>2, <2>1
<1>11. ASSUME NEW r \in ContextRefs, handleAddContextRef(r) PROVE ComposerInv'
  <2>1. /\ Same /\ s'.value = s.value /\ r \notin s.refs
        /\ s'.refs = IF Cardinality(s.refs) >= RefCap THEN s.refs ELSE s.refs \cup {r}
    BY <1>0, <1>11 DEF handleAddContextRef, ComposerFields
  <2>2. RefsOk(s'.refs)
    <3>1. IsFiniteSet(s.refs) /\ Cardinality(s.refs) \in Nat /\ Cardinality(s.refs) <= RefCap
      BY <1>0, FS_CardinalityType DEF RefsOk
    <3>2. IsFiniteSet(s.refs \cup {r}) /\ Cardinality(s.refs \cup {r}) = Cardinality(s.refs) + 1
      BY <2>1, <3>1, FS_AddElement
    <3>. QED
      BY <2>1, <3>1, <3>2, ComposerAssumption DEF RefsOk
  <2>. QED
    BY <1>0, <1>1, <2>1, <2>2
<1>12. ASSUME NEW r \in ContextRefs, handleRemoveContextRef(r) PROVE ComposerInv'
  <2>1. Same /\ s'.value = s.value /\ s'.refs = s.refs \ {r}
    BY <1>0, <1>12 DEF handleRemoveContextRef, ComposerFields
  <2>2. RefsOk(s'.refs)
    <3>1. IsFiniteSet(s.refs) /\ Cardinality(s.refs) <= RefCap /\ s.refs \ {r} \in SUBSET s.refs
      BY <1>0 DEF RefsOk
    <3>2. IsFiniteSet(s.refs \ {r}) /\ Cardinality(s.refs \ {r}) <= Cardinality(s.refs)
      BY <3>1, FS_Subset
    <3>3. Cardinality(s.refs) \in Nat /\ Cardinality(s.refs \ {r}) \in Nat
      BY <3>1, <3>2, FS_CardinalityType
    <3>. QED
      BY <2>1, <3>1, <3>2, <3>3, ComposerAssumption DEF RefsOk
  <2>. QED
    BY <1>0, <1>1, <2>1, <2>2
<1>13. ASSUME NEW n \in 1..MaxFiles, handleUploadFiles(n) PROVE ComposerInv'
  <2>. DEFINE room == IF Cardinality(s.files) >= AttachmentCap THEN 0 ELSE AttachmentCap - Cardinality(s.files)
              slice == IF n < room THEN n ELSE room
              loop == [next |-> s.picked + 1, last |-> s.picked + slice, extras |-> slice < n]
  <2>1. /\ UploadsOk(s.picked, s.files, s.uploads) /\ RodeOk(s.picked, s.files, s.uploads, s.sent)
        /\ s.sent \in Seq(SentTurns)
    BY DEF ComposerInv
  <2>2. /\ DOMAIN s' = DOMAIN s /\ UNCHANGED <<s.files, s.sent, s.value, s.refs>> /\ s'.picked = s.picked + n
        /\ s'.uploads = IF room = 0 THEN s.uploads ELSE Append(s.uploads, loop)
    <3>1. s' = [Step1(s) EXCEPT !.uploadError = (room = 0), !.picked = s.picked + n,
                  !.uploads = IF room = 0 THEN s.uploads ELSE Append(s.uploads, loop)]
      BY <1>0, <1>13 DEF handleUploadFiles, ComposerFields
    <3>. HIDE DEF room, loop
    <3>. QED
      BY <1>0, <3>1 DEF ComposerFields
  <2>3. n \in Nat /\ slice \in 0 .. n
    <3>1. IsFiniteSet(s.files)
      <4>1. s.picked \in Int /\ 1 \in Int /\ s.files \in SUBSET (1 .. s.picked)
        BY <2>1 DEF UploadsOk
      <4>. QED
        BY <4>1, FS_Interval, FS_Subset
    <3>2. Cardinality(s.files) \in Nat
      BY <3>1, FS_CardinalityType
    <3>. QED
      BY <3>2, ComposerAssumption
  <2>. HIDE DEF slice, room
  <2>4. \A files : UploadsOk(s.picked, files, s.uploads) => UploadsOk(s.picked + n, files, s'.uploads)
    <3>. SUFFICES ASSUME NEW files, UploadsOk(s.picked, files, s.uploads)
                  PROVE  UploadsOk(s.picked + n, files, s'.uploads)
      OBVIOUS
    <3>1. (slice < n) \in BOOLEAN
      OBVIOUS
    <3>2. UploadsOk(s.picked + n, files, s.uploads) /\ UploadsOk(s.picked + n, files, Append(s.uploads, loop))
      BY <2>3, <3>1, LoopStarts
    <3>. QED
      BY <2>2, <3>2
  <2>5. UploadsOk(s'.picked, s.files, s'.uploads) /\ RodeOk(s'.picked, s.files, s'.uploads, s.sent)
    BY <2>1, <2>2, <2>4 DEF RodeOk
  <2>. QED
    BY <1>0, <2>2, <2>5 DEF ComposerInv
<1>14. ASSUME NEW u \in DOMAIN s.uploads, UploadLands(u) \/ UploadFails(u) PROVE ComposerInv'
  <2>1. /\ UploadsOk(s.picked, s.files, s.uploads) /\ RodeOk(s.picked, s.files, s.uploads, s.sent)
        /\ s.sent \in Seq(SentTurns)
    BY DEF ComposerInv
  <2>. DEFINE moved == [s.uploads EXCEPT ![u].next = @ + 1]
  <2>2. /\ DOMAIN s' = DOMAIN s /\ UNCHANGED <<s.picked, s.sent, s.value, s.refs>> /\ s'.uploads = moved
        /\ s'.files = s.files \/ s'.files = s.files \cup {s.uploads[u].next}
        /\ s.uploads[u].next <= s.uploads[u].last
    BY <1>0, <1>14 DEF UploadLands, UploadFails, Uploading, Advance, ComposerFields
  <2>. HIDE DEF moved
  <2>3. ASSUME NEW files, UploadsOk(s.picked, files, s.uploads)
        PROVE  UploadsOk(s.picked, files, moved) /\ UploadsOk(s.picked, files \cup {s.uploads[u].next}, moved)
    BY <2>2, <2>3, LoopMovesOn DEF moved
  <2>4. UploadsOk(s.picked, s'.files, moved)
    BY <2>1, <2>2, <2>3
  <2>5. \A i \in DOMAIN s.sent : s.uploads[u].next \notin s.sent[i].files
    <3>. SUFFICES ASSUME NEW i \in DOMAIN s.sent, s.uploads[u].next \in s.sent[i].files PROVE FALSE
      OBVIOUS
    <3>1. UploadsOk(s.picked, s.sent[i].files, s.uploads)
      BY <2>1 DEF RodeOk
    <3>2. s.uploads[u].next < s.uploads[u].next \/ s.uploads[u].last < s.uploads[u].next
      BY <3>1 DEF UploadsOk
    <3>3. s.uploads[u].next \in Nat /\ s.uploads[u].last \in Nat
      BY <3>1, LoopsAreNumbers DEF UploadsOk
    <3>. QED
      BY <2>2, <3>2, <3>3
  <2>6. RodeOk(s.picked, s'.files, moved, s.sent)
    BY <2>1, <2>2, <2>3, <2>5 DEF RodeOk
  <2>. QED
    BY <1>0, <2>1, <2>2, <2>4, <2>6 DEF ComposerInv
<1>15. ASSUME NEW f \in s.files, handleRemoveAttachment(f) PROVE ComposerInv'
  <2>1. /\ UploadsOk(s.picked, s.files, s.uploads) /\ RodeOk(s.picked, s.files, s.uploads, s.sent)
        /\ s.sent \in Seq(SentTurns)
    BY DEF ComposerInv
  <2>2. /\ DOMAIN s' = DOMAIN s /\ UNCHANGED <<s.picked, s.sent, s.value, s.refs, s.uploads>>
        /\ s'.files = s.files \ {f}
    BY <1>0, <1>15 DEF handleRemoveAttachment, ComposerFields
  <2>3. UploadsOk(s.picked, s'.files, s.uploads)
    BY <2>1, <2>2, FewerFiles
  <2>4. RodeOk(s.picked, s'.files, s.uploads, s.sent)
    BY <2>1, <2>2 DEF RodeOk
  <2>. QED
    BY <1>0, <2>1, <2>2, <2>3, <2>4 DEF ComposerInv
<1>. QED
  BY <1>5, <1>6, <1>7, <1>8, <1>9, <1>10, <1>11, <1>12, <1>13, <1>14, <1>15 DEF ComposerNext, ComposerClicks, ComposerAnswers

(***************************************************************************)
(* The diagnosis, the rail of the studio and the catalog.                  *)
(***************************************************************************)
\* A check is remembered with the count of its checks.
LEMMA ChecksAreRemembered ==
  ASSUME DiagnosisInv, NEW st, NEW list, DOMAIN st = DOMAIN s, st.checks = s.checks, st.checked = s.checked,
         s' = CompletionChecks(st, list)
  PROVE  DiagnosisInv'
<1>. DEFINE due == {d \in DOMAIN list : StatusBadge(list[d]) = "In progress"} \ st.checked
<1>1. /\ DOMAIN s' = DOMAIN s /\ s'.checked = s.checked \cup due
      /\ s'.checks = [d \in DOMAIN s.checks |-> IF d \in due THEN s.checks[d] + 1 ELSE s.checks[d]]
  BY DEF CompletionChecks, DiagnosisInv
<1>2. due \cap s.checked = {}
  OBVIOUS
<1>. HIDE DEF due
<1>. QED
  BY <1>1, <1>2 DEF DiagnosisInv, CheckedOnce

\* Every step of the diagnosis keeps its invariant.
LEMMA DiagnosisStep == ASSUME DiagnosisInv, DiagnosisNext PROVE DiagnosisInv'
<1>. USE DEF Set
<1>1. ASSUME UNCHANGED <<s.checks, s.checked, DOMAIN s>> PROVE DiagnosisInv'
  <2>1. DOMAIN s' = DOMAIN s /\ s'.checks = s.checks /\ s'.checked = s.checked
    BY <1>1
  <2>. QED
    BY <2>1 DEF DiagnosisInv
<1>2. CASE PastDiagnosesLand
  <2>. DEFINE st == [s EXCEPT !.listing = FALSE, !.listed = s.past, !.known = TRUE]
  <2>1. DOMAIN st = DOMAIN s /\ st.checks = s.checks /\ st.checked = s.checked
    BY DEF DiagnosisInv
  <2>2. s' = CompletionChecks(st, s.past) \/ s' = st
    BY <1>2 DEF PastDiagnosesLand
  <2>. HIDE DEF st
  <2>. QED
    BY <1>1, <2>1, <2>2, ChecksAreRemembered
<1>3. ASSUME NEW clicked \in BOOLEAN, ComeBack(clicked) PROVE DiagnosisInv'
  BY <1>3 DEF ComeBack, Mounted, DiagnosisInv, CheckedOnce
<1>4. ASSUME NEW stale \in BOOLEAN, PastDiagnosesDrawer(stale) PROVE DiagnosisInv'
  BY <1>1, <1>4 DEF PastDiagnosesDrawer, StartClicked, DiagnosisInv
<1>5. ASSUME NEW d \in s.checking, CompletionChecked(d) \/ CompletionCheckFails(d) PROVE DiagnosisInv'
  BY <1>1, <1>5 DEF CompletionChecked, CompletionCheckFails, DiagnosisInv
<1>6. ASSUME NEW decode \in BOOLEAN, NEW final \in BOOLEAN, TurnLands(decode, final) PROVE DiagnosisInv'
  BY <1>1, <1>6 DEF TurnLands, DiagnosisInv
<1>7. ASSUME \/ startSession \/ sendTurn \/ DecodeSubmit \/ PastDiagnosesFail \/ SessionStarts \/ SessionStartFails
             \/ TurnFails \/ onDecoderResult \/ DecodeFails \/ finalize \/ FinalizeFails
      PROVE  DiagnosisInv'
  <2>1. UNCHANGED <<s.checks, s.checked, DOMAIN s>>
    BY <1>7 DEF startSession, sendTurn, DecodeSubmit, PastDiagnosesFail, SessionStarts, SessionStartFails,
         TurnFails, onDecoderResult, DecodeFails, finalize, FinalizeFails, StartClicked, DiagnosisInv
  <2>. QED
    BY <1>1, <2>1
<1>. QED
  BY <1>2, <1>3, <1>4, <1>5, <1>6, <1>7 DEF DiagnosisNext, DiagnosisClicks, DiagnosisAnswers

\* What a step of the rail leaves alone, but for the badges.
RailKept(st) ==
  /\ DOMAIN st = DOMAIN s /\ st.announced = s.announced /\ st.earned = s.earned
  /\ st.asked \in {0, st.request} /\ st.review \in {0, st.request}

\* The badges announced are those that had not been.
LEMMA BadgesAreRemembered ==
  ASSUME RailInv, NEW st, RailKept(st), s' = st \/ s' = checkBadges(st)
  PROVE  RailInv'
<1>. DEFINE due == {b \in BADGES \ st.earned : condition(b, st.stats)}
<1>1. CASE s' = st
  BY <1>1 DEF RailInv, RailKept
<1>2. CASE s' = checkBadges(st)
  <2>1. /\ DOMAIN s' = DOMAIN s /\ s'.earned = s.earned \cup due
        /\ s'.announced = [b \in BADGES |-> IF b \in due THEN s.announced[b] + 1 ELSE s.announced[b]]
        /\ s'.asked \in {0, s'.request} /\ s'.review \in {0, s'.request}
    BY <1>2 DEF checkBadges, RailInv, RailKept
  <2>2. due \cap s.earned = {}
    BY DEF RailKept
  <2>. HIDE DEF due
  <2>. QED
    BY <2>1, <2>2 DEF RailInv
<1>. QED
  BY <1>1, <1>2

\* Every step of the rail of the studio keeps its invariant.
LEMMA RailStep == ASSUME RailInv, RailNext PROVE RailInv'
<1>. USE DEF Set
<1>1. ASSUME NEW st, RailKept(st), s' = st \/ s' = checkBadges(st) PROVE RailInv'
  BY <1>1, BadgesAreRemembered
<1>2. ASSUME NEW result \in {"ok", "error"}, RailRunLands(result) PROVE RailInv'
  <2>. DEFINE n == s.runCount + 1
              st == [RunIsOver EXCEPT !.stats.runs = @ + 1, !.runCount = n, !.result = result]
              toast == IF n > 1 /\ st.shownFor < n
                       THEN [st EXCEPT !.shownFor = n, !.percentile = TRUE] ELSE st
  <2>1. RailKept(st)
    BY DEF RunIsOver, RailInv, RailKept
  <2>2. s' = checkBadges(toast)
    BY <1>2 DEF RailRunLands
  <2>. HIDE DEF st
  <2>3. RailKept(toast)
    BY <2>1 DEF RailInv, RailKept
  <2>. QED
    BY <1>1, <2>2, <2>3
<1>3. CASE SeniorReviewLands
  <2>. DEFINE st == [ShowTab(s, "review") EXCEPT !.asked = 0, !.review = s.asked, !.stats.reviewCount = @ + 1]
  <2>1. RailKept(st)
    BY <1>3 DEF SeniorReviewLands, ShowTab, RailInv, RailKept
  <2>2. s' = checkBadges(st)
    BY <1>3 DEF SeniorReviewLands
  <2>. QED
    BY <1>1, <2>1, <2>2
<1>4. CASE NotebookSaved
  <2>. DEFINE st == [s EXCEPT !.saveState = "saved", !.stats.notebookSaves = @ + 1]
  <2>1. RailKept(st)
    BY DEF RailInv, RailKept
  <2>2. s' = checkBadges(st)
    BY <1>4 DEF NotebookSaved
  <2>. QED
    BY <1>1, <2>1, <2>2
<1>5. CASE handleRequestReview
  <2>1. RailKept(s')
    BY <1>5 DEF handleRequestReview, Press, ShowTab, RailInv, RailKept
  <2>. QED
    BY <1>1, <2>1
<1>6. ASSUME \/ EditRailCode \/ RailRun \/ handleSaveNotebook \/ handleTutorSend \/ handleExplainError
             \/ RailRunFails \/ PercentileTimer \/ SeniorReviewFails \/ NotebookFails \/ NotebookTimer \/ TutorEnds
             \/ StuckTimer
      PROVE  RailInv'
  <2>1. RailKept(s')
    BY <1>6 DEF EditRailCode, RailRun, handleSaveNotebook, handleTutorSend, handleExplainError,
         RailRunFails, PercentileTimer, SeniorReviewFails, NotebookFails, NotebookTimer, TutorEnds,
         StuckTimer, RunIsOver, Press, RailInv, RailKept
  <2>. QED
    BY <1>1, <2>1
<1>7. ASSUME NEW tab \in {"tutor", "review", "trace"}, RightRailTabs(tab) PROVE RailInv'
  <2>1. RailKept(s')
    BY <1>7 DEF RightRailTabs, Press, ShowTab, RailInv, RailKept
  <2>. QED
    BY <1>1, <2>1
<1>8. ASSUME NEW badge \in s.toasts, BadgeToast(badge) PROVE RailInv'
  <2>1. RailKept(s')
    BY <1>8 DEF BadgeToast, RailInv, RailKept
  <2>. QED
    BY <1>1, <2>1
<1>. QED
  BY <1>2, <1>3, <1>4, <1>5, <1>6, <1>7, <1>8 DEF RailNext, RailClicks, RailAnswers

\* Every step of the catalog keeps its invariant.
LEMMA CatalogStep == ASSUME CatalogInv, CatalogNext PROVE CatalogInv'
<1>. USE DEF Set, Touched
<1>1. ASSUME UNCHANGED <<s.checkouts, s.loading, DOMAIN s>> PROVE CatalogInv'
  BY <1>1 DEF CatalogInv
<1>2. CASE confirmEnroll
  <2>1. CASE ~s.signedIn \/ s.enroll.comingSoon
    BY <1>1, <1>2, <2>1 DEF confirmEnroll, CatalogInv
  <2>2. CASE s.signedIn /\ ~s.enroll.comingSoon
    <3>1. s.checkouts = <<>>
      BY <1>2 DEF confirmEnroll, ConfirmOffered, CatalogInv
    <3>2. /\ DOMAIN s' = DOMAIN s /\ s'.loading = TRUE /\ s'.checkouts = Append(s.checkouts, s.enroll.card)
      BY <1>2, <2>2 DEF confirmEnroll, CatalogInv
    <3>3. s'.checkouts = <<s.enroll.card>>
      BY <3>1, <3>2
    <3>. QED
      BY <3>2, <3>3 DEF CatalogInv
  <2>. QED
    BY <2>1, <2>2
<1>3. CASE CheckoutOpens \/ CheckoutRefused
  <2>1. s.checkouts = <<Head(s.checkouts)>>
    BY <1>3 DEF CheckoutOpens, CheckoutRefused, CatalogInv
  <2>2. Tail(s.checkouts) = <<>>
    <3>. DEFINE card == Head(s.checkouts)
    <3>1. s.checkouts = <<card>>
      BY <2>1
    <3>. HIDE DEF card
    <3>. QED
      BY <3>1
  <2>3. /\ DOMAIN s' = DOMAIN s /\ s'.loading = FALSE /\ s'.checkouts = Tail(s.checkouts)
    BY <1>3 DEF CheckoutOpens, CheckoutRefused, CatalogInv
  <2>. QED
    BY <2>2, <2>3 DEF CatalogInv
<1>4. ASSUME NEW chip \in Chips, FilterCards(chip) PROVE CatalogInv'
  BY <1>1, <1>4 DEF FilterCards, CatalogInv
<1>5. ASSUME NEW card \in DOMAIN CARDS, openEnroll(card) PROVE CatalogInv'
  BY <1>1, <1>5 DEF openEnroll, CatalogInv
<1>6. CASE closeEnroll \/ CoursesLand \/ CoursesFail
  BY <1>1, <1>6 DEF closeEnroll, CoursesLand, CoursesFail, CatalogInv
<1>. QED
  BY <1>2, <1>3, <1>4, <1>5, <1>6 DEF CatalogNext, CatalogClicks, CatalogAnswers

(***************************************************************************)
(* The daily review and the sidebar.                                       *)
(***************************************************************************)
\* A sequence without one of its elements: what stays, and that it moves no later.
LEMMA RemovedAt ==
  ASSUME NEW S, NEW cards \in Seq(S), NEW k \in DOMAIN cards, NEW less, less = Seqs!RemoveAt(cards, k)
  PROVE  /\ less \in Seq(S) /\ DOMAIN less = 1 .. Len(cards) - 1
         /\ \A i \in DOMAIN less : less[i] = IF i < k THEN cards[i] ELSE cards[i + 1]
<1>1. Len(cards) \in Nat /\ DOMAIN cards = 1 .. Len(cards) /\ k \in 1 .. Len(cards) /\ \A i \in 1 .. Len(cards) : cards[i] \in S
  OBVIOUS
<1>. DEFINE a == SubSeq(cards, 1, k - 1)
            b == SubSeq(cards, k + 1, Len(cards))
<1>2. a \in Seq(S) /\ Len(a) = k - 1 /\ \A i \in 1 .. k - 1 : a[i] = cards[i]
  BY <1>1, SubSeqProperties
<1>3. b \in Seq(S) /\ Len(b) = Len(cards) - k /\ \A i \in 1 .. Len(cards) - k : b[i] = cards[k + i]
  <2>1. k + 1 \in Int /\ Len(cards) \in Int /\ \A i \in k + 1 .. Len(cards) : cards[i] \in S
    BY <1>1
  <2>2. /\ b \in Seq(S) /\ Len(b) = IF k + 1 <= Len(cards) THEN Len(cards) - (k + 1) + 1 ELSE 0
        /\ \A i \in 1 .. Len(cards) - (k + 1) + 1 : b[i] = cards[k + 1 + i - 1]
    BY <2>1, SubSeqProperties
  <2>. HIDE DEF b
  <2>3. Len(b) = Len(cards) - k
    BY <1>1, <2>2
  <2>4. ASSUME NEW i \in 1 .. Len(cards) - k PROVE b[i] = cards[k + i]
    <3>1. i \in 1 .. Len(cards) - (k + 1) + 1 /\ k + 1 + i - 1 = k + i
      BY <1>1
    <3>. QED
      BY <2>2, <3>1
  <2>. QED
    BY <2>2, <2>3, <2>4
<1>4. less = a \o b
  BY DEF Seqs!RemoveAt
<1>. HIDE DEF a, b
<1>5. less \in Seq(S) /\ Len(less) = Len(cards) - 1 /\ \A i \in 1 .. Len(less) : less[i] = IF i <= k - 1 THEN a[i] ELSE b[i - (k - 1)]
  <2>1. /\ a \o b \in Seq(S) /\ Len(a \o b) = Len(a) + Len(b)
        /\ \A i \in 1 .. Len(a) + Len(b) : (a \o b)[i] = IF i <= Len(a) THEN a[i] ELSE b[i - Len(a)]
    BY <1>2, <1>3, ConcatProperties
  <2>2. Len(a) + Len(b) = Len(cards) - 1
    BY <1>1, <1>2, <1>3
  <2>. QED
    BY <1>2, <1>4, <2>1, <2>2
<1>6. ASSUME NEW i \in 1 .. Len(cards) - 1 PROVE less[i] = IF i < k THEN cards[i] ELSE cards[i + 1]
  <2>1. CASE i < k
    <3>1. i \in 1 .. k - 1 /\ i \in 1 .. Len(less) /\ i <= k - 1
      BY <1>1, <1>5, <2>1
    <3>2. less[i] = a[i]
      BY <1>5, <3>1
    <3>3. a[i] = cards[i]
      BY <1>2, <3>1
    <3>. QED
      BY <2>1, <3>2, <3>3
  <2>2. CASE k <= i
    <3>1. PICK m \in 1 .. Len(cards) - k : m = i - (k - 1) /\ k + m = i + 1
      BY <1>1, <2>2
    <3>2. less[i] = b[m]
      <4>1. i \in 1 .. Len(less) /\ ~ i <= k - 1
        BY <1>1, <1>5, <2>2
      <4>. QED
        BY <1>5, <3>1, <4>1
    <3>3. b[m] = cards[i + 1]
      BY <1>3, <3>1
    <3>. QED
      BY <1>1, <2>2, <3>2, <3>3
  <2>. QED
    BY <1>1, <2>1, <2>2
<1>7. DOMAIN less = 1 .. Len(cards) - 1
  BY <1>1, <1>5
<1>. QED
  BY <1>5, <1>6, <1>7

\* A card that is graded leaves the list; the others move forward at most.
LEMMA WithoutLosesOne ==
  ASSUME NEW cards \in Seq(Cards), NEW card, NEW less, less = Without(cards, card)
  PROVE  \E shift \in [DOMAIN less -> DOMAIN cards] :
           /\ less \in Seq(Cards)
           /\ \A i \in DOMAIN less : i <= shift[i] /\ less[i] = cards[shift[i]]
           /\ \A i, j \in DOMAIN less : shift[i] = shift[j] => i = j
<1>0. Len(cards) \in Nat /\ DOMAIN cards = 1 .. Len(cards)
  OBVIOUS
<1>1. CASE ~ \E i \in DOMAIN cards : cards[i] = card
  <2>1. less = cards
    BY <1>1 DEF Without
  <2>. DEFINE shift == [i \in DOMAIN less |-> i]
  <2>2. shift \in [DOMAIN less -> DOMAIN cards]
    BY <2>1
  <2>3. \A i \in DOMAIN less : shift[i] = i /\ i \in Nat /\ less[i] = cards[i]
    BY <1>0, <2>1
  <2>. HIDE DEF shift
  <2>. QED
    BY <2>1, <2>2, <2>3
<1>2. CASE \E i \in DOMAIN cards : cards[i] = card
  <2>. DEFINE k == CHOOSE i \in DOMAIN cards : cards[i] = card
  <2>1. k \in DOMAIN cards /\ less = Seqs!RemoveAt(cards, k)
    BY <1>2 DEF Without
  <2>. HIDE DEF k
  <2>2. /\ less \in Seq(Cards) /\ DOMAIN less = 1 .. Len(cards) - 1
        /\ \A i \in DOMAIN less : less[i] = IF i < k THEN cards[i] ELSE cards[i + 1]
    BY <2>1, RemovedAt
  <2>3. k \in Nat /\ \A i \in DOMAIN less : i \in Nat
    <3>1. k \in Nat
      BY <1>0, <2>1
    <3>. QED
      BY <2>2, <3>1
  <2>. DEFINE shift == [i \in DOMAIN less |-> IF i < k THEN i ELSE i + 1]
  <2>4. shift \in [DOMAIN less -> DOMAIN cards]
    <3>1. \A i \in DOMAIN less : i \in Nat /\ i \in DOMAIN cards /\ i + 1 \in DOMAIN cards
      BY <1>0, <2>2
    <3>. QED
      BY <3>1
  <2>5. \A i \in DOMAIN less : shift[i] = IF i < k THEN i ELSE i + 1
    OBVIOUS
  <2>. HIDE DEF shift
  <2>6. \A i \in DOMAIN less : i <= shift[i] /\ less[i] = cards[shift[i]]
    BY <2>2, <2>5, <2>3
  <2>7. \A i, j \in DOMAIN less : shift[i] = shift[j] => i = j
    BY <2>5, <2>3
  <2>. QED
    BY <2>2, <2>4, <2>6, <2>7
<1>. QED
  BY <1>1, <1>2

\* Every step of the daily review keeps its invariant.
LEMMA TodayStep == ASSUME TodayInv, TodayNext PROVE TodayInv'
<1>. USE DEF Set, Touched
<1>0. /\ {"stored", "dueCards", "graded", "cardIndex", "reviews"} \subseteq DOMAIN s
      /\ s.stored \in Seq(Cards) /\ s.dueCards \in Seq(Cards) /\ s.graded \in Seq(Cards)
      /\ s.cardIndex \in Nat
      /\ Distinct(s.stored) /\ Distinct(s.dueCards) /\ Distinct(s.graded)
      /\ (s.dueCards = <<>> /\ s.graded = <<>>) \/ NoneMovedBack(s.stored, s.dueCards)
      /\ BehindTheIndex(s.graded, s.dueCards, s.cardIndex)
  BY DEF TodayInv
<1>1. CASE DueFails \/ handleReveal \/ handleSimulateUnlock \/ ReviewRefused
  <2>1. UNCHANGED <<s.stored, s.dueCards, s.graded, s.cardIndex, DOMAIN s>>
    BY <1>0, <1>1 DEF DueFails, handleReveal, handleSimulateUnlock, ReviewRefused
  <2>. QED
    BY <1>0, <2>1 DEF TodayInv
<1>2. CASE DueLands
  <2>1. /\ UNCHANGED <<s.stored, s.graded, s.cardIndex, DOMAIN s>> /\ s'.dueCards = s.stored
    BY <1>0, <1>2 DEF DueLands
  <2>2. BehindTheIndex(s.graded, s.stored, s.cardIndex)
    <3>. SUFFICES ASSUME NEW g \in DOMAIN s.graded, NEW i \in DOMAIN s.stored, s.stored[i] = s.graded[g]
                  PROVE  i <= s.cardIndex
      BY DEF BehindTheIndex
    <3>1. s.graded # <<>>
      BY <1>0
    <3>2. PICK j \in DOMAIN s.dueCards : i <= j /\ s.dueCards[j] = s.stored[i]
      BY <1>0, <3>1 DEF NoneMovedBack
    <3>3. j <= s.cardIndex
      BY <1>0, <3>2 DEF BehindTheIndex
    <3>4. i \in Nat /\ j \in Nat
      BY <1>0
    <3>. QED
      BY <1>0, <3>2, <3>3, <3>4
  <2>3. NoneMovedBack(s.stored, s.stored)
    BY <1>0 DEF NoneMovedBack
  <2>. QED
    BY <1>0, <2>1, <2>2, <2>3 DEF TodayInv
<1>3. CASE handleGrade
  <2>. DEFINE total == Len(todaysCards)
              index == IF s.cardIndex + 1 < total THEN s.cardIndex + 1 ELSE total
              card == IF s.cardIndex < total THEN todaysCards[s.cardIndex + 1] ELSE 0
  <2>1. /\ UNCHANGED <<s.stored, s.dueCards, DOMAIN s>> /\ s'.cardIndex = index
        /\ s'.graded = IF card = 0 THEN s.graded ELSE Append(s.graded, card)
    BY <1>0, <1>3 DEF handleGrade
  <2>2. index \in Nat /\ \A j \in DOMAIN s.dueCards : j <= s.cardIndex \/ j = s.cardIndex + 1 => j <= index
    BY <1>0 DEF todaysCards
  <2>3. ASSUME card # 0
        PROVE  /\ card \in Cards /\ s.dueCards # <<>> /\ s.cardIndex + 1 \in DOMAIN s.dueCards
               /\ s.dueCards[s.cardIndex + 1] = card
    BY <1>0, <2>3 DEF todaysCards
  <2>. HIDE DEF card, index
  <2>4. CASE card = 0
    <3>1. BehindTheIndex(s.graded, s.dueCards, index)
      BY <1>0, <2>2 DEF BehindTheIndex
    <3>. QED
      BY <1>0, <2>1, <2>2, <2>4, <3>1 DEF TodayInv
  <2>5. CASE card # 0
    <3>1. \A g \in DOMAIN s.graded : s.graded[g] # card
      BY <1>0, <2>3, <2>5 DEF BehindTheIndex
    <3>. DEFINE graded == Append(s.graded, card)
    <3>2. /\ graded \in Seq(Cards) /\ Len(s.graded) \in Nat /\ DOMAIN graded = 1 .. Len(s.graded) + 1
          /\ DOMAIN s.graded = 1 .. Len(s.graded)
          /\ graded[Len(s.graded) + 1] = card /\ \A g \in DOMAIN s.graded : graded[g] = s.graded[g]
      BY <1>0, <2>3, <2>5
    <3>6. s'.graded = graded
      BY <2>1, <2>5
    <3>. HIDE DEF graded
    <3>3. \A i \in DOMAIN graded : i \in DOMAIN s.graded \/ (i = Len(s.graded) + 1 /\ graded[i] = card)
      BY <3>2
    <3>4. Distinct(graded)
      BY <1>0, <3>1, <3>2, <3>3 DEF Distinct
    <3>5. BehindTheIndex(graded, s.dueCards, index)
      <4>. SUFFICES ASSUME NEW g \in DOMAIN graded, NEW j \in DOMAIN s.dueCards, s.dueCards[j] = graded[g]
                    PROVE  j <= index
        BY DEF BehindTheIndex
      <4>1. CASE g \in DOMAIN s.graded
        BY <1>0, <2>2, <3>2, <4>1 DEF BehindTheIndex
      <4>2. CASE graded[g] = card
        BY <1>0, <2>2, <2>3, <2>5, <4>2 DEF Distinct
      <4>. QED
        BY <3>3, <4>1, <4>2
    <3>. QED
      BY <1>0, <2>1, <2>2, <2>3, <2>5, <3>2, <3>4, <3>5, <3>6 DEF TodayInv
  <2>. QED
    BY <2>4, <2>5
<1>4. CASE ReviewedCard
  <2>1. UNCHANGED <<s.dueCards, s.graded, s.cardIndex, DOMAIN s>> /\ s'.stored = Without(s.stored, Head(s.reviews))
    BY <1>0, <1>4 DEF ReviewedCard
  <2>. DEFINE less == s'.stored
  <2>2. \E shift \in [DOMAIN less -> DOMAIN s.stored] :
          /\ less \in Seq(Cards)
          /\ \A i \in DOMAIN less : i <= shift[i] /\ less[i] = s.stored[shift[i]]
          /\ \A i, j \in DOMAIN less : shift[i] = shift[j] => i = j
    BY <1>0, <2>1, WithoutLosesOne
  <2>. HIDE DEF less
  <2>3. PICK shift \in [DOMAIN less -> DOMAIN s.stored] :
          /\ less \in Seq(Cards)
          /\ \A i \in DOMAIN less : i <= shift[i] /\ less[i] = s.stored[shift[i]]
          /\ \A i, j \in DOMAIN less : shift[i] = shift[j] => i = j
    BY <2>2
  <2>4. Distinct(less)
    BY <1>0, <2>3 DEF Distinct
  <2>5. NoneMovedBack(s.stored, s.dueCards) => NoneMovedBack(less, s.dueCards)
    <3>. SUFFICES ASSUME NoneMovedBack(s.stored, s.dueCards), NEW i \in DOMAIN less
                  PROVE  \E j \in DOMAIN s.dueCards : i <= j /\ s.dueCards[j] = less[i]
      BY DEF NoneMovedBack
    <3>1. PICK j \in DOMAIN s.dueCards : shift[i] <= j /\ s.dueCards[j] = s.stored[shift[i]]
      BY <2>3 DEF NoneMovedBack
    <3>2. i \in Nat /\ shift[i] \in Nat /\ j \in Nat
      <4>1. DOMAIN less = 1 .. Len(less) /\ DOMAIN s.stored = 1 .. Len(s.stored) /\ DOMAIN s.dueCards = 1 .. Len(s.dueCards)
        BY <1>0, <2>3
      <4>. QED
        BY <2>3, <4>1
    <3>. QED
      BY <2>3, <3>1, <3>2
  <2>6. less = s'.stored /\ less \in Seq(Cards)
    BY <2>3 DEF less
  <2>. QED
    BY <1>0, <2>1, <2>4, <2>5, <2>6 DEF TodayInv
<1>. QED
  BY <1>1, <1>2, <1>3, <1>4 DEF TodayNext, TodayAnswers

\* Every step of the sidebar keeps its invariant.
LEMMA SidebarStep == ASSUME SidebarInv, SidebarNext PROVE SidebarInv'
<1>. USE DEF Set, Acted
<1>0. {"renames", "editors", "editing"} \subseteq DOMAIN s /\ s.renames \in Nat /\ s.editors \in Nat
  BY DEF SidebarInv
<1>1. ASSUME UNCHANGED <<s.renames, s.editors, DOMAIN s>>, s'.editing \in {NoRow, s.editing} PROVE SidebarInv'
  BY <1>0, <1>1 DEF SidebarInv
<1>2. ASSUME NEW st, NEW rows, DOMAIN st = DOMAIN s, st.renames = s.renames, st.editors = s.editors,
             st.editing = s.editing, s' = WithRows(st, rows)
      PROVE  SidebarInv'
  <2>1. UNCHANGED <<s.renames, s.editors, DOMAIN s>> /\ s'.editing \in {NoRow, s.editing}
    BY <1>0, <1>2 DEF WithRows
  <2>. QED
    BY <1>1, <2>1
<1>3. CASE commitRename
  <2>. DEFINE st == [Acted EXCEPT !.editing = NoRow]
  <2>1. CASE s.value \in {"", s.rows[s.editing].title}
    BY <1>0, <1>1, <1>3, <2>1 DEF commitRename
  <2>2. CASE s.value \notin {"", s.rows[s.editing].title}
    <3>1. s.editing # NoRow /\ s' = Called([st EXCEPT !.renames = s.renames + 1], "rename", s.editing, s.value)
      BY <1>0, <1>3, <2>2 DEF commitRename
    <3>2. s'.renames = s.renames + 1 /\ s'.editors = s.editors /\ s'.editing = NoRow /\ DOMAIN s' = DOMAIN s
      BY <1>0, <3>1 DEF Called
    <3>. QED
      BY <1>0, <3>1, <3>2 DEF SidebarInv
  <2>. QED
    BY <2>1, <2>2
<1>4. ASSUME NEW c \in Listed, beginRename(c) PROVE SidebarInv'
  <2>1. /\ s.editing = NoRow /\ s'.renames = s.renames /\ s'.editors = s.editors + 1 /\ DOMAIN s' = DOMAIN s
    BY <1>0, <1>4 DEF beginRename, Picks, Free
  <2>. QED
    BY <1>0, <2>1 DEF SidebarInv
<1>5. ASSUME NEW c \in Listed, \/ OpenMenu(c) \/ handleTogglePin(c) \/ handleToggleArchive(c) \/ handleExport(c)
                               \/ handleDeleteClick(c) \/ ExportEnds(c)
      PROVE  SidebarInv'
  <2>1. UNCHANGED <<s.renames, s.editors, DOMAIN s>> /\ s'.editing = s.editing
    BY <1>0, <1>5 DEF OpenMenu, handleTogglePin, handleToggleArchive, handleExport, handleDeleteClick, ExportEnds, Called
  <2>. QED
    BY <1>1, <2>1
<1>6. ASSUME NEW v, EditTitle(v) PROVE SidebarInv'
  BY <1>0, <1>1, <1>6 DEF EditTitle
<1>7. CASE CloseMenu \/ CancelDelete \/ confirmDelete \/ cancelRename \/ onToggleArchived \/ ListServed
  <2>1. UNCHANGED <<s.renames, s.editors, DOMAIN s>> /\ s'.editing \in {NoRow, s.editing}
    BY <1>0, <1>7 DEF CloseMenu, CancelDelete, confirmDelete, cancelRename, onToggleArchived, ListServed, Called
  <2>. QED
    BY <1>1, <2>1
<1>8. ASSUME NEW i \in DOMAIN s.calls, CallServed(i) \/ CallFails(i) PROVE SidebarInv'
  <2>1. UNCHANGED <<s.renames, s.editors, DOMAIN s>> /\ s'.editing = s.editing
    BY <1>0, <1>8 DEF CallServed, CallFails
  <2>. QED
    BY <1>1, <2>1
<1>9. ASSUME NEW i \in DOMAIN s.calls, CallLands(i) PROVE SidebarInv'
  <2>. DEFINE st == [s EXCEPT !.calls = Seqs!RemoveAt(@, i)]
  <2>1. \E rows : s' = WithRows(st, rows)
    BY <1>9 DEF CallLands
  <2>2. DOMAIN st = DOMAIN s /\ st.renames = s.renames /\ st.editors = s.editors /\ st.editing = s.editing
    BY <1>0
  <2>. HIDE DEF st
  <2>. QED
    BY <1>2, <2>1, <2>2
<1>10. CASE ListShown \/ ListFails
  <2>. DEFINE st == [s EXCEPT !.list = <<>>]
  <2>1. \E rows : s' = WithRows(st, rows)
    BY <1>10 DEF ListShown, ListFails
  <2>2. DOMAIN st = DOMAIN s /\ st.renames = s.renames /\ st.editors = s.editors /\ st.editing = s.editing
    BY <1>0
  <2>. HIDE DEF st
  <2>. QED
    BY <1>2, <2>1, <2>2
<1>. QED
  BY <1>3, <1>4, <1>5, <1>6, <1>7, <1>8, <1>9, <1>10 DEF SidebarNext, SidebarClicks, SidebarAnswers

(***************************************************************************)
(* The quiz, the registration, the capstone, the path and the receipts.    *)
(***************************************************************************)
\* Every step of the placement quiz keeps its invariant.
LEMMA PlacementStep == ASSUME PlacementInv, PlacementNext PROVE PlacementInv'
<1>. USE PlacementAssumption DEF Set, Clicked1, OnQuiz, NoTimers, Total
<1>0. /\ {"stage", "step", "answers", "advance", "pending", "loading", "checkout", "left"} \subseteq DOMAIN s
      /\ s.stage \in {"intro", "question", "loading", "result"}
      /\ s.step \in 1 .. 5 /\ s.answers \in [1 .. 5 -> Options \cup {0}]
      /\ s.stage \in {"loading", "result"} => isComplete(s.answers)
      /\ \/ s.advance = 0
         \/ s.advance = s.step /\ s.pending = s.answers /\ s.stage = "question" /\ s.left = "no"
      /\ s.loading \in BOOLEAN /\ (s.loading <=> s.stage = "loading" /\ s.left = "no")
      /\ s.checkout \in {"none", "analyst", "scientist", "ml", "genai"}
  BY DEF PlacementInv
<1>1. CASE begin
  BY <1>0, <1>1 DEF begin, PlacementInv
<1>2. CASE goBack
  BY <1>0, <1>2 DEF goBack, showBack, PlacementInv
<1>3. CASE restart
  BY <1>0, <1>3 DEF restart, PlacementInv, Blank
<1>4. CASE ReloadQuiz
  BY <1>0, <1>4 DEF ReloadQuiz, PlacementInv
<1>5. CASE onEnroll
  <2>1. isComplete(s.answers) /\ s.stage = "result" /\ s.advance = 0 /\ s.loading = FALSE
    BY <1>0, <1>5 DEF onEnroll, ResultScreen
  <2>2. getRecommendedTrack(s.answers) \in {"analyst", "scientist", "ml", "genai"}
    <3>0. s.answers[3] # 0
      BY <2>1 DEF isComplete
    <3>1. s.answers[3] \in 1 .. 4
      <4>1. s.answers[3] \in Options \cup {0}
        BY <1>0
      <4>. QED
        BY <3>0, <4>1
    <3>2. s.answers[3] = 1 \/ s.answers[3] = 2 \/ s.answers[3] = 3 \/ s.answers[3] = 4
      BY <3>1
    <3>. QED
      BY <3>2 DEF getRecommendedTrack, Tracks, QUESTIONS
  <2>3. /\ DOMAIN s' = DOMAIN s
        /\ UNCHANGED <<s.stage, s.step, s.answers, s.advance, s.pending, s.loading>>
        /\ s'.checkout \in {s.checkout, getRecommendedTrack(s.answers)}
    BY <1>0, <1>5 DEF onEnroll
  <2>. QED
    BY <1>0, <2>1, <2>2, <2>3 DEF PlacementInv
<1>6. CASE onCurriculum
  BY <1>0, <1>6 DEF onCurriculum, ResultScreen, PlacementInv
<1>7. ASSUME NEW option \in Options, choose(option) PROVE PlacementInv'
  BY <1>0, <1>7 DEF choose, PlacementInv
<1>8. CASE AdvanceTimer
  <2>1. /\ s.advance \in 1 .. 5 /\ s.pending = s.answers /\ s.stage = "question" /\ s.loading = FALSE /\ s.left = "no"
    BY <1>0, <1>8 DEF AdvanceTimer
  <2>2. CASE s.advance = 5 /\ isComplete(s.pending)
    <3>1. /\ DOMAIN s' = DOMAIN s /\ s'.advance = 0 /\ s'.stage = "loading" /\ s'.loading = TRUE
          /\ UNCHANGED <<s.step, s.answers, s.left, s.checkout>>
      BY <1>0, <1>8, <2>2 DEF AdvanceTimer
    <3>2. isComplete(s'.answers)
      BY <2>1, <2>2, <3>1
    <3>. QED
      BY <1>0, <2>1, <3>1, <3>2 DEF PlacementInv
  <2>3. CASE ~(s.advance = 5 /\ isComplete(s.pending))
    <3>1. /\ DOMAIN s' = DOMAIN s /\ s'.advance = 0 /\ s'.step = IF s.advance < 5 THEN s.advance + 1 ELSE 5
          /\ UNCHANGED <<s.stage, s.answers, s.loading, s.left, s.checkout>>
      BY <1>0, <1>8, <2>3 DEF AdvanceTimer
    <3>2. s'.step \in 1 .. 5
      BY <2>1, <3>1
    <3>. QED
      BY <1>0, <2>1, <3>1, <3>2 DEF PlacementInv
  <2>. QED
    BY <2>2, <2>3
<1>9. CASE LoadingTimer
  BY <1>0, <1>9 DEF LoadingTimer, PlacementInv
<1>10. CASE CheckoutLands \/ CheckoutFails
  BY <1>0, <1>10 DEF CheckoutLands, CheckoutFails, PlacementInv
<1>. QED
  BY <1>1, <1>2, <1>3, <1>4, <1>5, <1>6, <1>7, <1>8, <1>9, <1>10 DEF PlacementNext, PlacementClicks, PlacementAnswers

\* Every step of the registration keeps its invariant.
LEMMA RegisterStep == ASSUME RegisterInv, RegisterNext PROVE RegisterInv'
<1>. USE DEF Set, RegisterInv
<1>1. ASSUME NEW password \in {"short", "long"}, RegisterFields(password) PROVE RegisterInv'
  BY <1>1 DEF RegisterFields
<1>2. CASE handleSubmitRegister
  BY <1>2 DEF handleSubmitRegister
<1>3. CASE RegisterAnswers
  BY <1>3 DEF RegisterAnswers, Registered, RegisterSignsIn, RegisterMe, RegisterFails, ReplaceCommits, RegisterGuard
<1>. QED
  BY <1>1, <1>2, <1>3 DEF RegisterNext

\* The blocks that are revealed, counted.
LEMMA ThreeBlocks == {1, 2, 3} = 1 .. 3
  OBVIOUS

\* Every step of the capstone page keeps its invariant.
LEMMA CapstoneStep == ASSUME CapstoneInv, CapstoneNext PROVE CapstoneInv'
<1>. USE DEF Set, CapstoneInv
<1>1. ASSUME NEW i \in s.timers, RevealTimer(i) PROVE CapstoneInv'
  <2>0. s.timers = (s.revealed + 1) .. 3 /\ s.revealed \in 0 .. 3 /\ i \in (s.revealed + 1) .. 3
    BY <1>1
  <2>1. i = s.revealed + 1 /\ i \in 1 .. 3
    <3>1. s.revealed + 1 \in (s.revealed + 1) .. 3
      BY <2>0
    <3>2. i <= s.revealed + 1
      BY <1>1, <2>0, <3>1 DEF RevealTimer
    <3>. QED
      BY <2>0, <3>2
  <2>2. DOMAIN s' = DOMAIN s /\ s'.timers = s.timers \ {i} /\ s'.revealed = i
    BY <1>1, <2>0, <2>1 DEF RevealTimer
  <2>3. s'.timers = (i + 1) .. 3
    BY <2>0, <2>1, <2>2
  <2>. QED
    BY <2>1, <2>2, <2>3
<1>2. ASSUME NEW tab \in {"code", "trace", "labs", "tests"}, SelectTab(tab) PROVE CapstoneInv'
  BY <1>2 DEF SelectTab, Push
<1>3. CASE handleRunAndReview
  <2>1. DOMAIN s' = DOMAIN s /\ s'.revealed = 0 /\ s'.timers = 1 .. 3
    BY <1>3, ThreeBlocks DEF handleRunAndReview, revealReviewSequence, Push
  <2>. QED
    BY <2>1
<1>4. CASE handleCapstoneReview
  <2>1. /\ DOMAIN s' = DOMAIN s
        /\ \/ s'.revealed = 0 /\ s'.timers = 1 .. 3
           \/ s'.revealed = s.revealed /\ s'.timers = s.timers
    <3>1. CASE s.signedIn
      BY <1>4, <3>1 DEF handleCapstoneReview, Push
    <3>2. CASE ~s.signedIn
      BY <1>4, <3>2, ThreeBlocks DEF handleCapstoneReview, revealReviewSequence, Push
    <3>. QED
      BY <3>1, <3>2
  <2>2. CASE s'.revealed = 0 /\ s'.timers = 1 .. 3
    BY <2>1, <2>2
  <2>3. CASE s'.revealed = s.revealed /\ s'.timers = s.timers
    BY <2>1, <2>3
  <2>. QED
    BY <2>1, <2>2, <2>3
<1>5. CASE CapstoneReviewEnds
  <2>1. DOMAIN s' = DOMAIN s /\ s'.revealed = 0 /\ s'.timers = 1 .. 3
    BY <1>5, ThreeBlocks DEF CapstoneReviewEnds, revealReviewSequence
  <2>. QED
    BY <2>1
<1>6. CASE CapstoneRunEnds
  BY <1>6 DEF CapstoneRunEnds
<1>. QED
  BY <1>1, <1>2, <1>3, <1>4, <1>5, <1>6 DEF CapstoneNext, CapstoneClicks, CapstoneAnswers

\* Every step of the path keeps its invariant.
LEMMA PathStep == ASSUME PathInv, PathNext PROVE PathInv'
<1>. USE DEF Set, PathInv, Touched
<1>1. ASSUME NEW query \in {"graph", "saved", "progress"}, PathDataLands(query) PROVE PathInv'
  BY <1>1 DEF PathDataLands
<1>2. CASE ToggleRow \/ handleOpenLab \/ handleUnlockTrack
  BY <1>2 DEF ToggleRow, handleOpenLab, handleUnlockTrack
<1>. QED
  BY <1>1, <1>2 DEF PathNext

\* Every step of the promotion screen keeps its invariant.
LEMMA PromotionStep == ASSUME PromotionInv, PromotionNext PROVE PromotionInv'
<1>. USE DEF Set, PromotionInv, Touched
<1>1. ASSUME NEW to \in {"promotion", "today"}, closeTakeover(to) PROVE PromotionInv'
  BY <1>1 DEF closeTakeover
<1>2. CASE openTakeover
  BY <1>2 DEF openTakeover
<1>3. CASE SoundTimer
  <2>1. DOMAIN s' = DOMAIN s /\ s.sounds > 0 /\ s'.sounds = s.sounds - 1 /\ s'.takeoverOpen = s.takeoverOpen
    BY <1>3 DEF SoundTimer
  <2>. QED
    BY <2>1
<1>4. CASE ProgressLands \/ ConfettiTimer
  BY <1>4 DEF ProgressLands, ConfettiTimer
<1>. QED
  BY <1>1, <1>2, <1>3, <1>4 DEF PromotionNext

\* The effect of the card marks a letter that is open and unread.
LEMMA LetterIsAsked ==
  ASSUME ReceiptsInv, NEW st, DOMAIN st = DOMAIN s, s' = AutoRead(st), st.asked \in Nat, st.expanded \in BOOLEAN,
         st.autoRead = s.autoRead, s.asked <= st.asked
  PROVE  ReceiptsInv'
<1>1. CASE st.card /\ ~st.autoRead /\ st.expanded /\ st.letter = "unread"
  <2>0. {"card", "expanded", "letter", "autoRead", "asked"} \subseteq DOMAIN st
    BY DEF ReceiptsInv
  <2>1. s' = [st EXCEPT !.autoRead = TRUE, !.marks = Append(@, "sent"), !.asked = @ + 1]
    BY <1>1 DEF AutoRead
  <2>2. /\ DOMAIN s' = DOMAIN s /\ s'.autoRead = TRUE /\ s'.asked = st.asked + 1 /\ s'.expanded = st.expanded
    BY <2>0, <2>1
  <2>3. s'.asked \in Nat /\ s'.asked > 0
    BY <2>2
  <2>4. {"card", "expanded", "letter", "autoRead", "asked"} \subseteq DOMAIN s'
    BY <2>0, <2>2
  <2>5. s'.expanded \in BOOLEAN /\ s'.autoRead \in BOOLEAN
    BY <2>2
  <2>. QED
    BY <2>3, <2>4, <2>5 DEF ReceiptsInv
<1>2. CASE ~(st.card /\ ~st.autoRead /\ st.expanded /\ st.letter = "unread")
  <2>1. s' = st
    BY <1>2 DEF AutoRead
  <2>. QED
    BY <1>2, <2>1 DEF ReceiptsInv
<1>. QED
  BY <1>1, <1>2

\* Every step of the receipts keeps its invariant.
LEMMA ReceiptsStep == ASSUME ReceiptsInv, ReceiptsNext PROVE ReceiptsInv'
<1>. USE DEF Set
<1>1. ASSUME NEW some \in BOOLEAN, ReceiptsLand(some) PROVE ReceiptsInv'
  <2>1. CASE ~some
    BY <1>1, <2>1 DEF ReceiptsLand, ReceiptsInv
  <2>2. CASE some
    <3>. DEFINE st == [s EXCEPT !.receipts = "some", !.card = TRUE, !.expanded = (s.letter = "unread")]
    <3>1. s' = AutoRead(st)
      BY <1>1, <2>2 DEF ReceiptsLand, ReceiptsInv
    <3>2. /\ DOMAIN st = DOMAIN s /\ st.asked = s.asked /\ st.expanded \in BOOLEAN /\ st.autoRead = s.autoRead
          /\ s.asked \in Nat
      BY DEF ReceiptsInv
    <3>. HIDE DEF st
    <3>. QED
      BY <3>1, <3>2, LetterIsAsked
  <2>. QED
    BY <2>1, <2>2
<1>2. CASE LetterLands
  <2>. DEFINE st == [s EXCEPT !.reading = FALSE, !.letter = s.stored]
  <2>1. s' = AutoRead(st)
    BY <1>2 DEF LetterLands
  <2>2. /\ DOMAIN st = DOMAIN s /\ st.asked = s.asked /\ st.expanded \in BOOLEAN /\ st.autoRead = s.autoRead
        /\ s.asked \in Nat
    BY DEF ReceiptsInv
  <2>. HIDE DEF st
  <2>. QED
    BY <2>1, <2>2, LetterIsAsked
<1>3. CASE handleToggleLetter
  <2>. DEFINE unfolded == [Pressed EXCEPT !.expanded = ~@]
              st == IF unfolded.expanded /\ s.letter = "unread"
                    THEN [unfolded EXCEPT !.marks = Append(@, "sent"), !.asked = @ + 1] ELSE unfolded
  <2>1. s' = AutoRead(st)
    BY <1>3 DEF handleToggleLetter
  <2>2. /\ DOMAIN unfolded = DOMAIN s /\ unfolded.asked = s.asked /\ unfolded.expanded \in BOOLEAN /\ unfolded.autoRead = s.autoRead
        /\ s.asked \in Nat /\ {"expanded", "autoRead", "asked"} \subseteq DOMAIN s
    BY DEF ReceiptsInv, Pressed
  <2>. HIDE DEF unfolded
  <2>3. /\ DOMAIN st = DOMAIN s /\ st.asked \in Nat /\ st.expanded \in BOOLEAN /\ st.autoRead = s.autoRead
        /\ s.asked <= st.asked
    BY <2>2
  <2>. HIDE DEF st
  <2>. QED
    BY <2>1, <2>3, LetterIsAsked
<1>4. CASE ReceiptsFail \/ LetterFails
  BY <1>4 DEF ReceiptsFail, LetterFails, ReceiptsInv
<1>5. ASSUME NEW i \in DOMAIN s.marks, MarkServed(i) \/ MarkLands(i) \/ MarkFails(i) PROVE ReceiptsInv'
  <2>1. /\ DOMAIN s' = DOMAIN s /\ UNCHANGED <<s.card, s.expanded, s.letter, s.autoRead, s.asked>>
    BY <1>5 DEF MarkServed, MarkLands, MarkFails, ReceiptsInv
  <2>. QED
    BY <2>1 DEF ReceiptsInv
<1>. QED
  BY <1>1, <1>2, <1>3, <1>4, <1>5 DEF ReceiptsNext, ReceiptsAnswers

\* Of the lessons drawn only the first unfinished one is current, whatever has landed.
LEMMA LabsInOrder == PathInv => LabsOpenInOrder
<1>. SUFFICES ASSUME PathInv PROVE LabsOpenInOrder
  OBVIOUS
<1>1. \A stars : Len(withGoal(stars)) = 6
  BY DEF withGoal
<1>2. Len(pickConstellation) = 6
  BY <1>1 DEF pickConstellation
<1>. DEFINE progress == IF "progress" \in s.landed THEN s.progress ELSE <<>>
            completed == FirstOf(progress, 4)
<1>3. progress \in Seq(BOOLEAN)
  <2>1. s.progress \in Seq(BOOLEAN) /\ <<>> \in Seq(BOOLEAN)
    BY EmptySeq DEF PathInv
  <2>. QED
    BY <2>1
<1>4. completed \in Seq(BOOLEAN)
  <2>1. Len(progress) \in Nat
    BY <1>3
  <2>. HIDE DEF progress
  <2>. QED
    BY <1>3, <2>1, SubSeqProperties DEF FirstOf
<1>5. ASSUME NEW i \in DOMAIN lessonsFromCourse, lessonsFromCourse[i] = "current", NEW j \in 1 .. (i - 1)
      PROVE  lessonsFromCourse[j] = "done"
  <2>1. CASE completed = <<>>
    <3>1. lessonsFromCourse = <<"done", "done", "current", "upcoming">>
      BY <2>1 DEF lessonsFromCourse
    <3>2. i \in 1 .. 4
      BY <1>5, <3>1
    <3>. QED
      BY <1>5, <3>1, <3>2
  <2>2. CASE completed # <<>>
    <3>. DEFINE First(k) == ~completed[k] /\ \A l \in 1 .. (k - 1) : completed[l]
    <3>1. lessonsFromCourse = [k \in DOMAIN completed |->
             IF completed[k] THEN "done" ELSE IF First(k) THEN "current" ELSE "upcoming"]
      BY <2>2 DEF lessonsFromCourse
    <3>2. i \in DOMAIN completed /\ First(i)
      BY <1>5, <3>1
    <3>3. DOMAIN completed = 1 .. Len(completed) /\ Len(completed) \in Nat
      BY <1>4
    <3>. HIDE DEF completed
    <3>4. j \in DOMAIN completed /\ completed[j]
      BY <3>2, <3>3
    <3>. QED
      BY <3>1, <3>4
  <2>. QED
    BY <2>1, <2>2
<1>. QED
  BY <1>2, <1>5 DEF LabsOpenInOrder, LessonRow

(***************************************************************************)
(* The exercise page.                                                      *)
(***************************************************************************)
\* A student has finitely many submissions.
LEMMA GradesAreFinite ==
  ASSUME NEW graded, NEW n \in Nat, DOMAIN graded = 1 .. n
  PROVE  IsFiniteSet(Grades(graded))
<1>. DEFINE f == [i \in 1 .. n |-> [id |-> i, status |-> graded[i]]]
<1>1. IsFiniteSet(1 .. n)
  BY FS_Interval
<1>2. Grades(graded) = {f[i] : i \in 1 .. n}
  BY DEF Grades
<1>3. f \in Surjection(1 .. n, {f[i] : i \in 1 .. n})
  BY DEF Surjection
<1>. HIDE DEF f
<1>. QED
  BY <1>1, <1>2, <1>3, FS_Surjection

\* Grades never change, so that what unlocks the solution once unlocks it later.
LEMMA MoreGradesUnlock ==
  ASSUME NEW before, NEW after, IsFiniteSet(after), Unlocks(before),
         \A h \in before : h.status = "pending" \/ h \in after
  PROVE  Unlocks(after)
<1>1. CASE \E h \in before : h.status = "passed"
  BY <1>1 DEF Unlocks
<1>2. CASE Cardinality({h \in before : h.status = "failed"}) >= 3
  <2>. DEFINE B == {h \in before : h.status = "failed"}
              A == {h \in after : h.status = "failed"}
  <2>1. B \subseteq A
    OBVIOUS
  <2>2. IsFiniteSet(A)
    BY FS_Subset
  <2>3. IsFiniteSet(B) /\ Cardinality(B) <= Cardinality(A)
    BY <2>1, <2>2, FS_Subset
  <2>4. Cardinality(B) \in Nat /\ Cardinality(A) \in Nat
    BY <2>2, <2>3, FS_CardinalityType
  <2>5. Cardinality(B) >= 3
    BY <1>2
  <2>. HIDE DEF A, B
  <2>6. Cardinality(A) >= 3
    BY <2>3, <2>4, <2>5
  <2>. USE DEF A
  <2>. QED
    BY <2>6 DEF Unlocks
<1>. QED
  BY <1>1, <1>2 DEF Unlocks

\* Every step of the exercise page keeps its invariant.
LEMMA ExerciseStep == ASSUME ExerciseInv, ExerciseNext PROVE ExerciseInv'
<1>. USE DEF Set, WorkClick
<1>0. /\ {"graded", "history", "solution", "refused"} \subseteq DOMAIN s
      /\ s.graded \in Seq({"pending", "passed", "failed"}) /\ s.refused = FALSE
      /\ \A h \in s.history : h.status = "pending" \/ h \in Grades(s.graded)
      /\ s.solution = "asked" => Unlocks(Grades(s.graded))
  BY DEF ExerciseInv
<1>a. DOMAIN s.graded = 1 .. Len(s.graded) /\ Len(s.graded) \in Nat /\ IsFiniteSet(Grades(s.graded))
  BY <1>0, GradesAreFinite
<1>1. ASSUME DOMAIN s' = DOMAIN s, UNCHANGED <<s.graded, s.history, s.refused>>,
             s'.solution \in {s.solution, "shown", "hidden"}
      PROVE  ExerciseInv'
  BY <1>0, <1>1 DEF ExerciseInv
<1>2. ASSUME DOMAIN s' = DOMAIN s, UNCHANGED <<s.history, s.solution, s.refused>>,
             s'.graded \in Seq({"pending", "passed", "failed"}),
             \A h \in Grades(s.graded) : h.status = "pending" \/ h \in Grades(s'.graded)
      PROVE  ExerciseInv'
  <2>1. DOMAIN s'.graded = 1 .. Len(s'.graded) /\ Len(s'.graded) \in Nat
    BY <1>2
  <2>2. IsFiniteSet(Grades(s'.graded))
    BY <2>1, GradesAreFinite
  <2>3. s.solution = "asked" => Unlocks(Grades(s'.graded))
    BY <1>0, <1>2, <2>2, MoreGradesUnlock
  <2>4. \A h \in s.history : h.status = "pending" \/ h \in Grades(s'.graded)
    BY <1>0, <1>2
  <2>. QED
    BY <1>0, <1>2, <2>3, <2>4 DEF ExerciseInv
<1>3. ASSUME NEW code \in {Nothing, Starter}, handleSubmit(code) PROVE ExerciseInv'
  BY <1>0, <1>1, <1>3 DEF handleSubmit
<1>4. CASE CancelExplain \/ performSubmit \/ HideSolution \/ ExplainedFails \/ HistoryFails \/ SolutionFails
  BY <1>0, <1>1, <1>4 DEF CancelExplain, performSubmit, HideSolution, ExplainedFails, HistoryFails, SolutionFails
<1>5. CASE handleRevealSolution
  <2>1. Unlocks(Grades(s.graded))
    BY <1>0, <1>a, <1>5, MoreGradesUnlock DEF handleRevealSolution, solutionUnlocked
  <2>2. DOMAIN s' = DOMAIN s /\ UNCHANGED <<s.graded, s.history, s.refused>>
    BY <1>0, <1>5 DEF handleRevealSolution
  <2>. QED
    BY <1>0, <2>1, <2>2 DEF ExerciseInv
<1>6. CASE Explained
  <2>1. DOMAIN s' = DOMAIN s /\ UNCHANGED <<s.history, s.solution, s.refused>>
    BY <1>0, <1>6 DEF Explained, Submitted
  <2>2. s'.graded = Append(s.graded, "pending")
    BY <1>0, <1>6 DEF Explained, Submitted
  <2>3. /\ s'.graded \in Seq({"pending", "passed", "failed"})
        /\ \A i \in 1 .. Len(s.graded) : i \in DOMAIN s'.graded /\ s'.graded[i] = s.graded[i]
    BY <1>0, <1>a, <2>2
  <2>4. \A h \in Grades(s.graded) : h \in Grades(s'.graded)
    BY <1>a, <2>3 DEF Grades
  <2>. QED
    BY <1>2, <2>1, <2>3, <2>4
<1>7. CASE HistoryLands
  <2>1. DOMAIN s' = DOMAIN s /\ UNCHANGED <<s.graded, s.solution, s.refused>> /\ s'.history = Grades(s.graded)
    BY <1>0, <1>7 DEF HistoryLands, Grades
  <2>. QED
    BY <1>0, <2>1 DEF ExerciseInv
<1>8. CASE SolutionLands
  <2>1. Unlocks({[id |-> i, status |-> s.graded[i]] : i \in DOMAIN s.graded})
    BY <1>0, <1>8 DEF SolutionLands, Grades
  <2>2. DOMAIN s' = DOMAIN s /\ UNCHANGED <<s.graded, s.history>> /\ s'.solution = "shown" /\ s'.refused = FALSE
    BY <1>0, <1>8, <2>1 DEF SolutionLands
  <2>. QED
    BY <1>0, <1>1, <2>2
<1>9. ASSUME NEW id \in DOMAIN s.graded, Grade(id) PROVE ExerciseInv'
  <2>1. PICK verdict \in {"passed", "failed"} : s' = [s EXCEPT !.graded[id] = verdict]
    BY <1>9 DEF Grade
  <2>2. DOMAIN s' = DOMAIN s /\ UNCHANGED <<s.history, s.solution, s.refused>>
    BY <1>0, <2>1
  <2>3. s'.graded = [s.graded EXCEPT ![id] = verdict]
    BY <1>0, <2>1
  <2>4. /\ s'.graded \in Seq({"pending", "passed", "failed"}) /\ DOMAIN s'.graded = DOMAIN s.graded
        /\ \A i \in DOMAIN s.graded : i # id => s'.graded[i] = s.graded[i]
    BY <1>0, <1>a, <2>3
  <2>5. \A h \in Grades(s.graded) : h.status = "pending" \/ h \in Grades(s'.graded)
    <3>1. ASSUME NEW i \in DOMAIN s.graded
          PROVE  s.graded[i] = "pending" \/ [id |-> i, status |-> s.graded[i]] \in Grades(s'.graded)
      <4>1. CASE i = id
        BY <1>9, <4>1 DEF Grade
      <4>2. CASE i # id
        BY <2>4, <4>2 DEF Grades
      <4>. QED
        BY <4>1, <4>2
    <3>2. ASSUME NEW h \in Grades(s.graded)
          PROVE  h.status = "pending" \/ h \in Grades(s'.graded)
      <4>1. PICK i \in DOMAIN s.graded : h = [id |-> i, status |-> s.graded[i]]
        BY DEF Grades
      <4>. QED
        BY <3>1, <4>1
    <3>. QED
      BY <3>2
  <2>. QED
    BY <1>2, <2>2, <2>4, <2>5
<1>10. CASE ExercisePolls
  <2>1. CASE PollTicks
    BY <1>0, <1>1, <2>1 DEF PollTicks
  <2>2. ASSUME NEW p \in s.polls, ExercisePollLands(p) PROVE ExerciseInv'
    BY <1>0, <1>1, <2>2 DEF ExercisePollLands
  <2>3. ASSUME NEW p \in s.polls, PollFails(p) PROVE ExerciseInv'
    BY <1>0, <1>1, <2>3 DEF PollFails
  <2>. QED
    BY <1>10, <2>1, <2>2, <2>3 DEF ExercisePolls
<1>. QED
  BY <1>3, <1>4, <1>5, <1>6, <1>7, <1>8, <1>9, <1>10 DEF ExerciseNext, ExerciseClicks, ExerciseAnswers

(***************************************************************************)
(* The session.                                                            *)
(***************************************************************************)
\* What touches neither tokens nor calls keeps them.
LEMMA SameTokens ==
  ASSUME NEW st, TokensOk(st), NEW now,
         DOMAIN now = DOMAIN st, now.store = st.store, now.disk = st.disk, now.calls = st.calls,
         now.refresh = st.refresh
  PROVE  TokensOk(now)
BY DEF TokensOk

\* Nobody is signed in, and no call is under way.
LEMMA SignedOutTokens ==
  /\ "tok" \in DOMAIN SignedOut /\ IsToken(SignedOut.tok)
  /\ "st" \in DOMAIN NoCall /\ NoCall.st = "free"
BY DEF SignedOut, NoCall, IsToken

\* A page load drops the calls and the refresh with them.
LEMMA LoadedTokens ==
  ASSUME NEW st, TokensOk(st), NEW disk, NEW place, st.disk = disk, "tok" \in DOMAIN disk, IsToken(disk.tok)
  PROVE  TokensOk(Loaded(st, disk, place))
<1>. DEFINE now == Loaded(st, disk, place)
<1>1. /\ DOMAIN now = DOMAIN st /\ now.disk = st.disk /\ now.refresh = Nobody
      /\ now.store = disk /\ now.calls = [c \in 1 .. 2 |-> NoCall]
  BY DEF Loaded, TokensOk
<1>. HIDE DEF now
<1>2. \A c \in 1 .. 2 : now.calls[c] = NoCall
  BY <1>1
<1>3. DOMAIN now.calls = 1 .. 2
  BY <1>1
<1>4. TokensOk(now)
  BY <1>1, <1>2, <1>3, SignedOutTokens DEF TokensOk
<1>. QED
  BY <1>4 DEF now

\* So does the redirect after a refused refresh.
LEMMA RedirectTokens == ASSUME NEW st, TokensOk(st) PROVE TokensOk(clearAuthAndRedirect(st))
<1>. DEFINE out == [st EXCEPT !.disk = SignedOut]
            now == Loaded(out, SignedOut, "login")
<1>1. DOMAIN out = DOMAIN st /\ out.store = st.store /\ out.disk = SignedOut /\ out.calls = st.calls /\ out.refresh = st.refresh
  BY DEF TokensOk
<1>2. TokensOk(out)
  BY <1>1, SignedOutTokens DEF TokensOk
<1>3. TokensOk(now)
  BY <1>1, <1>2, SignedOutTokens, LoadedTokens
<1>4. clearAuthAndRedirect(st) = [now EXCEPT !.next = st.place]
  BY DEF clearAuthAndRedirect
<1>. HIDE DEF now, out
<1>5. LET then == clearAuthAndRedirect(st)
      IN DOMAIN then = DOMAIN now /\ then.store = now.store /\ then.disk = now.disk /\ then.calls = now.calls
           /\ then.refresh = now.refresh
  BY <1>3, <1>4 DEF TokensOk
<1>. QED
  BY <1>3, <1>5, SameTokens

\* The middleware decides on the place alone.
LEMMA MiddlewareTokens == ASSUME NEW st, TokensOk(st), NEW target PROVE TokensOk(middleware(st, target))
<1>. DEFINE there == middleware(st, target)
<1>1. /\ DOMAIN there = DOMAIN st /\ there.store = st.store /\ there.disk = st.disk /\ there.calls = st.calls
      /\ there.refresh = st.refresh
  <2>1. CASE target # "admin"
    BY <2>1 DEF middleware, TokensOk
  <2>2. CASE target = "admin" /\ st.cookie = "admin"
    BY <2>2 DEF middleware, TokensOk
  <2>3. CASE target = "admin" /\ st.cookie # "admin" /\ st.cookie = Nobody
    BY <2>3 DEF middleware, TokensOk
  <2>4. CASE target = "admin" /\ st.cookie # "admin" /\ st.cookie # Nobody
    BY <2>4 DEF middleware, TokensOk
  <2>. QED
    BY <2>1, <2>2, <2>3, <2>4
<1>. HIDE DEF there
<1>2. TokensOk(there)
  BY <1>1, SameTokens
<1>. QED
  BY <1>2 DEF there

\* Every set of the store writes the copy.
LEMMA PersistTokens ==
  ASSUME NEW st, TokensOk(st), NEW store, "tok" \in DOMAIN store, IsToken(store.tok)
  PROVE  TokensOk(Persist(st, store))
<1>. DEFINE now == Persist(st, store)
<1>1. /\ DOMAIN now = DOMAIN st /\ now.store = store /\ now.disk = store /\ now.calls = st.calls
      /\ now.refresh = st.refresh
  BY DEF Persist, TokensOk
<1>. HIDE DEF now
<1>2. TokensOk(now)
  BY <1>1 DEF TokensOk
<1>. QED
  BY <1>2 DEF now

\* A request that is sent waits for nothing yet.
LEMMA SendTokens ==
  ASSUME NEW st, TokensOk(st), NEW c \in 1 .. 2, NEW purpose
  PROVE  TokensOk(Send(st, c, purpose))
<1>. DEFINE now == Send(st, c, purpose)
<1>1. /\ DOMAIN now = DOMAIN st /\ now.store = st.store /\ now.disk = st.disk /\ now.refresh = st.refresh
      /\ now.calls = [st.calls EXCEPT ![c] = [for |-> purpose, tok |-> st.disk.tok, st |-> "sent"]]
  BY DEF Send, TokensOk
<1>. HIDE DEF now
<1>2. DOMAIN now.calls = 1 .. 2
  BY <1>1 DEF TokensOk
<1>3. ASSUME NEW d \in 1 .. 2 PROVE "st" \in DOMAIN now.calls[d] /\ now.calls[d].st \in {"sent", st.calls[d].st}
  <2>1. CASE d = c
    BY <1>1, <2>1 DEF TokensOk
  <2>2. CASE d # c
    BY <1>1, <2>2 DEF TokensOk
  <2>. QED
    BY <2>1, <2>2
<1>4. TokensOk(now)
  BY <1>1, <1>2, <1>3 DEF TokensOk
<1>. QED
  BY <1>4 DEF now

\* A request that is answered is free, whatever its caller does next.
LEMMA SettledTokens ==
  ASSUME NEW st, TokensOk(st), NEW c \in 1 .. 2, NEW ok \in BOOLEAN
  PROVE  TokensOk(Settled(st, c, ok))
<1>. DEFINE call == st.calls[c]
            free == [st EXCEPT !.calls[c] = NoCall]
<1>1. /\ DOMAIN free = DOMAIN st /\ free.store = st.store /\ free.disk = st.disk /\ free.refresh = st.refresh
      /\ free.calls = [st.calls EXCEPT ![c] = NoCall]
  BY DEF TokensOk
<1>. HIDE DEF free
<1>2. TokensOk(free)
  <2>1. DOMAIN free.calls = 1 .. 2
    BY <1>1 DEF TokensOk
  <2>2. \A d \in 1 .. 2 : free.calls[d] = NoCall \/ free.calls[d] = st.calls[d]
    BY <1>1 DEF TokensOk
  <2>. QED
    BY <1>1, <2>1, <2>2, SignedOutTokens DEF TokensOk
<1>3. ASSUME NEW a PROVE TokensOk(Signed(free, a))
  <2>. DEFINE store == [free.store EXCEPT !.user = a]
  <2>1. "tok" \in DOMAIN store /\ IsToken(store.tok)
    BY <1>2 DEF TokensOk
  <2>. HIDE DEF store
  <2>2. TokensOk(Persist(free, store))
    BY <1>2, <2>1, PersistTokens
  <2>3. Signed(free, a) = Persist(free, store)
    BY DEF Signed, store
  <2>. QED
    BY <2>2, <2>3
<1>4. ASSUME NEW now, TokensOk(now), NEW l PROVE TokensOk([now EXCEPT !.login = l])
  <2>. DEFINE then == [now EXCEPT !.login = l]
  <2>1. /\ DOMAIN then = DOMAIN now /\ then.store = now.store /\ then.disk = now.disk /\ then.calls = now.calls
        /\ then.refresh = now.refresh
    BY <1>4 DEF TokensOk
  <2>. HIDE DEF then
  <2>2. TokensOk(then)
    BY <1>4, <2>1, SameTokens
  <2>. QED
    BY <2>2 DEF then
<1>5. ASSUME NEW now, TokensOk(now) PROVE TokensOk([now EXCEPT !.place = "login", !.next = "admin"])
  <2>. DEFINE then == [now EXCEPT !.place = "login", !.next = "admin"]
  <2>1. /\ DOMAIN then = DOMAIN now /\ then.store = now.store /\ then.disk = now.disk /\ then.calls = now.calls
        /\ then.refresh = now.refresh
    BY <1>5 DEF TokensOk
  <2>. HIDE DEF then
  <2>2. TokensOk(then)
    BY <1>5, <2>1, SameTokens
  <2>. QED
    BY <2>2 DEF then
<1>6. TokensOk(Persist(free, SignedOut))
  BY <1>2, SignedOutTokens, PersistTokens
<1>7. CASE call.for = "data"
  BY <1>2, <1>7 DEF Settled, free
<1>8. CASE call.for # "data" /\ ok /\ call.for = "login"
  <2>1. TokensOk([Signed(free, call.tok.account) EXCEPT !.login = "idle"])
    BY <1>3, <1>4
  <2>2. TokensOk(middleware([Signed(free, call.tok.account) EXCEPT !.login = "idle"], st.next))
    BY <2>1, MiddlewareTokens
  <2>. QED
    BY <1>8, <2>2 DEF Settled, free
<1>9. CASE call.for # "data" /\ ok /\ call.for # "login"
  <2>1. TokensOk(Signed(free, call.tok.account))
    BY <1>3
  <2>. QED
    BY <1>9, <2>1 DEF Settled, free
<1>10. CASE call.for # "data" /\ ~ok /\ call.for = "login"
  <2>1. TokensOk([Persist(free, SignedOut) EXCEPT !.login = "idle"])
    BY <1>4, <1>6
  <2>. QED
    BY <1>10, <2>1 DEF Settled, free
<1>11. CASE call.for # "data" /\ ~ok /\ call.for # "login"
  <2>1. TokensOk([Persist(free, SignedOut) EXCEPT !.place = "login", !.next = "admin"])
    BY <1>5, <1>6
  <2>. QED
    BY <1>11, <2>1 DEF Settled, free
<1>. QED
  BY <1>7, <1>8, <1>9, <1>10, <1>11

\* Every step of the session keeps its invariant.
LEMMA AuthStep == ASSUME AuthInv, AuthNext PROVE AuthInv'
<1>. USE DEF Set
<1>0. TokensOk(s) /\ {"store", "disk", "calls", "refresh"} \subseteq DOMAIN s
  BY DEF AuthInv, TokensOk
<1>s. ASSUME DOMAIN s' = DOMAIN s, UNCHANGED <<s.store, s.disk, s.calls, s.refresh>> PROVE AuthInv'
  BY <1>0, <1>s, SameTokens DEF AuthInv
<1>t. ASSUME NEW st, s' = st, TokensOk(st) PROVE AuthInv'
  <2>1. TokensOk(s')
    BY <1>t
  <2>. QED
    BY <2>1 DEF AuthInv, TokensOk
<1>p. TokensOk([s EXCEPT !.acts = @ + 1])
  <2>. DEFINE pressed == [s EXCEPT !.acts = @ + 1]
  <2>1. /\ DOMAIN pressed = DOMAIN s /\ pressed.store = s.store /\ pressed.disk = s.disk /\ pressed.calls = s.calls
        /\ pressed.refresh = s.refresh
    BY <1>0
  <2>. HIDE DEF pressed
  <2>2. TokensOk(pressed)
    BY <1>0, <2>1, SameTokens
  <2>. QED
    BY <2>2 DEF pressed
<1>1. ASSUME NEW t \in {"portal", "admin"}, Navigate(t) PROVE AuthInv'
  BY <1>p, <1>t, <1>1, MiddlewareTokens DEF Navigate
<1>2. CASE logout
  <2>. DEFINE out == Persist([s EXCEPT !.acts = @ + 1], SignedOut)
              st == [out EXCEPT !.place = "login", !.next = "portal"]
  <2>1. TokensOk(out)
    BY <1>p, PersistTokens, SignedOutTokens
  <2>2. s' = st
    BY <1>2 DEF logout
  <2>. HIDE DEF out
  <2>3. /\ DOMAIN st = DOMAIN out /\ st.store = out.store /\ st.disk = out.disk /\ st.calls = out.calls
        /\ st.refresh = out.refresh
    BY <2>1 DEF TokensOk
  <2>. HIDE DEF st
  <2>4. TokensOk(st)
    BY <2>1, <2>3, SameTokens
  <2>. QED
    BY <1>t, <2>2, <2>4
<1>3. CASE handleSubmitLogin \/ CookieExpires \/ Expire \/ PortalRootLayout
  BY <1>0, <1>s, <1>3 DEF handleSubmitLogin, CookieExpires, Expire, PortalRootLayout
<1>4. CASE OtherTabLogsOut
  <2>1. /\ DOMAIN s' = DOMAIN s /\ UNCHANGED <<s.store, s.calls, s.refresh>> /\ s'.disk = SignedOut
    BY <1>0, <1>4 DEF OtherTabLogsOut
  <2>. QED
    BY <1>0, <2>1, SignedOutTokens DEF AuthInv, TokensOk
<1>5. CASE Reload
  <2>. DEFINE now == [s EXCEPT !.acts = @ + 1]
  <2>1. now.disk = s.disk /\ "tok" \in DOMAIN s.disk /\ IsToken(s.disk.tok)
    BY <1>0 DEF TokensOk
  <2>2. TokensOk(Loaded(now, s.disk, s.place))
    BY <1>p, <2>1, LoadedTokens
  <2>3. TokensOk(middleware(Loaded(now, s.disk, s.place), s.place))
    BY <2>2, MiddlewareTokens
  <2>. QED
    BY <1>5, <1>t, <2>3 DEF Reload
<1>6. ASSUME NEW a \in Accounts, OtherTabLogsIn(a) PROVE AuthInv'
  <2>1. /\ DOMAIN s' = DOMAIN s /\ UNCHANGED <<s.store, s.calls, s.refresh>>
        /\ s'.disk = [user |-> a, tok |-> Token(a), authed |-> TRUE]
    BY <1>0, <1>6 DEF OtherTabLogsIn
  <2>2. "tok" \in DOMAIN s'.disk /\ IsToken(s'.disk.tok)
    BY <2>1 DEF IsToken, Token
  <2>. QED
    BY <1>0, <2>1, <2>2 DEF AuthInv, TokensOk
<1>7. ASSUME NEW c \in 1 .. 2, request(c) PROVE AuthInv'
  BY <1>p, <1>t, <1>7, SendTokens DEF request
<1>8. ASSUME NEW c \in 1 .. 2, Succeeds(c) \/ Errs(c) PROVE AuthInv'
  BY <1>0, <1>t, <1>8, SettledTokens DEF Succeeds, Errs
<1>9. ASSUME NEW c \in 1 .. 2, Refused(c) PROVE AuthInv'
  <2>1. CASE s.refresh # Nobody \/ s.disk.tok # Nobody
    <3>1. /\ DOMAIN s' = DOMAIN s /\ UNCHANGED <<s.store, s.disk>>
          /\ s'.refresh = IF s.refresh = Nobody THEN s.disk.tok.account ELSE s.refresh
          /\ s'.calls = [s.calls EXCEPT ![c].st = "waiting"]
      BY <1>0, <1>9, <2>1 DEF Refused
    <3>2. s'.refresh \in Accounts
      BY <1>0, <2>1, <3>1 DEF TokensOk, IsToken
    <3>3. s'.refresh # Nobody
      BY <3>2, AccountAssumption
    <3>4. DOMAIN s'.calls = 1 .. 2 /\ \A d \in 1 .. 2 : "st" \in DOMAIN s'.calls[d]
      <4>1. DOMAIN s.calls = 1 .. 2 /\ \A d \in 1 .. 2 : "st" \in DOMAIN s.calls[d]
        BY <1>0 DEF TokensOk
      <4>. QED
        BY <3>1, <4>1
    <3>. QED
      BY <1>0, <3>1, <3>2, <3>3, <3>4 DEF AuthInv, TokensOk
  <2>2. CASE ~(s.refresh # Nobody \/ s.disk.tok # Nobody)
    BY <1>0, <1>t, <1>9, <2>2, RedirectTokens DEF Refused
  <2>. QED
    BY <2>1, <2>2
<1>10. ASSUME NEW c \in 1 .. 2, RefusedAgain(c) PROVE AuthInv'
  BY <1>0, <1>t, <1>10, RedirectTokens DEF RefusedAgain
<1>11. CASE refreshAccessToken
  <2>1. /\ DOMAIN s' = DOMAIN s /\ s'.store = s.store /\ s'.refresh = Nobody /\ s.refresh \in Accounts
        /\ s'.disk = [s.disk EXCEPT !.tok = Token(s.refresh), !.authed = TRUE]
    BY <1>0, <1>11 DEF refreshAccessToken, TokensOk
  <2>0. s'.calls = [c \in 1 .. 2 |->
              IF s.calls[c].st = "waiting"
              THEN [s.calls[c] EXCEPT !.tok = Token(s.refresh), !.st = "retried"] ELSE s.calls[c]]
    BY <1>0, <1>11 DEF refreshAccessToken, TokensOk
  <2>2. "tok" \in DOMAIN s'.disk /\ s'.disk.tok = Token(s.refresh)
    BY <1>0, <2>1 DEF TokensOk
  <2>3. IsToken(s'.disk.tok)
    BY <2>1, <2>2 DEF IsToken, Token
  <2>4. DOMAIN s'.calls = 1 .. 2
    BY <2>0
  <2>5. ASSUME NEW c \in 1 .. 2 PROVE "st" \in DOMAIN s'.calls[c] /\ s'.calls[c].st # "waiting"
    <3>1. "st" \in DOMAIN s.calls[c]
      BY <1>0 DEF TokensOk
    <3>2. CASE s.calls[c].st = "waiting"
      <4>1. s'.calls[c] = [s.calls[c] EXCEPT !.tok = Token(s.refresh), !.st = "retried"]
        BY <2>0, <3>2
      <4>. QED
        BY <3>1, <4>1
    <3>3. CASE s.calls[c].st # "waiting"
      BY <2>0, <3>1, <3>3
    <3>. QED
      BY <3>2, <3>3
  <2>. QED
    BY <1>0, <2>1, <2>2, <2>3, <2>4, <2>5 DEF AuthInv, TokensOk
<1>12. CASE RefreshFails
  BY <1>0, <1>t, <1>12, RedirectTokens DEF RefreshFails
<1>13. ASSUME NEW c \in 1 .. 2, NEW a \in Accounts, LoginLands(a, c) PROVE AuthInv'
  <2>. DEFINE st == Tokens([s EXCEPT !.login = "me"], Token(a))
  <2>1. /\ DOMAIN st = DOMAIN s /\ st.calls = s.calls /\ st.refresh = s.refresh /\ st.disk = st.store
        /\ st.store = [s.store EXCEPT !.tok = Token(a), !.authed = TRUE]
    BY <1>0 DEF Tokens
  <2>. HIDE DEF st
  <2>2. "tok" \in DOMAIN st.store /\ st.store.tok = Token(a)
    BY <1>0, <2>1 DEF TokensOk
  <2>3. IsToken(st.store.tok)
    BY <2>2 DEF IsToken, Token
  <2>4. TokensOk(st)
    BY <1>0, <2>1, <2>2, <2>3 DEF TokensOk
  <2>5. TokensOk(Send(st, c, "login"))
    BY <2>4, SendTokens
  <2>. QED
    BY <1>t, <1>13, <2>5 DEF LoginLands, st
<1>14. CASE LoginFails
  <2>1. CASE s' = [s EXCEPT !.login = "idle"]
    BY <1>0, <1>s, <2>1
  <2>2. CASE s' = clearAuthAndRedirect(s)
    BY <1>0, <1>t, <2>2, RedirectTokens
  <2>. QED
    BY <1>14, <2>1, <2>2 DEF LoginFails
<1>15. CASE storageEvent
  <2>. DEFINE seen == [s EXCEPT !.event = "none"]
  <2>1. /\ DOMAIN seen = DOMAIN s /\ seen.store = s.store /\ seen.disk = s.disk /\ seen.calls = s.calls
        /\ seen.refresh = s.refresh
    BY <1>0
  <2>2. s' = Persist(seen, SignedOut) \/ s' = seen
    BY <1>15 DEF storageEvent
  <2>. HIDE DEF seen
  <2>3. TokensOk(seen)
    BY <1>0, <2>1, SameTokens
  <2>4. TokensOk(Persist(seen, SignedOut))
    BY <2>3, SignedOutTokens, PersistTokens
  <2>. QED
    BY <1>t, <2>2, <2>3, <2>4
<1>16. CASE LeaveLogin
  BY <1>0, <1>t, <1>16, MiddlewareTokens DEF LeaveLogin
<1>17. ASSUME NEW c \in 1 .. 2, AdminRootLayout(c) PROVE AuthInv'
  <2>. DEFINE st == [s EXCEPT !.tried = TRUE]
  <2>1. /\ DOMAIN st = DOMAIN s /\ st.store = s.store /\ st.disk = s.disk /\ st.calls = s.calls
        /\ st.refresh = s.refresh
    BY <1>0
  <2>2. s' = Send(st, c, "refreshMe") \/ s' = [s EXCEPT !.place = "login", !.next = "admin"]
        \/ s' = [s EXCEPT !.place = "portal"]
    BY <1>17 DEF AdminRootLayout
  <2>. HIDE DEF st
  <2>3. TokensOk(st)
    BY <1>0, <2>1, SameTokens
  <2>4. CASE s' = Send(st, c, "refreshMe")
    BY <1>t, <2>3, <2>4, SendTokens
  <2>5. CASE s' = [s EXCEPT !.place = "login", !.next = "admin"] \/ s' = [s EXCEPT !.place = "portal"]
    BY <1>0, <1>s, <2>5
  <2>. QED
    BY <2>2, <2>4, <2>5
<1>. QED
  BY <1>1, <1>2, <1>3, <1>4, <1>5, <1>6, <1>7, <1>8, <1>9, <1>10, <1>11, <1>12, <1>13, <1>14, <1>15, <1>16, <1>17
     DEF AuthNext, AuthClicks, AuthAnswers, AuthEffects

(***************************************************************************)
(* The interview and the submissions of code.                              *)
(***************************************************************************)
\* A function over the indices of a sequence is a sequence.
LEMMA SameLength ==
  ASSUME NEW S, NEW T, NEW list \in Seq(S), NEW f, f = [i \in DOMAIN f |-> f[i]], DOMAIN f = DOMAIN list,
         \A i \in DOMAIN f : f[i] \in T
  PROVE  f \in Seq(T)
<1>1. DOMAIN list = 1 .. Len(list) /\ Len(list) \in Nat
  OBVIOUS
<1>2. f \in [1 .. Len(list) -> T]
  BY <1>1
<1>. QED
  BY <1>1, <1>2, SeqDef

\* Every step of the interview page keeps its invariant.
LEMMA InterviewStep == ASSUME InterviewInv, InterviewNext PROVE InterviewInv'
<1>. USE DEF Set, Did
<1>0. /\ {"streams", "streaming", "turns", "count"} \subseteq DOMAIN s
      /\ s.turns \in Seq(Turns) /\ s.count \in Nat
      /\ \A i \in DOMAIN s.turns : s.turns[i].got \subseteq {s.turns[i].stream}
  BY DEF InterviewInv
<1>1. CASE handleSend1
  <2>. DEFINE turn == [stream |-> s.count + 1, got |-> {}, done |-> FALSE]
  <2>1. /\ DOMAIN s' = DOMAIN s /\ s'.turns = Append(s.turns, turn) /\ s'.count = s.count + 1
        /\ s'.streaming = TRUE /\ s'.streams = s.streams \cup {[id |-> s.count + 1, at |-> s.session]}
        /\ ~ s.streaming
    BY <1>0, <1>1 DEF handleSend1
  <2>2. turn \in Turns /\ turn.got \subseteq {turn.stream}
    BY <1>0 DEF Turns
  <2>. HIDE DEF turn
  <2>3. s'.turns \in Seq(Turns) /\ \A i \in DOMAIN s'.turns : s'.turns[i].got \subseteq {s'.turns[i].stream}
    BY <1>0, <2>1, <2>2
  <2>4. s.streams = {}
    BY <2>1 DEF InterviewInv
  <2>5. \E r \in s'.streams : s'.streams = {r}
    BY <2>1, <2>4
  <2>. QED
    BY <1>0, <2>1, <2>3, <2>5 DEF InterviewInv
<1>2. ASSUME NEW r \in s.streams,
             DOMAIN s' = DOMAIN s, s'.count = s.count, s'.turns \in Seq(Turns),
             \A i \in DOMAIN s'.turns : s'.turns[i].got \subseteq {s'.turns[i].stream},
             \/ UNCHANGED <<s.streams, s.streaming>>
             \/ s'.streams = s.streams \ {r} /\ s'.streaming = FALSE
      PROVE  InterviewInv'
  BY <1>0, <1>2 DEF InterviewInv
<1>3. ASSUME NEW r \in s.streams, InterviewStreamEnds(r) PROVE InterviewInv'
  <2>. DEFINE turns == [i \in DOMAIN s.turns |-> IF s.turns[i].stream = r.id
                          THEN [s.turns[i] EXCEPT !.done = TRUE] ELSE s.turns[i]]
  <2>1. /\ DOMAIN s' = DOMAIN s /\ s'.count = s.count /\ s'.turns = turns
        /\ s'.streams = s.streams \ {r} /\ s'.streaming = FALSE
    BY <1>0, <1>3 DEF InterviewStreamEnds, StreamOver, InterviewInv
  <2>2. \A i \in DOMAIN s.turns : s.turns[i] \in Turns
    BY <1>0
  <2>3. DOMAIN turns = DOMAIN s.turns /\ \A i \in DOMAIN turns : turns[i] \in Turns /\ turns[i].got \subseteq {turns[i].stream}
    BY <1>0, <2>2 DEF Turns
  <2>4. turns \in Seq(Turns)
    BY <1>0, <2>3, SameLength
  <2>. HIDE DEF turns
  <2>. QED
    BY <1>2, <2>1, <2>3, <2>4
<1>4. ASSUME NEW r \in s.streams, InterviewChunk(r) PROVE InterviewInv'
  <2>. DEFINE turns == [i \in DOMAIN s.turns |-> Heard(s.turns[i], r.id)]
  <2>1. /\ DOMAIN s' = DOMAIN s /\ UNCHANGED <<s.count, s.streams, s.streaming>> /\ s'.turns = turns
    BY <1>0, <1>4 DEF InterviewChunk, InterviewInv
  <2>2. \A i \in DOMAIN s.turns : s.turns[i] \in Turns
    BY <1>0
  <2>3. DOMAIN turns = DOMAIN s.turns /\ \A i \in DOMAIN turns : turns[i] \in Turns /\ turns[i].got \subseteq {turns[i].stream}
    BY <1>0, <2>2 DEF Turns, Heard
  <2>4. turns \in Seq(Turns)
    BY <1>0, <2>3, SameLength
  <2>. HIDE DEF turns
  <2>. QED
    BY <1>2, <2>1, <2>3, <2>4
<1>5. ASSUME NEW r \in s.streams, InterviewStreamFails(r) PROVE InterviewInv'
  <2>1. /\ DOMAIN s' = DOMAIN s /\ UNCHANGED <<s.count, s.turns>>
        /\ s'.streams = s.streams \ {r} /\ s'.streaming = FALSE
    BY <1>0, <1>5 DEF InterviewStreamFails, StreamOver, InterviewInv
  <2>. QED
    BY <1>0, <1>2, <2>1
<1>6. ASSUME InterviewStarts \/ handleResetInterview PROVE InterviewInv'
  <2>1. DOMAIN s' = DOMAIN s /\ UNCHANGED <<s.count, s.streams, s.streaming>> /\ s'.turns = <<>>
    BY <1>0, <1>6 DEF InterviewStarts, handleResetInterview
  <2>. QED
    BY <1>0, <2>1 DEF InterviewInv
<1>7. ASSUME StartInterview \/ TypeAnswer \/ handleEndInterview \/ InterviewStartFails \/ DebriefLands \/ DebriefFails
      PROVE  InterviewInv'
  <2>1. DOMAIN s' = DOMAIN s /\ UNCHANGED <<s.count, s.streams, s.streaming, s.turns>>
    BY <1>0, <1>7 DEF StartInterview, TypeAnswer, handleEndInterview, InterviewStartFails, DebriefLands, DebriefFails
  <2>. QED
    BY <2>1 DEF InterviewInv
<1>. QED
  BY <1>1, <1>3, <1>4, <1>5, <1>6, <1>7 DEF InterviewNext, InterviewClicks, InterviewAnswers

(***************************************************************************)
(* Submissions, on the workspace and on the exercise page.                 *)
(***************************************************************************)
\* What was read of a submission stays true of it when it is graded, or another sent.
LEMMA VerdictsStay ==
  ASSUME NEW graded, NEW after, NEW read, OfItsSubmission(graded, read),
         DOMAIN graded \subseteq DOMAIN after,
         \A i \in DOMAIN graded : graded[i] \in {"pending", after[i]}
  PROVE  OfItsSubmission(after, read)
BY DEF OfItsSubmission

\* A step that touches no submission keeps what is known of them.
LEMMA VerdictsKept ==
  ASSUME VerdictsInv, DOMAIN s' = DOMAIN s, UNCHANGED <<s.graded, s.active, s.raced>>, s'.polls \subseteq s.polls,
         s'.shown = s.shown \/ s'.shown = NoSubmission
  PROVE  VerdictsInv'
BY DEF VerdictsInv, NoSubmission

\* The steps of submissions that the two pages share.
LEMMA VerdictsStep ==
  ASSUME VerdictsInv,
         \/ PollTicks
         \/ \E p \in s.polls : PollLands(p) \/ ExercisePollLands(p) \/ PollFails(p)
         \/ \E id \in DOMAIN s.graded : Grade(id)
         \/ SubmitLands \/ Explained
  PROVE  VerdictsInv'
<1>. USE DEF Set
<1>0. /\ {"graded", "active", "shown", "polls", "submitting", "raced"} \subseteq DOMAIN s
      /\ s.graded \in Seq({"pending", "passed", "failed"}) /\ s.active \in {0} \cup DOMAIN s.graded
      /\ \A p \in s.polls : OfItsSubmission(s.graded, p)
      /\ s.shown.status # "none" => OfItsSubmission(s.graded, s.shown)
      /\ ~s.raced => /\ \A p \in s.polls : p.id = s.active
                     /\ s.shown.status # "none" => s.shown.id = s.active
  BY DEF VerdictsInv
<1>a. DOMAIN s.graded = 1 .. Len(s.graded) /\ Len(s.graded) \in Nat
  BY <1>0
<1>1. CASE PollTicks
  <2>. DEFINE p == [id |-> s.active, status |-> s.graded[s.active]]
  <2>1. DOMAIN s' = DOMAIN s /\ UNCHANGED <<s.graded, s.active, s.shown, s.raced>> /\ s'.polls = s.polls \cup {p}
    BY <1>0, <1>1 DEF PollTicks
  <2>2. OfItsSubmission(s.graded, p)
    BY <1>0, <1>1 DEF PollTicks, Polling, OfItsSubmission
  <2>. QED
    BY <1>0, <2>1, <2>2 DEF VerdictsInv
<1>2. ASSUME NEW p \in s.polls, PollLands(p) \/ ExercisePollLands(p) \/ PollFails(p) PROVE VerdictsInv'
  <2>1. CASE PollFails(p)
    BY <1>0, <2>1, VerdictsKept DEF PollFails
  <2>2. CASE PollLands(p) \/ ExercisePollLands(p)
    <3>1. PICK status \in {p.status, s.graded[p.id]} :
            /\ DOMAIN s' = DOMAIN s /\ UNCHANGED <<s.graded, s.active, s.raced>> /\ s'.polls = s.polls \ {p}
            /\ s'.shown = [id |-> p.id, status |-> status]
      BY <1>0, <2>2 DEF PollLands, ExercisePollLands
    <3>2. OfItsSubmission(s.graded, s'.shown)
      BY <1>0, <3>1 DEF OfItsSubmission
    <3>. QED
      BY <1>0, <3>1, <3>2 DEF VerdictsInv
  <2>. QED
    BY <1>2, <2>1, <2>2
<1>3. ASSUME DOMAIN s' = DOMAIN s, s'.graded \in Seq({"pending", "passed", "failed"}),
             s'.active \in {0} \cup DOMAIN s'.graded, s'.polls = s.polls,
             DOMAIN s.graded \subseteq DOMAIN s'.graded,
             \A i \in DOMAIN s.graded : s.graded[i] \in {"pending", s'.graded[i]},
             s'.shown = s.shown \/ OfItsSubmission(s'.graded, s'.shown),
             ~s'.raced => /\ \A p \in s.polls : p.id = s'.active
                          /\ s'.shown.status # "none" => s'.shown.id = s'.active
      PROVE  VerdictsInv'
  <2>1. \A p \in s.polls : OfItsSubmission(s'.graded, p)
    BY <1>0, <1>3, VerdictsStay
  <2>2. s'.shown.status # "none" => OfItsSubmission(s'.graded, s'.shown)
    BY <1>0, <1>3, VerdictsStay
  <2>. QED
    BY <1>0, <1>3, <2>1, <2>2 DEF VerdictsInv
<1>4. ASSUME NEW id \in DOMAIN s.graded, Grade(id) PROVE VerdictsInv'
  <2>1. PICK verdict \in {"passed", "failed"} : s' = [s EXCEPT !.graded[id] = verdict]
    BY <1>4 DEF Grade
  <2>2. /\ DOMAIN s' = DOMAIN s /\ UNCHANGED <<s.active, s.polls, s.shown, s.raced>>
        /\ s'.graded = [s.graded EXCEPT ![id] = verdict]
    BY <1>0, <2>1
  <2>3. s'.graded \in Seq({"pending", "passed", "failed"}) /\ DOMAIN s'.graded = DOMAIN s.graded
    BY <1>0, <2>2
  <2>4. \A i \in DOMAIN s.graded : s.graded[i] \in {"pending", s'.graded[i]}
    BY <1>4, <2>2 DEF Grade
  <2>. QED
    BY <1>0, <1>3, <2>2, <2>3, <2>4
<1>5. CASE SubmitLands \/ Explained
  <2>. DEFINE id == Len(s.graded) + 1
  <2>1. /\ DOMAIN s' = DOMAIN s /\ s'.polls = s.polls /\ s'.graded = Append(s.graded, "pending") /\ s'.active = id
        /\ s'.shown = [id |-> id, status |-> "pending"] /\ s'.raced = (s.polls # {})
    BY <1>0, <1>5 DEF SubmitLands, Explained, Submitted
  <2>2. /\ s'.graded \in Seq({"pending", "passed", "failed"}) /\ DOMAIN s'.graded = 1 .. id
        /\ \A i \in DOMAIN s.graded : s'.graded[i] = s.graded[i]
    BY <1>0, <1>a, <2>1
  <2>3. id \in DOMAIN s'.graded /\ DOMAIN s.graded \subseteq DOMAIN s'.graded
    BY <1>a, <2>2
  <2>4. OfItsSubmission(s'.graded, s'.shown)
    BY <2>1, <2>3 DEF OfItsSubmission
  <2>5. ~s'.raced => /\ \A p \in s.polls : p.id = s'.active
                     /\ s'.shown.status # "none" => s'.shown.id = s'.active
    <3>1. ~s'.raced => s.polls = {}
      BY <2>1
    <3>2. s'.shown.id = s'.active
      BY <2>1
    <3>. QED
      BY <3>1, <3>2
  <2>. QED
    BY <1>3, <2>1, <2>2, <2>3, <2>4, <2>5
<1>. QED
  BY <1>1, <1>2, <1>4, <1>5

\* Every step of the practice workspace keeps its invariants.
LEMMA PracticeStep == ASSUME VerdictsInv, WorkspaceInv, PracticeNext PROVE VerdictsInv' /\ WorkspaceInv'
<1>. USE DEF Set, WorkClick
<1>0. /\ {"graded", "active", "shown", "polls", "submitting", "raced"} \subseteq DOMAIN s
      /\ {"running", "runError", "runResult", "ran", "reviewing", "reviewError", "review", "asked"} \subseteq DOMAIN s
  BY DEF VerdictsInv, WorkspaceInv
<1>1. ASSUME DOMAIN s' = DOMAIN s,
             UNCHANGED <<s.running, s.runError, s.runResult, s.ran, s.reviewing, s.reviewError, s.review, s.asked>>
      PROVE  WorkspaceInv'
  BY <1>1 DEF WorkspaceInv
<1>2. ASSUME DOMAIN s' = DOMAIN s, UNCHANGED <<s.graded, s.active, s.polls, s.shown, s.raced>> PROVE VerdictsInv'
  BY <1>2, VerdictsKept
<1>3. ASSUME \/ EditCode \/ handleReset \/ ResetTimer \/ ExerciseLoads \/ ExerciseErrs
             \/ \E tab \in {"output", "review", "tests", "history"} : OutputPanel(tab)
      PROVE  VerdictsInv' /\ WorkspaceInv'
  <2>1. /\ DOMAIN s' = DOMAIN s /\ UNCHANGED <<s.graded, s.active, s.polls, s.shown, s.raced>>
        /\ UNCHANGED <<s.running, s.runError, s.runResult, s.ran, s.reviewing, s.reviewError, s.review, s.asked>>
    BY <1>0, <1>3 DEF EditCode, handleReset, ResetTimer, ExerciseLoads, ExerciseErrs, OutputPanel
  <2>. QED
    BY <1>1, <1>2, <2>1
<1>4. ASSUME handleRun \/ RunLands \/ RunFails \/ handleGetReview \/ ReviewLands \/ ReviewFails \/ SubmitErrs
      PROVE  VerdictsInv' /\ WorkspaceInv'
  <2>1. DOMAIN s' = DOMAIN s /\ UNCHANGED <<s.graded, s.active, s.polls, s.shown, s.raced>>
    BY <1>0, <1>4 DEF handleRun, RunLands, RunFails, handleGetReview, ReviewLands, ReviewFails, SubmitErrs
  <2>2. /\ ~s.running /\ ~s.runError => s.runResult = s.ran
        /\ ~s.reviewing /\ ~s.reviewError => s.review = s.asked
    BY DEF WorkspaceInv
  <2>3. CASE handleRun \/ RunLands \/ RunFails \/ SubmitErrs
    <3>1. DOMAIN s' = DOMAIN s /\ UNCHANGED <<s.reviewing, s.reviewError, s.review, s.asked>>
      BY <1>0, <2>3 DEF handleRun, RunLands, RunFails, SubmitErrs
    <3>2. s'.running = TRUE \/ s'.runError = TRUE \/ s'.runResult = s'.ran
      BY <1>0, <2>3 DEF handleRun, RunLands, RunFails, SubmitErrs
    <3>3. ~s'.running /\ ~s'.runError => s'.runResult = s'.ran
      BY <3>2
    <3>4. ~s'.reviewing /\ ~s'.reviewError => s'.review = s'.asked
      BY <2>2, <3>1
    <3>. QED
      BY <1>0, <1>2, <2>1, <3>1, <3>3, <3>4 DEF WorkspaceInv
  <2>4. CASE handleGetReview \/ ReviewLands \/ ReviewFails
    <3>1. DOMAIN s' = DOMAIN s /\ UNCHANGED <<s.running, s.runError, s.runResult, s.ran>>
      BY <1>0, <2>4 DEF handleGetReview, ReviewLands, ReviewFails
    <3>2. s'.reviewing = TRUE \/ s'.reviewError = TRUE \/ s'.review = s'.asked
      BY <1>0, <2>4 DEF handleGetReview, ReviewLands, ReviewFails
    <3>3. ~s'.reviewing /\ ~s'.reviewError => s'.review = s'.asked
      BY <3>2
    <3>4. ~s'.running /\ ~s'.runError => s'.runResult = s'.ran
      BY <2>2, <3>1
    <3>. QED
      BY <1>0, <1>2, <2>1, <3>1, <3>3, <3>4 DEF WorkspaceInv
  <2>. QED
    BY <1>2, <1>4, <2>1, <2>3, <2>4
<1>5. CASE handleSubmitWork
  BY <1>0, <1>1, <1>5, VerdictsKept DEF handleSubmitWork
<1>6. ASSUME \/ PollTicks
             \/ \E p \in s.polls : PollLands(p) \/ PollFails(p)
             \/ \E id \in DOMAIN s.graded : Grade(id)
             \/ SubmitLands
      PROVE  VerdictsInv' /\ WorkspaceInv'
  <2>1. /\ DOMAIN s' = DOMAIN s
        /\ UNCHANGED <<s.running, s.runError, s.runResult, s.ran, s.reviewing, s.reviewError, s.review, s.asked>>
    BY <1>0, <1>6 DEF PollTicks, PollLands, PollFails, Grade, SubmitLands, Submitted
  <2>2. VerdictsInv'
    BY <1>6, VerdictsStep
  <2>. QED
    BY <1>1, <2>1, <2>2
<1>. QED
  BY <1>3, <1>4, <1>5, <1>6 DEF PracticeNext, PracticeClicks, PracticeAnswers, PracticePolls

\* The exercise page leaves the submissions as it finds them, or takes a step of theirs.
LEMMA ExerciseVerdicts == ASSUME VerdictsInv, ExerciseNext PROVE VerdictsInv'
<1>. USE DEF Set, WorkClick
<1>0. {"graded", "active", "shown", "polls", "submitting", "raced"} \subseteq DOMAIN s
  BY DEF VerdictsInv
<1>1. ASSUME NEW code \in {Nothing, Starter}, handleSubmit(code) PROVE VerdictsInv'
  BY <1>0, <1>1, VerdictsKept DEF handleSubmit
<1>2. ASSUME \/ CancelExplain \/ performSubmit \/ handleRevealSolution \/ HideSolution \/ ExplainedFails
             \/ HistoryLands \/ HistoryFails \/ SolutionLands \/ SolutionFails
      PROVE  VerdictsInv'
  <2>1. DOMAIN s' = DOMAIN s /\ UNCHANGED <<s.graded, s.active, s.polls, s.shown, s.raced>>
    BY <1>0, <1>2 DEF CancelExplain, performSubmit, handleRevealSolution, HideSolution, ExplainedFails,
                      HistoryLands, HistoryFails, SolutionLands, SolutionFails
  <2>. QED
    BY <2>1, VerdictsKept
<1>3. ASSUME \/ PollTicks \/ Explained
             \/ \E p \in s.polls : ExercisePollLands(p) \/ PollFails(p)
             \/ \E id \in DOMAIN s.graded : Grade(id)
      PROVE  VerdictsInv'
  BY <1>3, VerdictsStep
<1>. QED
  BY <1>1, <1>2, <1>3 DEF ExerciseNext, ExerciseClicks, ExerciseAnswers, ExercisePolls

(***************************************************************************)
(* The mock interview and the conversation of the diagnosis.               *)
(***************************************************************************)
\* A bubble that comes last, and is no answer or the answer to the one before, keeps
\* every answer under what it answers.
LEMMA UnderStays ==
  ASSUME NEW S, NEW list \in Seq(S), NEW asker, NEW answerer, Under(list, asker, answerer), NEW last \in S,
         last.role = answerer /\ last.of # 0 =>
           list # <<>> /\ list[Len(list)] = [role |-> asker, of |-> last.of]
  PROVE  Append(list, last) \in Seq(S) /\ Under(Append(list, last), asker, answerer)
<1>. DEFINE longer == Append(list, last)
            n == Len(list)
<1>1. /\ n \in Nat /\ DOMAIN list = 1 .. n /\ longer \in Seq(S) /\ DOMAIN longer = 1 .. n + 1
      /\ longer[n + 1] = last /\ \A i \in 1 .. n : longer[i] = list[i]
  OBVIOUS
<1>. HIDE DEF longer
<1>2. ASSUME NEW i \in 1 .. n + 1, longer[i].role = answerer, longer[i].of # 0
      PROVE  i > 1 /\ longer[i - 1] = [role |-> asker, of |-> longer[i].of]
  <2>1. CASE i = n + 1
    <3>1. n > 0 /\ list[n] = [role |-> asker, of |-> last.of]
      BY <1>1, <1>2, <2>1
    <3>. QED
      BY <1>1, <2>1, <3>1
  <2>2. CASE i \in 1 .. n
    <3>1. i > 1 /\ list[i - 1] = [role |-> asker, of |-> list[i].of]
      BY <1>1, <1>2, <2>2 DEF Under
    <3>. QED
      BY <1>1, <2>2, <3>1
  <2>. QED
    BY <1>1, <2>1, <2>2
<1>. QED
  BY <1>1, <1>2 DEF Under, longer

\* A room whose bubbles stay, and in which nothing new is awaited, stays in order.
LEMMA RoomKept ==
  ASSUME RoomInv, DOMAIN s' = DOMAIN s, DOMAIN s'.room = DOMAIN s.room,
         s'.room.bubbles = s.room.bubbles, s'.room.answered = s.room.answered,
         s'.room.answering \in {0, s.room.answering}
  PROVE  RoomInv'
BY DEF RoomInv

\* A room that is entered or left is empty.
LEMMA RoomEmpty == ASSUME DOMAIN s' = DOMAIN s, "room" \in DOMAIN s, s'.room = NoRoom PROVE RoomInv'
<1>1. /\ {"bubbles", "answering", "answered"} \subseteq DOMAIN NoRoom
      /\ NoRoom.bubbles = <<>> /\ NoRoom.answering = 0 /\ NoRoom.answered = 0
  BY DEF NoRoom
<1>2. <<>> \in Seq(Bubbles) /\ Under(<<>>, "candidate", "interviewer")
  BY DEF Under
<1>. QED
  BY <1>1, <1>2 DEF RoomInv

\* An answer that is sent is the last bubble.
LEMMA RoomAsked ==
  ASSUME RoomInv, s.room.answering = 0, NEW st, DOMAIN st = DOMAIN s, st.room = s.room,
         DOMAIN s' = DOMAIN s, DOMAIN s'.room = DOMAIN s.room, s'.room.bubbles = Asked(st).room.bubbles,
         s'.room.answered = Asked(st).room.answered, s'.room.answering = Asked(st).room.answering
  PROVE  RoomInv'
<1>. DEFINE bubble == [role |-> "candidate", of |-> s.room.answered + 1]
<1>0. /\ "room" \in DOMAIN s /\ {"bubbles", "answering", "answered"} \subseteq DOMAIN s.room
      /\ s.room.bubbles \in Seq(Bubbles) /\ s.room.answered \in Nat
      /\ Under(s.room.bubbles, "candidate", "interviewer")
      /\ \A i \in DOMAIN s.room.bubbles : s.room.bubbles[i].of # 0
  BY DEF RoomInv
<1>1. /\ s'.room.bubbles = Append(s.room.bubbles, bubble)
      /\ s'.room.answered = s.room.answered + 1 /\ s'.room.answering = s.room.answered + 1
  BY <1>0 DEF Asked
<1>2. bubble \in Bubbles /\ bubble.role = "candidate" /\ bubble.of # 0
  BY <1>0 DEF Bubbles
<1>3. s'.room.bubbles \in Seq(Bubbles) /\ Under(s'.room.bubbles, "candidate", "interviewer")
  BY <1>0, <1>1, <1>2, UnderStays
<1>4. bubble = [role |-> "candidate", of |-> s'.room.answering]
  BY <1>1
<1>. HIDE DEF bubble
<1>5. /\ s'.room.bubbles # <<>> /\ s'.room.bubbles[Len(s'.room.bubbles)] = bubble
      /\ \A i \in DOMAIN s'.room.bubbles : s'.room.bubbles[i].of # 0
  BY <1>0, <1>1, <1>2
<1>6. s'.room.answered \in Nat
  BY <1>0, <1>1
<1>7. "room" \in DOMAIN s' /\ {"bubbles", "answering", "answered"} \subseteq DOMAIN s'.room
  BY <1>0
<1>. QED
  BY <1>3, <1>4, <1>5, <1>6, <1>7 DEF RoomInv

\* Every step of the mock interview workspace keeps its invariant.
LEMMA MockStep == ASSUME RoomInv, MockNext PROVE RoomInv'
<1>. USE DEF Set, Did
<1>0. "room" \in DOMAIN s /\ {"bubbles", "answering", "answered"} \subseteq DOMAIN s.room
  BY DEF RoomInv
<1>1. ASSUME DOMAIN s' = DOMAIN s, s'.room = s.room PROVE RoomInv'
  BY <1>1, RoomKept
<1>2. ASSUME NEW mode, handlePickMode(mode) PROVE RoomInv'
  BY <1>0, <1>1, <1>2 DEF handlePickMode
<1>3. ASSUME \/ CancelSetup \/ handleStartMock \/ onShare \/ handleResetMock \/ MockStartFails \/ RuntimeLoads
             \/ RuntimeFails \/ ShareLands \/ ShareFails \/ CopiedTimer
      PROVE  RoomInv'
  BY <1>0, <1>1, <1>3 DEF CancelSetup, handleStartMock, onShare, handleResetMock, MockStartFails, RuntimeLoads,
                          RuntimeFails, ShareLands, ShareFails, CopiedTimer, Copied
<1>4. ASSUME WriteDraft \/ handleStartListening \/ EditCode1 \/ runCode \/ RunEnds \/ AnswerFails
             \/ SpeechArrives \/ NothingMoreHeard
      PROVE  RoomInv'
  <2>1. CASE WriteDraft
    BY <1>0, <2>1, RoomKept DEF WriteDraft
  <2>2. CASE handleStartListening
    BY <1>0, <2>2, RoomKept DEF handleStartListening
  <2>3. CASE EditCode1
    BY <1>0, <2>3, RoomKept DEF EditCode1
  <2>4. CASE runCode
    BY <1>0, <2>4, RoomKept DEF runCode
  <2>5. CASE RunEnds
    BY <1>0, <2>5, RoomKept DEF RunEnds
  <2>6. CASE AnswerFails
    BY <1>0, <2>6, RoomKept DEF AnswerFails
  <2>7. CASE SpeechArrives
    BY <1>0, <2>7, RoomKept DEF SpeechArrives
  <2>8. CASE NothingMoreHeard
    BY <1>0, <2>8, RoomKept DEF NothingMoreHeard
  <2>. QED
    BY <1>4, <2>1, <2>2, <2>3, <2>4, <2>5, <2>6, <2>7, <2>8
<1>5. CASE submitAnswer
  <2>. DEFINE st == Did
  <2>1. DOMAIN st = DOMAIN s /\ st.room = s.room /\ s.room.answering = 0
    BY <1>0, <1>5 DEF submitAnswer
  <2>2. s' = [Asked(st) EXCEPT !.room.draft = "empty", !.room.listening = FALSE,
                            !.room.unheard = @ \/ s.room.listening]
    BY <1>5 DEF submitAnswer
  <2>. HIDE DEF st
  <2>3. DOMAIN Asked(st) = DOMAIN s /\ DOMAIN Asked(st).room = DOMAIN s.room
    BY <1>0, <2>1 DEF Asked
  <2>4. /\ DOMAIN s' = DOMAIN s /\ DOMAIN s'.room = DOMAIN s.room /\ s'.room.bubbles = Asked(st).room.bubbles
        /\ s'.room.answered = Asked(st).room.answered /\ s'.room.answering = Asked(st).room.answering
    BY <1>0, <2>2, <2>3
  <2>. QED
    BY <2>1, <2>4, RoomAsked
<1>6. CASE submitCode
  <2>. DEFINE st == Did
  <2>1. DOMAIN st = DOMAIN s /\ st.room = s.room /\ s.room.answering = 0 /\ s' = Asked(st)
    BY <1>0, <1>6 DEF submitCode
  <2>. HIDE DEF st
  <2>2. DOMAIN Asked(st) = DOMAIN s /\ DOMAIN Asked(st).room = DOMAIN s.room
    BY <1>0, <2>1 DEF Asked
  <2>. QED
    BY <2>1, <2>2, RoomAsked
<1>7. ASSUME NEW more \in BOOLEAN, NEW capped \in BOOLEAN, AnswerLands(more, capped) PROVE RoomInv'
  <2>. DEFINE bubble == [role |-> "interviewer", of |-> s.room.answering]
  <2>1. /\ DOMAIN s' = DOMAIN s /\ DOMAIN s'.room = DOMAIN s.room
        /\ s'.room.bubbles = Append(s.room.bubbles, bubble)
        /\ s'.room.answered = s.room.answered /\ s'.room.answering = 0 /\ s.room.answering # 0
    BY <1>0, <1>7 DEF AnswerLands
  <2>2. /\ s.room.bubbles \in Seq(Bubbles) /\ s.room.answered \in Nat
        /\ Under(s.room.bubbles, "candidate", "interviewer")
        /\ \A i \in DOMAIN s.room.bubbles : s.room.bubbles[i].of # 0
        /\ s.room.bubbles # <<>>
        /\ s.room.bubbles[Len(s.room.bubbles)] = [role |-> "candidate", of |-> s.room.answering]
    BY <2>1 DEF RoomInv
  <2>3. bubble \in Bubbles /\ bubble.of = s.room.answering /\ bubble.of # 0
    <3>1. s.room.bubbles[Len(s.room.bubbles)] \in Bubbles
      BY <2>2
    <3>2. s.room.answering \in Nat
      BY <2>2, <3>1 DEF Bubbles
    <3>. QED
      BY <2>1, <3>2 DEF Bubbles
  <2>. HIDE DEF bubble
  <2>4. s'.room.bubbles \in Seq(Bubbles) /\ Under(s'.room.bubbles, "candidate", "interviewer")
    BY <2>1, <2>2, <2>3, UnderStays
  <2>5. \A i \in DOMAIN s'.room.bubbles : s'.room.bubbles[i].of # 0
    BY <2>1, <2>2, <2>3
  <2>. QED
    BY <1>0, <2>1, <2>2, <2>4, <2>5 DEF RoomInv
<1>8. CASE MockStarts
  BY <1>0, <1>8, RoomEmpty DEF MockStarts
<1>9. CASE handleEndMock
  <2>1. DOMAIN s' = DOMAIN s /\ (s'.room = s.room \/ s'.room = NoRoom)
    BY <1>0, <1>9 DEF handleEndMock
  <2>. QED
    BY <1>0, <1>1, <2>1, RoomEmpty
<1>10. ASSUME NEW i \in DOMAIN s.completing, ReportLands(i) \/ ReportFails(i) PROVE RoomInv'
  BY <1>0, <1>10, RoomEmpty DEF ReportLands, ReportFails
<1>. QED
  BY <1>2, <1>3, <1>4, <1>5, <1>6, <1>7, <1>8, <1>9, <1>10 DEF MockNext, MockClicks, MockAnswers

\* A step that adds no message keeps the conversation, if it begins no thought.
LEMMA TalkKept ==
  ASSUME TalkInv, DOMAIN s' = DOMAIN s, UNCHANGED <<s.messages, s.turns, s.session>>,
         s'.thinking = s.thinking \/ s'.thinking = FALSE,
         s'.starting = s.starting \/ s'.starting = FALSE,
         s'.decoder = s.decoder,
         s'.decoding = s.decoding \/ s'.decoding = FALSE
  PROVE  TalkInv'
<1>1. s'.thinking => s.thinking
  OBVIOUS
<1>2. s'.starting => s.starting
  OBVIOUS
<1>3. s'.decoding => s.decoding
  OBVIOUS
<1>. QED
  BY <1>1, <1>2, <1>3 DEF TalkInv

\* Every step of the diagnosis keeps the conversation in order.
LEMMA TalkStep == ASSUME TalkInv, DiagnosisNext PROVE TalkInv'
<1>. USE DEF Set, StartClicked
<1>0. /\ {"messages", "turns", "thinking", "decoder", "decoding", "starting", "session"} \subseteq DOMAIN s
      /\ s.messages \in Seq(Messages) /\ s.turns \in Nat
      /\ s.starting => s.session = 0
      /\ s.decoding => s.decoder
      /\ s.thinking =>
           /\ s.session # 0 /\ ~s.decoder /\ s.messages # <<>>
           /\ s.messages[Len(s.messages)] = [role |-> "student", of |-> s.turns]
      /\ Under(s.messages, "student", "agent")
  BY DEF TalkInv
<1>1. CASE PastDiagnosesLand
  <2>1. /\ DOMAIN s' = DOMAIN s /\ UNCHANGED <<s.messages, s.turns, s.session, s.thinking, s.starting, s.decoder, s.decoding>>
    BY <1>0, <1>1 DEF PastDiagnosesLand, CompletionChecks
  <2>. QED
    BY <2>1, TalkKept
<1>2. ASSUME NEW clicked \in BOOLEAN, ComeBack(clicked) PROVE TalkInv'
  <2>1. /\ {"messages", "turns", "thinking", "decoder", "decoding", "starting", "session"} \subseteq DOMAIN s'
        /\ s'.messages = <<>> /\ s'.turns = 0 /\ ~s'.thinking /\ ~s'.starting /\ ~s'.decoding
    BY <1>2 DEF ComeBack, Mounted
  <2>2. <<>> \in Seq(Messages) /\ Under(<<>>, "student", "agent")
    BY DEF Under
  <2>. QED
    BY <2>1, <2>2 DEF TalkInv
<1>3. ASSUME NEW stale \in BOOLEAN, PastDiagnosesDrawer(stale) PROVE TalkInv'
  BY <1>0, <1>3, TalkKept DEF PastDiagnosesDrawer
<1>4. ASSUME NEW d \in s.checking, CompletionChecked(d) \/ CompletionCheckFails(d) PROVE TalkInv'
  BY <1>0, <1>4, TalkKept DEF CompletionChecked, CompletionCheckFails
<1>5. ASSUME PastDiagnosesFail \/ SessionStartFails \/ TurnFails \/ DecodeFails \/ finalize \/ FinalizeFails PROVE TalkInv'
  BY <1>0, <1>5, TalkKept DEF PastDiagnosesFail, SessionStartFails, TurnFails, DecodeFails, finalize, FinalizeFails
<1>6. CASE startSession
  <2>1. /\ DOMAIN s' = DOMAIN s /\ UNCHANGED <<s.turns, s.session, s.thinking, s.decoder, s.decoding>> /\ s'.messages = <<>>
        /\ s.session = 0
    BY <1>0, <1>6 DEF startSession, Idle
  <2>2. <<>> \in Seq(Messages) /\ Under(<<>>, "student", "agent")
    BY DEF Under
  <2>. QED
    BY <1>0, <2>1, <2>2 DEF TalkInv
<1>7. CASE SessionStarts
  <2>. DEFINE hello == [role |-> "agent", of |-> 0]
  <2>1. /\ DOMAIN s' = DOMAIN s /\ UNCHANGED <<s.turns, s.thinking, s.decoder, s.decoding>> /\ s'.messages = <<hello>>
        /\ s.starting /\ ~s'.starting
    BY <1>0, <1>7 DEF SessionStarts
  <2>2. hello \in Messages /\ hello.of = 0
    BY DEF Messages
  <2>. HIDE DEF hello
  <2>3. <<hello>> \in Seq(Messages) /\ Under(<<hello>>, "student", "agent")
    BY <2>2 DEF Under
  <2>4. ~s'.thinking
    BY <1>0, <2>1
  <2>. QED
    BY <1>0, <2>1, <2>3, <2>4 DEF TalkInv
<1>8. CASE sendTurn
  <2>. DEFINE turn == [role |-> "student", of |-> s.turns + 1]
  <2>1. /\ DOMAIN s' = DOMAIN s /\ UNCHANGED <<s.session, s.starting, s.decoder, s.decoding>>
        /\ s'.turns = s.turns + 1 /\ s'.messages = Append(s.messages, turn)
        /\ s.session # 0 /\ ~s.decoder
    BY <1>0, <1>8 DEF sendTurn, Conversing, inputDisabled
  <2>2. turn \in Messages /\ turn.role = "student"
    BY <1>0 DEF Messages
  <2>3. s'.messages \in Seq(Messages) /\ Under(s'.messages, "student", "agent")
    BY <1>0, <2>1, <2>2, UnderStays
  <2>4. s'.messages # <<>> /\ s'.messages[Len(s'.messages)] = [role |-> "student", of |-> s'.turns] /\ s'.turns \in Nat
    BY <1>0, <2>1, <2>2
  <2>. QED
    BY <1>0, <2>1, <2>3, <2>4 DEF TalkInv
<1>9. CASE DecodeSubmit
  BY <1>0, <1>9 DEF DecodeSubmit, InlineDecoderEmbed, TalkInv
<1>10. ASSUME NEW decode \in BOOLEAN, NEW final \in BOOLEAN, TurnLands(decode, final) PROVE TalkInv'
  <2>. DEFINE reply == [role |-> "agent", of |-> s.turns]
  <2>1. /\ DOMAIN s' = DOMAIN s /\ UNCHANGED <<s.session, s.starting, s.turns, s.decoding>>
        /\ s'.messages = Append(s.messages, reply) /\ s.thinking /\ ~s'.thinking
        /\ s'.decoder = (s.decoder \/ decode)
    BY <1>0, <1>10 DEF TurnLands
  <2>2. reply \in Messages /\ reply.of = s.turns
    BY <1>0 DEF Messages
  <2>3. s'.messages \in Seq(Messages) /\ Under(s'.messages, "student", "agent")
    BY <1>0, <2>1, <2>2, UnderStays
  <2>4. ~s.decoding
    BY <1>0, <2>1
  <2>. QED
    BY <1>0, <2>1, <2>3, <2>4 DEF TalkInv
<1>11. CASE onDecoderResult
  <2>. DEFINE result == [role |-> "agent", of |-> 0]
  <2>1. /\ DOMAIN s' = DOMAIN s /\ UNCHANGED <<s.session, s.starting, s.turns, s.thinking>>
        /\ s'.messages = Append(s.messages, result) /\ s.decoding /\ ~s'.decoding
    BY <1>0, <1>11 DEF onDecoderResult
  <2>2. result \in Messages /\ result.of = 0
    BY DEF Messages
  <2>3. s'.messages \in Seq(Messages) /\ Under(s'.messages, "student", "agent")
    BY <1>0, <2>1, <2>2, UnderStays
  <2>4. ~s'.thinking
    BY <1>0, <2>1
  <2>. QED
    BY <1>0, <2>1, <2>3, <2>4 DEF TalkInv
<1>. QED
  BY <1>1, <1>2, <1>3, <1>4, <1>5, <1>6, <1>7, <1>8, <1>9, <1>10, <1>11 DEF DiagnosisNext, DiagnosisClicks, DiagnosisAnswers

(***************************************************************************)
(* The interview bank, the fit page, the tailored resume, the directory.    *)
(***************************************************************************)
\* A session that begins with an answer out is crossed; any other awaits its own answers.
LEMMA BankStep == ASSUME BankInv, BankNext PROVE BankInv'
<1>. USE DEF Set, Tap
<1>0. /\ {"session", "submitting", "evaluated", "of", "crossed"} \subseteq DOMAIN s
      /\ s.session # 0 /\ ~s.crossed =>
           s.submitting \in {0, s.session} /\ (s.evaluated > 0 => s.of = s.session)
  BY DEF BankInv
<1>1. ASSUME PickMode \/ handleStartBank \/ TypeBankAnswer \/ handleNextQuestion \/ handleEndBank \/ BankStartFails
             \/ BankCompletes \/ BankCompleteFails
      PROVE  BankInv'
  <2>1. DOMAIN s' = DOMAIN s /\ UNCHANGED <<s.session, s.submitting, s.evaluated, s.of, s.crossed>>
    BY <1>0, <1>1 DEF PickMode, handleStartBank, TypeBankAnswer, handleNextQuestion, handleEndBank, BankStartFails,
                      BankCompletes, BankCompleteFails
  <2>. QED
    BY <1>0, <2>1 DEF BankInv
<1>2. CASE handleSubmitAnswer \/ EvaluationFails
  <2>1. /\ DOMAIN s' = DOMAIN s /\ UNCHANGED <<s.session, s.evaluated, s.of, s.crossed>>
        /\ s'.submitting \in {0, s.session}
    BY <1>0, <1>2 DEF handleSubmitAnswer, EvaluationFails
  <2>. QED
    BY <1>0, <2>1 DEF BankInv
<1>3. CASE BankStarts
  <2>1. DOMAIN s' = DOMAIN s /\ s'.submitting = s.submitting /\ s'.evaluated = 0 /\ s'.crossed = (s.submitting # 0)
    BY <1>0, <1>3 DEF BankStarts
  <2>2. ~s'.crossed => s'.submitting = 0
    BY <2>1
  <2>3. ~(s'.evaluated > 0)
    BY <2>1
  <2>. QED
    BY <1>0, <2>1, <2>2, <2>3 DEF BankInv
<1>4. CASE handleResetBank
  <2>1. DOMAIN s' = DOMAIN s /\ s'.session = 0
    BY <1>0, <1>4 DEF handleResetBank
  <2>. QED
    BY <1>0, <2>1 DEF BankInv
<1>5. CASE SwitchTab
  BY <1>5 DEF SwitchTab, BankTab, BankInv
<1>6. ASSUME NEW more \in BOOLEAN, EvaluationLands(more) PROVE BankInv'
  <2>1. DOMAIN s' = DOMAIN s /\ s'.session = s.session /\ s'.submitting = 0
    BY <1>0, <1>6 DEF EvaluationLands
  <2>2. s.session # 0 => s'.of = s.submitting /\ s'.crossed = (s.crossed /\ s.submitting # s.session) /\ s.submitting # 0
    BY <1>0, <1>6 DEF EvaluationLands
  <2>. QED
    BY <1>0, <2>1, <2>2 DEF BankInv
<1>. QED
  BY <1>1, <1>2, <1>3, <1>4, <1>5, <1>6 DEF BankNext, BankClicks, BankAnswers

\* What is awaited is of the item before and after: loading an item forgets both.
LEMMA JdFitStep == ASSUME JdFitInv, JdFitNext PROVE JdFitInv'
<1>. USE DEF Set, Tap
<1>. DEFINE Of(m, item) == {"pending", "of", "data"} \subseteq DOMAIN m /\ (m.pending \/ m.data => m.of = item)
<1>0. {"fit", "plan", "item"} \subseteq DOMAIN s /\ Of(s.fit, s.item) /\ Of(s.plan, s.item)
  BY DEF JdFitInv
<1>1. ASSUME DOMAIN s' = DOMAIN s, Of(s'.fit, s'.item), Of(s'.plan, s'.item) PROVE JdFitInv'
  BY <1>0, <1>1 DEF JdFitInv
<1>2. DOMAIN NoFit = {"pending", "of", "data", "actions", "error"} /\ ~NoFit.pending /\ ~NoFit.data
  BY DEF NoFit
<1>3. ASSUME EditFitText \/ handleSave \/ DeleteJd \/ handleAddToStudyPlan \/ StudyPlanTimer
             \/ SaveServed \/ SaveLands \/ SaveFails \/ DeleteServed \/ DeleteLands \/ DeleteFails
             \/ LibraryServed \/ LibraryLands \/ LibraryFails
      PROVE  JdFitInv'
  <2>1. DOMAIN s' = DOMAIN s /\ s'.fit = s.fit /\ s'.plan = s.plan /\ s'.item = s.item
    BY <1>0, <1>3 DEF EditFitText, handleSave, DeleteJd, handleAddToStudyPlan, StudyPlanTimer,
                      SaveServed, SaveLands, SaveFails, DeleteServed, DeleteLands, DeleteFails,
                      LibraryServed, LibraryLands, LibraryFails
  <2>. QED
    BY <1>0, <1>1, <2>1
<1>4. CASE handleLoad
  <2>1. DOMAIN s' = DOMAIN s /\ s'.fit = NoFit /\ s'.plan = NoFit
    BY <1>0, <1>4 DEF handleLoad
  <2>. QED
    BY <1>1, <1>2, <2>1
<1>. DEFINE asked == [NoFit EXCEPT !.pending = TRUE, !.of = s.item]
<1>5. Of(asked, s.item)
  BY <1>2 DEF NoFit
<1>6. CASE analyze
  <2>1. DOMAIN s' = DOMAIN s /\ s'.fit = asked /\ s'.plan = s.plan /\ s'.item = s.item
    BY <1>0, <1>6 DEF analyze
  <2>. HIDE DEF asked
  <2>. QED
    BY <1>0, <1>1, <1>5, <2>1
<1>7. CASE LearningPlan
  <2>1. DOMAIN s' = DOMAIN s /\ s'.plan = asked /\ s'.fit = s.fit /\ s'.item = s.item
    BY <1>0, <1>7 DEF LearningPlan
  <2>. HIDE DEF asked
  <2>. QED
    BY <1>0, <1>1, <1>5, <2>1
<1>8. ASSUME NEW actions \in BOOLEAN, FitLands(actions) PROVE JdFitInv'
  <2>1. /\ DOMAIN s' = DOMAIN s /\ DOMAIN s'.fit = DOMAIN s.fit /\ s'.plan = s.plan /\ s'.item = s.item
        /\ s.fit.pending /\ s'.fit.of = s.fit.of
    BY <1>0, <1>8 DEF FitLands
  <2>. QED
    BY <1>0, <1>1, <2>1
<1>9. CASE FitFails
  <2>1. /\ DOMAIN s' = DOMAIN s /\ DOMAIN s'.fit = DOMAIN s.fit /\ s'.plan = s.plan /\ s'.item = s.item
        /\ s.fit.pending /\ s'.fit.of = s.fit.of
    BY <1>0, <1>9 DEF FitFails
  <2>. QED
    BY <1>0, <1>1, <2>1
<1>10. ASSUME PlanLands \/ PlanFails PROVE JdFitInv'
  <2>1. /\ DOMAIN s' = DOMAIN s /\ DOMAIN s'.plan = DOMAIN s.plan /\ s'.fit = s.fit /\ s'.item = s.item
        /\ s.plan.pending /\ s'.plan.of = s.plan.of
    <3>1. CASE PlanLands
      BY <1>0, <3>1 DEF PlanLands
    <3>2. CASE PlanFails
      BY <1>0, <3>2 DEF PlanFails
    <3>. QED
      BY <1>10, <3>1, <3>2
  <2>. QED
    BY <1>0, <1>1, <2>1
<1>. QED
  BY <1>3, <1>4, <1>6, <1>7, <1>8, <1>9, <1>10 DEF JdFitNext, JdFitClicks, JdFitAnswers

\* Nothing moves the modal on while a description is read or a resume generated, except their answers.
LEMMA IntakeStep == ASSUME IntakeInv, IntakeNext PROVE IntakeInv'
<1>. USE DEF Set, Tick, At, Step
<1>0. /\ {"open", "modal", "reading", "generating"} \subseteq DOMAIN s /\ "step" \in DOMAIN s.modal
      /\ s.reading # 0 => s.modal.step = "jd"
      /\ s.generating # 0 => s.open /\ s.modal.step = "generating"
  BY DEF IntakeInv
<1>1. ASSUME DOMAIN s' = DOMAIN s, "step" \in DOMAIN s'.modal, s'.reading # 0 => s'.modal.step = "jd",
             s'.generating # 0 => s'.open /\ s'.modal.step = "generating"
      PROVE  IntakeInv'
  BY <1>0, <1>1 DEF IntakeInv
<1>2. CASE OpenModal
  BY <1>0, <1>1, <1>2 DEF OpenModal
<1>3. CASE onClose
  <2>1. DOMAIN s' = DOMAIN s /\ s'.modal = Closed /\ s'.reading = s.reading /\ s'.generating = s.generating /\ CanClose
    BY <1>0, <1>3 DEF onClose
  <2>2. Closed.step = "jd" /\ "step" \in DOMAIN Closed
    BY DEF Closed
  <2>3. s.generating = 0
    BY <1>0, <2>1 DEF CanClose
  <2>. QED
    BY <1>1, <2>1, <2>2, <2>3
<1>4. ASSUME EditJd \/ handleJdSubmit \/ Override \/ updateAnswer PROVE IntakeInv'
  <2>1. /\ DOMAIN s' = DOMAIN s /\ s'.open = s.open /\ DOMAIN s'.modal = DOMAIN s.modal /\ s'.modal.step = s.modal.step
        /\ s'.generating = s.generating /\ (s'.reading = s.reading \/ s.modal.step = "jd")
    <3>1. CASE EditJd
      BY <1>0, <3>1 DEF EditJd
    <3>2. CASE handleJdSubmit
      BY <1>0, <3>2 DEF handleJdSubmit
    <3>3. CASE Override
      BY <1>0, <3>3 DEF Override
    <3>4. CASE updateAnswer
      BY <1>0, <3>4 DEF updateAnswer
    <3>. QED
      BY <1>4, <3>1, <3>2, <3>3, <3>4
  <2>. QED
    BY <1>0, <1>1, <2>1
<1>5. ASSUME handleQuestionsSubmit \/ StepBack PROVE IntakeInv'
  <2>1. /\ DOMAIN s' = DOMAIN s /\ DOMAIN s'.modal = DOMAIN s.modal /\ s'.generating = s.generating /\ s'.reading = s.reading
        /\ s.modal.step \in {"questions", "error", "review"}
    <3>1. CASE handleQuestionsSubmit
      BY <1>0, <3>1 DEF handleQuestionsSubmit
    <3>2. CASE StepBack
      <4>. DEFINE Back(from, to) == s.modal.step = from /\ s' = [[s EXCEPT !.acts = @ + 1] EXCEPT !.modal.step = to]
      <4>1. Back("questions", "jd") \/ Back("error", "jd") \/ Back("review", "questions")
        BY <3>2 DEF StepBack
      <4>2. ASSUME NEW from, NEW to, Back(from, to)
            PROVE  /\ DOMAIN s' = DOMAIN s /\ DOMAIN s'.modal = DOMAIN s.modal
                   /\ s'.generating = s.generating /\ s'.reading = s.reading
        BY <1>0, <4>2
      <4>. QED
        BY <4>1, <4>2
    <3>. QED
      BY <1>5, <3>1, <3>2
  <2>2. s'.generating = 0 /\ s'.reading = 0
    BY <1>0, <2>1
  <2>. QED
    BY <1>0, <1>1, <2>1, <2>2
<1>6. CASE handleGenerate
  <2>1. /\ DOMAIN s' = DOMAIN s /\ DOMAIN s'.modal = DOMAIN s.modal /\ s'.reading = s.reading /\ s'.open = s.open
        /\ s.open /\ s.modal.step = "review" /\ s'.modal.step = "generating"
    BY <1>0, <1>6 DEF handleGenerate
  <2>2. s'.reading = 0
    BY <1>0, <2>1
  <2>. QED
    BY <1>0, <1>1, <2>1, <2>2
<1>7. ASSUME NEW gate \in BOOLEAN, IntakeLands(gate) PROVE IntakeInv'
  <2>1. /\ DOMAIN s' = DOMAIN s /\ DOMAIN s'.modal = DOMAIN s.modal /\ s'.reading = 0 /\ s'.generating = s.generating
        /\ s.reading # 0
    BY <1>0, <1>7 DEF IntakeLands
  <2>2. s'.generating = 0
    BY <1>0, <2>1
  <2>. QED
    BY <1>0, <1>1, <2>1, <2>2
<1>8. CASE IntakeFails
  <2>1. /\ DOMAIN s' = DOMAIN s /\ DOMAIN s'.modal = DOMAIN s.modal /\ s'.reading = 0 /\ s'.generating = s.generating
        /\ s.reading # 0
    BY <1>0, <1>8 DEF IntakeFails
  <2>2. s'.generating = 0
    BY <1>0, <2>1
  <2>. QED
    BY <1>0, <1>1, <2>1, <2>2
<1>9. ASSUME GenerateLands \/ GenerateFails PROVE IntakeInv'
  <2>1. /\ DOMAIN s' = DOMAIN s /\ DOMAIN s'.modal = DOMAIN s.modal /\ s'.reading = s.reading /\ s'.generating = 0
        /\ s.generating # 0
    <3>1. CASE GenerateLands
      BY <1>0, <3>1 DEF GenerateLands
    <3>2. CASE GenerateFails
      BY <1>0, <3>2 DEF GenerateFails
    <3>. QED
      BY <1>9, <3>1, <3>2
  <2>2. s'.reading = 0
    BY <1>0, <2>1
  <2>. QED
    BY <1>0, <1>1, <2>1, <2>2
<1>. QED
  BY <1>2, <1>3, <1>4, <1>5, <1>6, <1>7, <1>8, <1>9 DEF IntakeNext, IntakeClicks, IntakeAnswers

\* Every key stroke restarts the pause, at the end of which the text is the one that is listed.
LEMMA DirectoryStep == ASSUME DirectoryInv, DirectoryNext PROVE DirectoryInv'
<1>. USE DEF Set, Worked
<1>0. /\ {"search", "timer", "debounced", "lists"} \subseteq DOMAIN s
      /\ s.search = IF s.timer = NoTimer THEN s.debounced ELSE s.timer
  BY DEF DirectoryInv
<1>1. ASSUME NEW text \in 0 .. 3, TypeSearch(text) PROVE DirectoryInv'
  <2>1. DOMAIN s' = DOMAIN s /\ s'.search = text /\ s'.timer = text /\ text # NoTimer
    BY <1>0, <1>1 DEF TypeSearch, NoTimer
  <2>. QED
    BY <1>0, <2>1 DEF DirectoryInv
<1>2. CASE SearchPauses
  <2>1. DOMAIN s' = DOMAIN s /\ s'.search = s.search /\ s'.timer = NoTimer /\ s'.debounced = s.timer /\ s.timer # NoTimer
    BY <1>0, <1>2 DEF SearchPauses
  <2>. QED
    BY <1>0, <2>1 DEF DirectoryInv
<1>3. ASSUME NEW key \in {0, 1, 3}, NEW answer \in {"found", "failed"}, DirectoryLands(key, answer) PROVE DirectoryInv'
  <2>1. DOMAIN s' = DOMAIN s /\ s'.search = s.search /\ s'.timer = s.timer /\ s'.debounced = s.debounced
    BY <1>0, <1>3 DEF DirectoryLands
  <2>. QED
    BY <1>0, <2>1 DEF DirectoryInv
<1>. QED
  BY <1>1, <1>2, <1>3 DEF DirectoryNext, DirectoryAnswers

(***************************************************************************)
(* The actions of a reply and the lesson page.                             *)
(***************************************************************************)
\* The only call there is, changed.
LEMMA OneCall == ASSUME NEW x, NEW y PROVE [<<x>> EXCEPT ![1] = y] = <<y>>
<1>. DEFINE t == [<<x>> EXCEPT ![1] = y]
<1>1. t \in Seq({x, y}) /\ Len(t) = 1 /\ t[1] = y
  <2>1. <<x>> \in Seq({x, y}) /\ Len(<<x>>) = 1 /\ 1 \in DOMAIN <<x>>
    OBVIOUS
  <2>. QED
    BY <2>1
<1>2. <<y>> \in Seq({x, y}) /\ Len(<<y>>) = 1 /\ <<y>>[1] = y
  OBVIOUS
<1>. HIDE DEF t
<1>3. \A i \in 1 .. Len(t) : t[i] = <<y>>[i]
  BY <1>1, <1>2
<1>4. t = <<y>>
  BY <1>1, <1>2, <1>3, SeqEqual
<1>. QED
  BY <1>4 DEF t

\* Every step of the actions of a reply keeps their invariant.
LEMMA ReplyStep == ASSUME ReplyInv, ReplyNext PROVE ReplyInv'
<1>. USE DEF Set, Acted
<1>. DEFINE Watched == s.mount = 1 /\ ~s.lost
            Call(r, served) == [rating |-> r, mount |-> 1, row |-> 1, served |-> served]
            Rests == s.submitting = FALSE /\ s.ratings = <<>> /\ s.rating = s.stored
            Sends(r, served) == /\ s.submitting = TRUE /\ s.ratings = <<Call(r, served)>>
                                /\ s.stored = IF served THEN r ELSE s.rating
            OnItsWay == \E r \in {"up", "down"}, served \in BOOLEAN : Sends(r, served)
            Fields == {"mount", "row", "ratings", "rating", "stored", "submitting", "lost"}
<1>0. /\ Fields \subseteq DOMAIN s /\ s.mount \in Nat \ {0}
      /\ Watched => s.row = 1 /\ (Rests \/ OnItsWay)
  BY DEF ReplyInv
<1>1. ASSUME DOMAIN s' = DOMAIN s, s'.mount \in Nat \ {0}, Watched' => s'.row = 1 /\ (Rests' \/ OnItsWay') PROVE ReplyInv'
  BY <1>0, <1>1 DEF ReplyInv
<1>. HIDE DEF Fields
<1>2. ASSUME DOMAIN s' = DOMAIN s, UNCHANGED <<s.mount, s.row, s.ratings, s.rating, s.stored, s.submitting, s.lost>>
      PROVE  ReplyInv'
  BY <1>0, <1>1, <1>2
<1>3. ASSUME Copy \/ CopyTimer \/ addFlashcards \/ CardsLand \/ CardsFail \/ handleSaveToNotebook \/ NoteLands \/ NoteFails
      PROVE  ReplyInv'
  BY <1>0, <1>2, <1>3 DEF Fields, Copy, CopyTimer, addFlashcards, CardsLand, CardsFail, handleSaveToNotebook, NoteLands, NoteFails
<1>4. ASSUME ToggleExplain \/ RegenText \/ RegenFailed \/ handleThumbsDownClick \/ toggleReason \/ ClosePopover
             \/ \E fromMenu \in BOOLEAN : Regenerates(fromMenu)
      PROVE  ReplyInv'
  BY <1>0, <1>2, <1>4 DEF Fields, ToggleExplain, RegenText, RegenFailed, handleThumbsDownClick, toggleReason, ClosePopover, Regenerates
<1>5. ASSUME RegenBlank \/ RegenStored PROVE ReplyInv'
  <2>1. DOMAIN s' = DOMAIN s /\ s'.mount = s.mount + 1
    BY <1>0, <1>5 DEF RegenBlank, RegenStored, ActionsMount, Fields
  <2>2. s'.mount \in Nat \ {0} /\ ~Watched'
    BY <1>0, <2>1
  <2>. QED
    BY <1>1, <2>1, <2>2
<1>6. ASSUME NEW r \in {"up", "down"}, ~s.submitting, s' = SendRating(Acted, r) PROVE ReplyInv'
  <2>1. /\ DOMAIN s' = DOMAIN s /\ UNCHANGED <<s.mount, s.row, s.rating, s.stored, s.lost>> /\ s'.submitting = TRUE
        /\ s'.ratings = Append(s.ratings, [rating |-> r, mount |-> s.mount, row |-> s.row, served |-> FALSE])
    BY <1>0, <1>6 DEF SendRating, Fields
  <2>2. ASSUME Watched PROVE s'.row = 1 /\ Sends(r, FALSE)'
    <3>1. s.row = 1 /\ Rests
      BY <1>0, <1>6, <2>2
    <3>2. s'.ratings = Append(<<>>, Call(r, FALSE))
      BY <2>1, <2>2, <3>1
    <3>. HIDE DEF Call
    <3>3. Append(<<>>, Call(r, FALSE)) = <<Call(r, FALSE)>>
      OBVIOUS
    <3>4. s'.stored = s'.rating
      BY <2>1, <3>1
    <3>. QED
      BY <2>1, <3>1, <3>2, <3>3, <3>4 DEF Call
  <2>. QED
    BY <1>0, <1>1, <2>1, <2>2
<1>7. ASSUME handleThumbsUp \/ handleSubmitDown PROVE ReplyInv'
  BY <1>6, <1>7 DEF handleThumbsUp, handleSubmitDown
<1>8. ASSUME NEW r, NEW served, NEW i \in DOMAIN s.ratings, s.ratings = <<Call(r, served)>>
      PROVE  i = 1 /\ s.ratings[i] = Call(r, served) /\ Seqs!RemoveAt(s.ratings, i) = <<>>
  <2>. HIDE DEF Call
  <2>1. i = 1 /\ s.ratings[i] = Call(r, served) /\ Len(s.ratings) = 1
    BY <1>8
  <2>2. SubSeq(s.ratings, 1, 0) = <<>> /\ SubSeq(s.ratings, 2, 1) = <<>>
    BY <1>8
  <2>3. Seqs!RemoveAt(s.ratings, i) = <<>> \o <<>>
    BY <2>1, <2>2 DEF Seqs!RemoveAt
  <2>. QED
    BY <2>1, <2>3
<1>9. ASSUME NEW i \in DOMAIN s.ratings, RatingServed(i) PROVE ReplyInv'
  <2>. DEFINE call == s.ratings[i]
  <2>1. /\ DOMAIN s' = DOMAIN s /\ UNCHANGED <<s.mount, s.row, s.rating, s.submitting, s.lost>> /\ ~call.served
        /\ s'.ratings = [s.ratings EXCEPT ![i] = [call EXCEPT !.served = TRUE]]
        /\ s'.stored = IF call.row = s.row THEN call.rating ELSE s.stored
    BY <1>0, <1>9 DEF RatingServed, Fields
  <2>2. ASSUME Watched PROVE s'.row = 1 /\ OnItsWay'
    <3>1. s.row = 1 /\ s.ratings # <<>>
      BY <1>0, <1>9, <2>2
    <3>2. PICK r \in {"up", "down"}, served \in BOOLEAN : Sends(r, served)
      BY <1>0, <2>2, <3>1
    <3>3. i = 1 /\ call = Call(r, served)
      BY <1>8, <3>2
    <3>4. call.rating = r /\ call.row = 1 /\ s'.stored = r
      <4>1. call.rating = r /\ call.row = 1
        BY <3>3
      <4>. QED
        BY <2>1, <3>1, <4>1
    <3>5. \A b : [call EXCEPT !.served = b] = Call(r, b)
      BY <3>3
    <3>. HIDE DEF Call
    <3>6. [call EXCEPT !.served = TRUE] = Call(r, TRUE) /\ i = 1 /\ s.ratings = <<call>>
      BY <3>2, <3>3, <3>5, Zenon
    <3>. HIDE DEF call
    <3>7. s'.ratings = <<Call(r, TRUE)>>
      <4>1. s'.ratings = [<<call>> EXCEPT ![1] = Call(r, TRUE)]
        BY <2>1, <3>6, Zenon
      <4>. QED
        BY <4>1, OneCall
    <3>8. s'.submitting = TRUE /\ s'.row = 1
      BY <2>1, <3>1, <3>2
    <3>. QED
      BY <3>4, <3>7, <3>8 DEF Call
  <2>. QED
    BY <1>0, <1>1, <2>1, <2>2
<1>10. ASSUME NEW i \in DOMAIN s.ratings, NEW rating, NEW lost, RatingAnswered(i, rating, lost),
              \/ rating = s.ratings[i].rating /\ lost = FALSE /\ s.ratings[i].served
              \/ rating = "none" /\ lost = s.ratings[i].served
       PROVE  ReplyInv'
  <2>. DEFINE call == s.ratings[i]
  <2>1. /\ DOMAIN s' = DOMAIN s /\ UNCHANGED <<s.mount, s.row, s.stored>>
        /\ s'.ratings = Seqs!RemoveAt(s.ratings, i)
        /\ s'.lost = (s.lost \/ lost)
        /\ s'.rating = IF call.row = s.row /\ rating # "none" THEN rating ELSE s.rating
        /\ s'.submitting = (s.submitting /\ ~(call.mount = s.mount))
    BY <1>0, <1>10 DEF RatingAnswered, Fields
  <2>2. ASSUME Watched' PROVE s'.row = 1 /\ Rests'
    <3>1. Watched /\ ~lost
      BY <2>1, <2>2
    <3>2. s.ratings # <<>> /\ s.row = 1 /\ s.mount = 1
      BY <1>0, <1>10, <3>1
    <3>3. PICK r \in {"up", "down"}, served \in BOOLEAN : Sends(r, served)
      BY <1>0, <3>1, <3>2
    <3>4. call = Call(r, served) /\ s'.ratings = <<>>
      BY <1>8, <2>1, <3>3
    <3>5. call.rating = r /\ call.served = served /\ call.mount = 1 /\ call.row = 1
      BY <3>4
    <3>6. s'.submitting = FALSE
      BY <2>1, <3>2, <3>5
    <3>7. s'.rating = s'.stored
      BY <1>10, <2>1, <3>1, <3>2, <3>3, <3>5
    <3>. QED
      BY <2>1, <3>2, <3>4, <3>6, <3>7
  <2>. QED
    BY <1>0, <1>1, <2>1, <2>2
<1>11. ASSUME NEW i \in DOMAIN s.ratings, RatingLands(i) \/ RatingFails(i) PROVE ReplyInv'
  BY <1>10, <1>11 DEF RatingLands, RatingFails
<1>. QED
  BY <1>3, <1>4, <1>5, <1>7, <1>9, <1>11 DEF ReplyNext, ReplyClicks, ReplyAnswers

\* The quiz of a lesson lives beside what is known of its completion.
LEMMA MountsQuiz ==
  ASSUME NEW st
  PROVE  /\ DOMAIN Mounts(st) = DOMAIN st
         /\ \A f \in DOMAIN st \ {"quiz"} : Mounts(st)[f] = st[f]
BY DEF Mounts

\* Every step of the lesson page keeps its invariant.
LEMMA LessonStep == ASSUME LessonInv, LessonNext PROVE LessonInv'
<1>. USE DEF Set, Pressed
<1>. DEFINE Fields == {"stored", "read", "progress", "completed", "completing", "uncompleting", "lost", "crossed"}
            Domains == /\ Fields \subseteq DOMAIN s
                       /\ s.stored \in BOOLEAN /\ s.completed \in {"unset", "yes", "no"}
                       /\ s.progress \in {"unknown", "done", "todo"} /\ s.read \in {"no", "sent", "done", "todo"}
                       /\ {s.completing, s.uncompleting} \subseteq {"no", "sent", "served"}
            Agreed == /\ "no" \in {s.completing, s.uncompleting}
                      /\ s.completing = "served" => s.stored
                      /\ s.uncompleting = "served" => ~s.stored
                      /\ "served" \notin {s.completing, s.uncompleting} =>
                           IF s.completed = "unset" THEN Known(s.read, s.stored) /\ Known(s.progress, s.stored)
                           ELSE s.completed = IF s.stored THEN "yes" ELSE "no"
            Calm == ~s.lost /\ ~s.crossed
<1>0. Domains /\ (Calm => Agreed)
  BY DEF LessonInv
<1>1. ASSUME Domains', Calm' => Agreed' PROVE LessonInv'
  BY <1>1 DEF LessonInv
<1>2. ASSUME DOMAIN s' = DOMAIN s, \A f \in Fields : s'[f] = s[f] PROVE LessonInv'
  <2>1. UNCHANGED <<s.stored, s.read, s.progress, s.completed, s.completing, s.uncompleting, s.lost, s.crossed>>
    BY <1>2
  <2>. QED
    BY <1>0, <1>1, <1>2, <2>1
<1>3. ASSUME NEW answer, LessonLands(answer) PROVE LessonInv'
  <2>. DEFINE st == [s EXCEPT !.lesson = answer]
  <2>1. s' = Mounts(st) /\ DOMAIN st = DOMAIN s /\ \A f \in Fields : st[f] = s[f]
    BY <1>0, <1>3 DEF LessonLands
  <2>. HIDE DEF st
  <2>. QED
    BY <1>0, <1>2, <2>1, MountsQuiz
<1>4. ASSUME \/ LeaveLesson \/ handleSubmitRecall \/ RecallFails \/ RecallGraded \/ RecallNotGraded
             \/ (\E q \in Recalled : Recall(q)) \/ (\E some \in BOOLEAN : RecallLands(some))
             \/ \E n \in {1, 3}, i \in 1..2 : SiblingsLand(n, i)
      PROVE  LessonInv'
  BY <1>0, <1>2, <1>4 DEF LeaveLesson, handleSubmitRecall, RecallFails, RecallGraded, RecallNotGraded, Recall, RecallLands, SiblingsLand
<1>5. CASE ProgressServed
  <2>1. /\ DOMAIN s' = DOMAIN s /\ UNCHANGED <<s.stored, s.progress, s.completed, s.completing, s.uncompleting, s.lost, s.crossed>>
        /\ s'.read = IF s.stored THEN "done" ELSE "todo"
    BY <1>0, <1>5 DEF ProgressServed
  <2>. QED
    BY <1>0, <1>1, <2>1 DEF Known
<1>6. CASE ProgressRead
  <2>. DEFINE st == [s EXCEPT !.read = "no", !.progress = s.read]
  <2>1. /\ s' = Mounts(st) /\ DOMAIN st = DOMAIN s /\ s.read \in {"done", "todo"} /\ st.read = "no" /\ st.progress = s.read
        /\ st.stored = s.stored /\ st.completed = s.completed /\ st.completing = s.completing
        /\ st.uncompleting = s.uncompleting /\ st.lost = s.lost /\ st.crossed = s.crossed
    BY <1>0, <1>6 DEF ProgressRead
  <2>. HIDE DEF st
  <2>2. /\ DOMAIN s' = DOMAIN s /\ UNCHANGED <<s.stored, s.completed, s.completing, s.uncompleting, s.lost, s.crossed>>
        /\ s'.read = "no" /\ s'.progress = s.read
    BY <1>0, <2>1, MountsQuiz
  <2>. QED
    BY <1>0, <1>1, <2>1, <2>2 DEF Known
<1>7. CASE ProgressFails
  <2>1. /\ DOMAIN s' = DOMAIN s /\ UNCHANGED <<s.stored, s.progress, s.completed, s.completing, s.uncompleting, s.lost, s.crossed>>
        /\ s'.read = "no"
    BY <1>0, <1>7 DEF ProgressFails
  <2>. QED
    BY <1>0, <1>1, <2>1 DEF Known
<1>8. CASE handleComplete
  <2>1. /\ DOMAIN s' = DOMAIN s /\ UNCHANGED <<s.stored, s.read, s.progress, s.completed, s.uncompleting, s.lost>>
        /\ s.completing = "no" /\ s'.completing = "sent" /\ s'.crossed = (s.crossed \/ s.uncompleting # "no")
    BY <1>0, <1>8 DEF handleComplete, CompleteOffered
  <2>. QED
    BY <1>0, <1>1, <2>1
<1>9. CASE handleUncomplete
  <2>1. /\ DOMAIN s' = DOMAIN s /\ UNCHANGED <<s.stored, s.read, s.progress, s.completed, s.completing, s.lost>>
        /\ s.uncompleting = "no" /\ s'.uncompleting = "sent" /\ s'.crossed = (s.crossed \/ s.completing # "no")
    BY <1>0, <1>9 DEF handleUncomplete, UncompleteOffered
  <2>. QED
    BY <1>0, <1>1, <2>1
<1>10. CASE CompleteServed
  <2>1. /\ DOMAIN s' = DOMAIN s /\ UNCHANGED <<s.read, s.progress, s.completed, s.uncompleting, s.lost, s.crossed>>
        /\ s.completing = "sent" /\ s'.completing = "served" /\ s'.stored = TRUE
    BY <1>0, <1>10 DEF CompleteServed
  <2>. QED
    BY <1>0, <1>1, <2>1
<1>11. CASE UncompleteServed
  <2>1. /\ DOMAIN s' = DOMAIN s /\ UNCHANGED <<s.read, s.progress, s.completed, s.completing, s.lost, s.crossed>>
        /\ s.uncompleting = "sent" /\ s'.uncompleting = "served" /\ s'.stored = FALSE
    BY <1>0, <1>11 DEF UncompleteServed
  <2>. QED
    BY <1>0, <1>1, <2>1
<1>12. ASSUME NEW known PROVE Refetch(s.read, known) \in {"no", "sent", "done", "todo"}
  BY <1>0 DEF Refetch
<1>13. CASE CompleteLands
  <2>. DEFINE st == [s EXCEPT !.completing = "no", !.completed = "yes", !.read = Refetch(s.read, s.progress # "unknown")]
  <2>1. /\ s' = Mounts(st) /\ DOMAIN st = DOMAIN s /\ s.completing = "served" /\ st.completing = "no" /\ st.completed = "yes"
        /\ st.read = Refetch(s.read, s.progress # "unknown") /\ st.stored = s.stored /\ st.progress = s.progress
        /\ st.uncompleting = s.uncompleting /\ st.lost = s.lost /\ st.crossed = s.crossed
    BY <1>0, <1>13 DEF CompleteLands
  <2>. HIDE DEF st
  <2>2. /\ DOMAIN s' = DOMAIN s /\ UNCHANGED <<s.stored, s.progress, s.uncompleting, s.lost, s.crossed>>
        /\ s'.completing = "no" /\ s'.completed = "yes" /\ s'.read \in {"no", "sent", "done", "todo"}
    BY <1>0, <1>12, <2>1, MountsQuiz
  <2>. QED
    BY <1>0, <1>1, <2>1, <2>2
<1>14. CASE UncompleteLands
  <2>. DEFINE st == [s EXCEPT !.uncompleting = "no", !.completed = "no", !.read = Refetch(s.read, s.progress # "unknown")]
  <2>1. /\ s' = Mounts(st) /\ DOMAIN st = DOMAIN s /\ s.uncompleting = "served" /\ st.uncompleting = "no" /\ st.completed = "no"
        /\ st.read = Refetch(s.read, s.progress # "unknown") /\ st.stored = s.stored /\ st.progress = s.progress
        /\ st.completing = s.completing /\ st.lost = s.lost /\ st.crossed = s.crossed
    BY <1>0, <1>14 DEF UncompleteLands
  <2>. HIDE DEF st
  <2>2. /\ DOMAIN s' = DOMAIN s /\ UNCHANGED <<s.stored, s.progress, s.completing, s.lost, s.crossed>>
        /\ s'.uncompleting = "no" /\ s'.completed = "no" /\ s'.read \in {"no", "sent", "done", "todo"}
    BY <1>0, <1>12, <2>1, MountsQuiz
  <2>. QED
    BY <1>0, <1>1, <2>1, <2>2
<1>15. CASE CompleteFails
  <2>1. /\ DOMAIN s' = DOMAIN s /\ UNCHANGED <<s.stored, s.read, s.progress, s.completed, s.uncompleting, s.crossed>>
        /\ s.completing # "no" /\ s'.completing = "no" /\ s'.lost = (s.lost \/ s.completing = "served")
    BY <1>0, <1>15 DEF CompleteFails
  <2>. QED
    BY <1>0, <1>1, <2>1
<1>16. CASE UncompleteFails
  <2>1. /\ DOMAIN s' = DOMAIN s /\ UNCHANGED <<s.stored, s.read, s.progress, s.completed, s.completing, s.crossed>>
        /\ s.uncompleting # "no" /\ s'.uncompleting = "no" /\ s'.lost = (s.lost \/ s.uncompleting = "served")
    BY <1>0, <1>16 DEF UncompleteFails
  <2>. QED
    BY <1>0, <1>1, <2>1
<1>. QED
  BY <1>3, <1>4, <1>5, <1>6, <1>7, <1>8, <1>9, <1>10, <1>11, <1>13, <1>14, <1>15, <1>16 DEF LessonNext, LessonClicks, LessonAnswers

(***************************************************************************)
(* The boards, the drilldown and the triage.                               *)
(***************************************************************************)
\* Two fields of a query, given anew.
LEMMA FieldsGiven ==
  ASSUME NEW data, NEW error, NEW fetching, NEW e, NEW f
  PROVE  [[data |-> data, error |-> error, fetching |-> fetching] EXCEPT !.fetching = f, !.error = e]
           = [data |-> data, error |-> e, fetching |-> f]
<1>. DEFINE q == [data |-> data, error |-> error, fetching |-> fetching]
<1>1. [q EXCEPT !.fetching = f] = [data |-> data, error |-> error, fetching |-> f]
  OBVIOUS
<1>2. [[data |-> data, error |-> error, fetching |-> f] EXCEPT !.error = e] = [data |-> data, error |-> e, fetching |-> f]
  OBVIOUS
<1>. QED
  BY <1>1, <1>2, Zenon

\* A tab that is read at once.
LEMMA ReadAtOnce ==
  ASSUME NEW f \in BOOLEAN
  PROVE  [Unfetched EXCEPT !.fetching = f] \in Queries /\ ~[Unfetched EXCEPT !.fetching = f].error
<1>1. Unfetched \in Queries /\ ~Unfetched.error
  BY DEF Unfetched, Queries
<1>2. ASSUME NEW q \in Queries
      PROVE  [q EXCEPT !.fetching = f] \in Queries /\ [q EXCEPT !.fetching = f].error = q.error
  BY DEF Queries
<1>. QED
  BY <1>1, <1>2, Zenon

\* Every step of a board keeps its invariant.
LEMMA BoardStep == ASSUME BoardInv, BoardNext PROVE BoardInv'
<1>. USE DEF Set, Worked
<1>. DEFINE Ok(q) == q.data = "none" => ~(q.error /\ q.fetching)
<1>0. /\ {"page", "tab", "queries"} \subseteq DOMAIN s
      /\ s.page \in {"confusion", "atRisk"} /\ s.tab \in Tabs /\ s.queries \in [Tabs -> Queries]
      /\ \A tab \in Tabs : Ok(s.queries[tab])
  BY DEF BoardInv
<1>1. ASSUME DOMAIN s' = DOMAIN s, s'.page = s.page, s'.tab \in Tabs, NEW tab \in Tabs, NEW q \in Queries, Ok(q),
             s'.queries = [s.queries EXCEPT ![tab] = q]
      PROVE  BoardInv'
  <2>. HIDE DEF Ok
  <2>1. s'.queries \in [Tabs -> Queries] /\ \A other \in Tabs : Ok(s'.queries[other])
    BY <1>0, <1>1
  <2>. QED
    BY <1>0, <1>1, <2>1 DEF BoardInv, Ok
<1>2. ASSUME NEW q \in Queries PROVE Fetch(q) \in Queries /\ Ok(Fetch(q))
  <2>1. PICK data \in {"none", "empty", "some"}, error \in BOOLEAN, fetching \in BOOLEAN :
          q = [data |-> data, error |-> error, fetching |-> fetching]
    BY DEF Queries
  <2>. DEFINE failed == q.error /\ q.data # "none"
  <2>2. q.data = data
    BY <2>1
  <2>3. failed \in BOOLEAN /\ (data = "none" => ~failed)
    BY <2>2
  <2>4. Fetch(q) = [data |-> data, error |-> failed, fetching |-> TRUE]
    <3>1. Fetch(q) = [q EXCEPT !.fetching = TRUE, !.error = failed]
      BY DEF Fetch
    <3>. HIDE DEF failed
    <3>. QED
      BY <2>1, <3>1, FieldsGiven, Zenon
  <2>. HIDE DEF failed
  <2>5. Fetch(q) \in Queries
    <3>1. ASSUME NEW d \in {"none", "empty", "some"}, NEW e \in BOOLEAN
          PROVE  [data |-> d, error |-> e, fetching |-> TRUE] \in Queries
      BY DEF Queries
    <3>. QED
      BY <2>3, <2>4, <3>1, Zenon
  <2>6. Fetch(q).data = data /\ Fetch(q).error = failed
    BY <2>4
  <2>. QED
    BY <2>3, <2>5, <2>6
<1>3. ASSUME NEW tab \in Tabs, NEW stale \in BOOLEAN, SelectBoard(tab, stale) PROVE BoardInv'
  <2>. DEFINE q == IF stale \/ s.queries[tab].data = "none" THEN Fetch(s.queries[tab]) ELSE s.queries[tab]
  <2>1. DOMAIN s' = DOMAIN s /\ s'.page = s.page /\ s'.tab = tab /\ s'.queries = [s.queries EXCEPT ![tab] = q]
    BY <1>0, <1>3 DEF SelectBoard
  <2>2. s.queries[tab] \in Queries /\ Ok(s.queries[tab])
    BY <1>0
  <2>. HIDE DEF Ok
  <2>3. q \in Queries /\ Ok(q)
    BY <1>2, <2>2
  <2>. HIDE DEF q
  <2>. QED
    BY <1>1, <2>1, <2>3
<1>4. CASE RefreshBoard
  <2>. DEFINE q == Fetch(s.queries[s.tab])
  <2>1. DOMAIN s' = DOMAIN s /\ s'.page = s.page /\ s'.tab = s.tab /\ s'.queries = [s.queries EXCEPT ![s.tab] = q]
    BY <1>0, <1>4 DEF RefreshBoard
  <2>2. s.queries[s.tab] \in Queries
    BY <1>0
  <2>. HIDE DEF Ok
  <2>3. q \in Queries /\ Ok(q)
    BY <1>2, <2>2
  <2>. HIDE DEF q
  <2>. QED
    BY <1>0, <1>1, <2>1, <2>3
<1>5. ASSUME NEW tab \in Tabs, NEW some \in BOOLEAN, BoardLands(tab, some) PROVE BoardInv'
  <2>. DEFINE q == [data |-> IF some THEN "some" ELSE "empty", error |-> FALSE, fetching |-> FALSE]
  <2>1. DOMAIN s' = DOMAIN s /\ s'.page = s.page /\ s'.tab = s.tab /\ s'.queries = [s.queries EXCEPT ![tab] = q]
    BY <1>0, <1>5 DEF BoardLands
  <2>2. q \in Queries /\ Ok(q)
    BY DEF Queries
  <2>. HIDE DEF q, Ok
  <2>. QED
    BY <1>0, <1>1, <2>1, <2>2
<1>6. ASSUME NEW tab \in Tabs, BoardFails(tab) PROVE BoardInv'
  <2>. DEFINE q == [s.queries[tab] EXCEPT !.error = TRUE, !.fetching = FALSE]
  <2>1. DOMAIN s' = DOMAIN s /\ s'.page = s.page /\ s'.tab = s.tab /\ s'.queries = [s.queries EXCEPT ![tab] = q]
    BY <1>0, <1>6 DEF BoardFails
  <2>2. s.queries[tab] \in Queries
    BY <1>0
  <2>3. q \in Queries /\ Ok(q)
    BY <2>2 DEF Queries
  <2>. HIDE DEF q, Ok
  <2>. QED
    BY <1>0, <1>1, <2>1, <2>3
<1>. QED
  BY <1>3, <1>4, <1>5, <1>6 DEF BoardNext, BoardAnswers

\* Of a query there is one view at most.
LEMMA OneView ==
  ASSUME NEW query \in Queries, query.data = "none" => ~(query.error /\ query.fetching)
  PROVE  \E view : BoardViews(query) \subseteq {view}
<1>1. \A view \in BoardViews(query) :
        \/ view = "loading" /\ query.fetching /\ query.data = "none"
        \/ view = "failed" /\ query.error
        \/ view \in {"empty", "some"} /\ ~(query.fetching /\ query.data = "none") /\ ~query.error /\ query.data = view
  BY DEF BoardViews
<1>2. CASE query.error
  <2>1. BoardViews(query) \subseteq {"failed"}
    BY <1>1, <1>2
  <2>. QED
    BY <2>1
<1>3. CASE ~query.error /\ query.fetching /\ query.data = "none"
  <2>1. BoardViews(query) \subseteq {"loading"}
    BY <1>1, <1>3
  <2>. QED
    BY <2>1
<1>4. CASE ~query.error /\ ~(query.fetching /\ query.data = "none")
  <2>1. BoardViews(query) \subseteq {query.data}
    BY <1>1, <1>4
  <2>. QED
    BY <2>1
<1>. QED
  BY <1>2, <1>3, <1>4

\* Both lists are those of what was searched, and a board has one view at most.
LEMMA ListsShown ==
  /\ On("directory") /\ DirectoryInv /\ s.timer = NoTimer => ListedStudents \subseteq {Trim(s.search)}
  /\ On("board") /\ BoardInv => Cardinality(ConfusionView \cup AtRiskView) <= 1
<1>1. ASSUME DirectoryInv, s.timer = NoTimer PROVE ListedStudents \subseteq {Trim(s.search)}
  BY <1>1 DEF DirectoryInv, ListedStudents
<1>2. ASSUME BoardInv PROVE Cardinality(ConfusionView \cup AtRiskView) <= 1
  <2>. DEFINE query == s.queries[s.tab]
  <2>1. /\ query \in Queries /\ (query.data = "none" => ~(query.error /\ query.fetching))
        /\ s.page \in {"confusion", "atRisk"}
    BY <1>2 DEF BoardInv
  <2>2. ConfusionView \cup AtRiskView \subseteq BoardViews(query)
    BY DEF ConfusionView, AtRiskView
  <2>. HIDE DEF query
  <2>3. PICK view : BoardViews(query) \subseteq {view}
    BY <2>1, OneView
  <2>4. ConfusionView \cup AtRiskView = {} \/ ConfusionView \cup AtRiskView = {view}
    BY <2>2, <2>3
  <2>5. Cardinality({}) = 0 /\ Cardinality({view}) = 1
    BY FS_EmptySet, FS_Singleton
  <2>. HIDE DEF query
  <2>6. Cardinality(ConfusionView \cup AtRiskView) \in {0, 1}
    BY <2>4, <2>5
  <2>. QED
    BY <2>6
<1>. QED
  BY <1>1, <1>2

\* A run that was answered makes the page read its timeline again.
LEMMA DrilldownStep == ASSUME DrilldownInv, DrilldownNext PROVE DrilldownInv'
<1>. USE DEF Set, Worked
<1>0. /\ {"runs", "timeline", "read", "seen", "failed", "triggered", "owed"} \subseteq DOMAIN s
      /\ s.runs \in Nat /\ s.timeline \in Nat /\ s.seen \in Nat /\ s.owed \in Nat /\ s.owed <= s.runs
      /\ s.read = "served" => s.seen >= s.owed
      /\ s.read = "no" /\ ~s.failed => s.timeline >= s.owed
  BY DEF DrilldownInv
<1>1. CASE TimelineServed
  <2>1. /\ DOMAIN s' = DOMAIN s /\ UNCHANGED <<s.runs, s.timeline, s.failed, s.owed>> /\ s'.read = "served" /\ s'.seen = s.runs
    BY <1>0, <1>1 DEF TimelineServed
  <2>. QED
    BY <1>0, <2>1 DEF DrilldownInv
<1>2. CASE TimelineLands
  <2>1. /\ DOMAIN s' = DOMAIN s /\ UNCHANGED <<s.runs, s.seen, s.owed>> /\ s.read = "served" /\ s'.read = "no"
        /\ s'.timeline = s.seen
    BY <1>0, <1>2 DEF TimelineLands
  <2>. QED
    BY <1>0, <2>1 DEF DrilldownInv
<1>3. CASE TimelineFails
  <2>1. /\ DOMAIN s' = DOMAIN s /\ UNCHANGED <<s.runs, s.seen, s.timeline, s.owed>> /\ s'.read = "no" /\ s'.failed
    BY <1>0, <1>3 DEF TimelineFails
  <2>. QED
    BY <1>0, <2>1 DEF DrilldownInv
<1>4. ASSUME handleTrigger \/ TriggerFails \/ \E agent \in 1 .. 2 : SelectAgent(agent) PROVE DrilldownInv'
  <2>1. DOMAIN s' = DOMAIN s /\ UNCHANGED <<s.runs, s.seen, s.timeline, s.owed, s.read, s.failed>>
    BY <1>0, <1>4 DEF handleTrigger, TriggerFails, SelectAgent
  <2>. QED
    BY <1>0, <2>1 DEF DrilldownInv
<1>5. CASE AgentRuns
  <2>1. DOMAIN s' = DOMAIN s /\ UNCHANGED <<s.seen, s.timeline, s.owed, s.read, s.failed>> /\ s'.runs = s.runs + 1
    BY <1>0, <1>5 DEF AgentRuns
  <2>. QED
    BY <1>0, <2>1 DEF DrilldownInv
<1>6. CASE TriggerLands
  <2>1. /\ DOMAIN s' = DOMAIN s /\ UNCHANGED <<s.runs, s.seen, s.timeline, s.failed>>
        /\ s'.read = Refetch(s.read, s.timeline # Unread)
        /\ s'.owed = IF s.read = "no" \/ s.timeline # Unread THEN s.runs ELSE s.owed
    BY <1>0, <1>6 DEF TriggerLands
  <2>2. CASE s.read = "no" \/ s.timeline # Unread
    <3>1. s'.read = "sent" /\ s'.owed = s.runs
      BY <2>1, <2>2 DEF Refetch
    <3>. QED
      BY <1>0, <2>1, <3>1 DEF DrilldownInv
  <2>3. CASE ~(s.read = "no" \/ s.timeline # Unread)
    <3>1. s'.read = s.read /\ s'.owed = s.owed
      BY <2>1, <2>3 DEF Refetch
    <3>. QED
      BY <1>0, <2>1, <3>1 DEF DrilldownInv
  <2>. QED
    BY <2>2, <2>3
<1>. QED
  BY <1>1, <1>2, <1>3, <1>4, <1>5, <1>6 DEF DrilldownNext, DrilldownAnswers

\* A resolution that was answered makes the page read its list again.
LEMMA TriageStep == ASSUME TriageInv, TriageNext PROVE TriageInv'
<1>. USE DEF Set, Worked
<1>. DEFINE Fields == {"resolved", "items", "known", "read", "seen", "failed", "pending", "owed"}
            Lists == /\ s.owed \subseteq s.resolved
                     /\ s.read = "served" => s.owed \subseteq s.seen
                     /\ s.read = "no" /\ ~s.failed => s.owed \subseteq s.items
            Row(p, known, resolved, i) == (p # "no" => known) /\ (p = "served" => i \in resolved)
            Rows1 == DOMAIN s.pending = Feedback /\ \A i \in Feedback : Row(s.pending[i], s.known, s.resolved, i)
<1>0. Fields \subseteq DOMAIN s /\ Lists /\ Rows1
  BY DEF TriageInv
<1>1. ASSUME DOMAIN s' = DOMAIN s, Lists', Rows1' PROVE TriageInv'
  BY <1>0, <1>1 DEF TriageInv
<1>2. ASSUME NEW i \in Feedback, NEW p, s'.pending = [s.pending EXCEPT ![i] = p], s'.known = s.known,
             s.resolved \subseteq s'.resolved, Row(p, s.known, s'.resolved, i)
      PROVE  Rows1'
  BY <1>0, <1>2
<1>3. ASSUME s'.pending = s.pending, s.known => s'.known, s'.resolved = s.resolved PROVE Rows1'
  BY <1>0, <1>3
<1>4. CASE TriageServed
  <2>1. /\ DOMAIN s' = DOMAIN s /\ UNCHANGED <<s.resolved, s.items, s.known, s.failed, s.pending, s.owed>>
        /\ s'.read = "served" /\ s'.seen = s.resolved
    BY <1>0, <1>4 DEF TriageServed
  <2>. QED
    BY <1>0, <1>1, <1>3, <2>1
<1>5. CASE TriageLands
  <2>1. /\ DOMAIN s' = DOMAIN s /\ UNCHANGED <<s.resolved, s.seen, s.pending, s.owed>>
        /\ s.read = "served" /\ s'.read = "no" /\ s'.items = s.seen /\ s'.known
    BY <1>0, <1>5 DEF TriageLands
  <2>. QED
    BY <1>0, <1>1, <1>3, <2>1
<1>6. CASE TriageFails
  <2>1. /\ DOMAIN s' = DOMAIN s /\ UNCHANGED <<s.resolved, s.items, s.known, s.seen, s.pending, s.owed>>
        /\ s'.read = "no" /\ s'.failed
    BY <1>0, <1>6 DEF TriageFails
  <2>. QED
    BY <1>0, <1>1, <1>3, <2>1
<1>7. Refetch(s.read, s.known) \in {s.read, "sent"} /\ (s.known => Refetch(s.read, s.known) = "sent")
      /\ (s.read = "no" => Refetch(s.read, s.known) = "sent")
  BY DEF Refetch
<1>8. CASE RefreshTriage
  <2>1. /\ DOMAIN s' = DOMAIN s /\ UNCHANGED <<s.resolved, s.items, s.known, s.seen, s.failed, s.pending, s.owed>>
        /\ s'.read = Refetch(s.read, s.known)
    BY <1>0, <1>8 DEF RefreshTriage
  <2>. QED
    BY <1>0, <1>1, <1>3, <1>7, <2>1
<1>9. ASSUME NEW i \in Feedback, resolve(i) PROVE TriageInv'
  <2>1. /\ DOMAIN s' = DOMAIN s /\ UNCHANGED <<s.resolved, s.items, s.known, s.seen, s.failed, s.read, s.owed>>
        /\ s'.pending = [s.pending EXCEPT ![i] = "sent"] /\ s.known
    BY <1>0, <1>9 DEF resolve, FeedbackRows, ResolveButton
  <2>. QED
    BY <1>0, <1>1, <1>2, <2>1
<1>10. ASSUME NEW i \in Feedback, ResolveServed(i) PROVE TriageInv'
  <2>1. /\ DOMAIN s' = DOMAIN s /\ UNCHANGED <<s.items, s.known, s.seen, s.failed, s.read, s.owed>>
        /\ s'.pending = [s.pending EXCEPT ![i] = "served"] /\ s.pending[i] = "sent"
        /\ s'.resolved = s.resolved \cup {i}
    BY <1>0, <1>10 DEF ResolveServed
  <2>2. s.known
    BY <1>0, <2>1
  <2>. QED
    BY <1>0, <1>1, <1>2, <2>1, <2>2
<1>11. ASSUME NEW i \in Feedback, ResolveLands(i) PROVE TriageInv'
  <2>1. /\ DOMAIN s' = DOMAIN s /\ UNCHANGED <<s.resolved, s.items, s.known, s.seen, s.failed>>
        /\ s'.pending = [s.pending EXCEPT ![i] = "no"] /\ s.pending[i] = "served"
        /\ s'.read = Refetch(s.read, s.known) /\ s'.owed = s.owed \cup {i}
    BY <1>0, <1>11 DEF ResolveLands
  <2>2. s.known /\ i \in s.resolved
    BY <1>0, <2>1
  <2>. QED
    BY <1>0, <1>1, <1>2, <1>7, <2>1, <2>2
<1>12. ASSUME NEW i \in Feedback, ResolveFails(i) PROVE TriageInv'
  <2>1. /\ DOMAIN s' = DOMAIN s /\ UNCHANGED <<s.resolved, s.items, s.known, s.seen, s.failed, s.read, s.owed>>
        /\ s'.pending = [s.pending EXCEPT ![i] = "no"]
    BY <1>0, <1>12 DEF ResolveFails
  <2>. QED
    BY <1>0, <1>1, <1>2, <2>1
<1>. QED
  BY <1>4, <1>5, <1>6, <1>8, <1>9, <1>10, <1>11, <1>12 DEF TriageNext, TriageAnswers

(***************************************************************************)
(* The studio, its bottom row, the stories and the goal.                   *)
(***************************************************************************)
\* Every step of the studio keeps its invariant.
LEMMA StudioStep == ASSUME StudioInv, StudioNext PROVE StudioInv'
<1>. USE DEF Set, Push, NoCode, DEFAULT_CODE
<1>. DEFINE fields == {"acts", "editor", "saved", "saveDue", "formatting", "showDiff"}
            Kept(st) == IF st.saved # NoCode THEN st.saved ELSE DEFAULT_CODE
<1>0. fields \subseteq DOMAIN s
  BY DEF StudioInv
<1>1. ASSUME DOMAIN s' = DOMAIN s, s'.acts = s.acts \/ s'.acts = s.acts + 1, s'.saved = s.saved, s'.editor = s.editor,
             s'.saveDue = s.saveDue, s'.showDiff = s.showDiff, s'.formatting = NoCode \/ s'.formatting = s.formatting
      PROVE  StudioInv'
  BY <1>1 DEF StudioInv
<1>2. ASSUME DOMAIN s' = DOMAIN s, s'.acts = s.acts + 1, s'.saved = s.saved, s'.editor = Kept(s), s'.saveDue = NoCode,
             s'.showDiff = FALSE, s'.formatting = NoCode \/ s'.formatting = s.formatting
      PROVE  StudioInv'
  <2>1. Kept(s) \in Nat \ {NoCode} /\ s.saved \in Nat /\ s.formatting \in Nat /\ s.acts + 1 \in Nat
    BY DEF StudioInv
  <2>2. CASE s.saved = NoCode
    BY <1>0, <1>2, <2>1, <2>2 DEF StudioInv
  <2>3. CASE s.saved # NoCode
    <3>1. /\ fields \subseteq DOMAIN s' /\ s'.acts \in Nat /\ s'.saved \in Nat \ {NoCode} /\ s'.editor = s'.saved
          /\ s'.saveDue = NoCode /\ s'.formatting \in Nat /\ s'.showDiff = FALSE
      BY <1>0, <1>2, <2>1, <2>3
    <3>2. {s'.acts, s'.saved, s'.saveDue, s'.formatting} \subseteq Nat /\ s'.editor \in Nat \ {NoCode}
      BY <3>1
    <3>3. s'.showDiff \in BOOLEAN
      BY <3>1
    <3>4. s'.editor = IF s'.saveDue # NoCode THEN s'.saveDue ELSE IF s'.saved # NoCode THEN s'.saved ELSE DEFAULT_CODE
      BY <3>1
    <3>. QED
      BY <3>1, <3>2, <3>3, <3>4 DEF StudioInv
  <2>. QED
    BY <2>2, <2>3
<1>3. CASE handleChange
  BY <1>3 DEF StudioInv, handleChange, EditorShown, setCode
<1>4. CASE formatCode
  BY <1>4 DEF StudioInv, formatCode, EditorShown
<1>5. CASE SaveTimer
  BY <1>5 DEF StudioInv, SaveTimer
<1>6. CASE FormatLands
  <2>. DEFINE neat == IF s.formatting < 100 THEN 100 + s.formatting ELSE s.formatting
  <2>1. CASE neat = s.formatting
    BY <1>1, <1>6, <2>1 DEF FormatLands
  <2>2. CASE neat # s.formatting
    <3>1. neat \in Nat \ {NoCode} /\ ~s.showDiff
      BY <1>6, <2>2 DEF FormatLands, StudioInv
    <3>2. /\ DOMAIN s' = DOMAIN s /\ s'.acts = s.acts /\ s'.showDiff = s.showDiff
          /\ s'.formatting = NoCode /\ s'.editor = neat /\ s'.saved = neat /\ s'.saveDue = neat
      BY <1>6, <2>2 DEF FormatLands, setCode, StudioInv
    <3>. HIDE DEF neat
    <3>. QED
      BY <3>1, <3>2 DEF StudioInv
  <2>. QED
    BY <2>1, <2>2
<1>7. CASE FormatFails
  BY <1>0, <1>1, <1>7 DEF FormatFails
<1>8. CASE DraftTimer \/ RunLands1 \/ RunFails1
  BY <1>0, <1>1, <1>8 DEF DraftTimer, RunLands1, RunFails1
<1>9. CASE handleInsert \/ handleLoadWarmup \/ handleSkip \/ ToggleDrawer
  BY <1>0, <1>1, <1>9 DEF handleInsert, handleLoadWarmup, handleSkip, ToggleDrawer, setCode
<1>10. ASSUME NEW i \in DOMAIN s.history, restoreSnapshot(i) PROVE StudioInv'
  BY <1>0, <1>1, <1>10 DEF restoreSnapshot, setCode
<1>11. ASSUME NEW tab \in Difficulties, PickTab(tab) PROVE StudioInv'
  BY <1>0, <1>1, <1>11 DEF PickTab
<1>12. ASSUME NEW c \in CHALLENGES, handleSelect(c) PROVE StudioInv'
  BY <1>0, <1>1, <1>12 DEF handleSelect, setCode
<1>13. CASE ToggleDiff
  <2>1. CASE s.showDiff
    BY <1>2, <1>13, <2>1 DEF ToggleDiff, EditorMounts, StudioInv
  <2>2. CASE ~s.showDiff
    BY <1>13, <2>2 DEF ToggleDiff, EditorUnmounts, StudioInv
  <2>. QED
    BY <2>1, <2>2
<1>14. CASE toggleBottom
  BY <1>2, <1>14 DEF toggleBottom, EditorMounts, EditorUnmounts, EditorShown, StudioInv
<1>15. CASE run
  <2>1. CASE s.showDiff
    BY <1>2, <1>15, <2>1 DEF run, EditorMounts, StudioInv
  <2>2. CASE ~s.showDiff
    BY <1>1, <1>15, <2>2 DEF run, StudioInv
  <2>. QED
    BY <2>1, <2>2
<1>. QED
  BY <1>3, <1>4, <1>5, <1>6, <1>7, <1>8, <1>9, <1>10, <1>11, <1>12, <1>13, <1>14, <1>15
     DEF StudioNext, StudioClicks, StudioAnswers

\* Every step of the bottom row keeps its invariant.
LEMMA PanelsStep == ASSUME PanelsInv, PanelsNext PROVE PanelsInv'
<1>. USE DEF Set, Push
<1>0. {"bottomTab", "collapsed", "stored", "practicedIds", "newlyUnlocked"} \subseteq DOMAIN s
  BY DEF PanelsInv
<1>1. ASSUME DOMAIN s' = DOMAIN s, s'.bottomTab = s.bottomTab, s'.collapsed = s.collapsed, s'.stored = s.stored,
             s'.practicedIds = s.practicedIds, s'.newlyUnlocked \in {{}, s.newlyUnlocked}
      PROVE  PanelsInv'
  BY <1>1 DEF PanelsInv, Panel
<1>2. ASSUME NEW tab, ShowPanel(tab) PROVE PanelsInv'
  BY <1>2 DEF PanelsInv, Panel, ShowPanel, PanelMounts
<1>3. CASE Collapse
  BY <1>3 DEF PanelsInv, Panel, Collapse, PanelMounts
<1>4. ASSUME NEW code, EditText(code) PROVE PanelsInv'
  BY <1>0, <1>1, <1>4 DEF EditText
<1>5. CASE TypePrediction \/ handleLockAndRun
  BY <1>0, <1>1, <1>5 DEF TypePrediction, handleLockAndRun
<1>6. CASE ClearPrediction \/ Recheck \/ RunPanels
  BY <1>0, <1>1, <1>6 DEF ClearPrediction, Recheck, RunPanels
<1>7. CASE MisconceptionsLand \/ PulseTimer
  BY <1>0, <1>1, <1>7 DEF MisconceptionsLand, PulseTimer
<1>8. CASE PanelRunEnds
  <2>1. PICK st \in {s, handleRunSuccess(s)} : s' = [st EXCEPT !.running = FALSE, !.hasRunOnce = TRUE]
    BY <1>8 DEF PanelRunEnds
  <2>2. CASE st = s
    BY <1>0, <1>1, <2>1, <2>2
  <2>3. CASE st = handleRunSuccess(s) /\ Panel("skills")
    BY <2>1, <2>3 DEF PanelsInv, Panel, handleRunSuccess
  <2>4. CASE st = handleRunSuccess(s) /\ ~Panel("skills")
    BY <1>0, <1>1, <2>1, <2>4 DEF handleRunSuccess
  <2>. QED
    BY <2>1, <2>2, <2>3, <2>4
<1>. QED
  BY <1>2, <1>3, <1>4, <1>5, <1>6, <1>7, <1>8 DEF PanelsNext, PanelsClicks, PanelsAnswers

\* What the list owes follows the store, and every change of it the page hears of is
\* followed by a reading, so that a reading that was served before owes it nothing.
LEMMA StoriesStep == ASSUME StoriesInv, StoriesNext PROVE StoriesInv'
<1>. USE DEF Set, Tap
<1>. DEFINE Fields == {"made", "stored", "listed", "known", "read", "seen", "failed", "owed", "gone", "creating",
                       "deletion", "deleting"}
<1>0. /\ Fields \subseteq DOMAIN s /\ s.made \in Nat /\ s.stored \cup s.gone \subseteq 1 .. s.made
      /\ s.owed \subseteq s.stored /\ s.gone \cap s.stored = {}
      /\ s.deletion = "served" => s.deleting \in (1 .. s.made) \ s.stored
      /\ s.read = "served" => s.owed \subseteq s.seen /\ s.gone \cap s.seen = {}
      /\ s.read = "no" /\ ~s.failed => s.owed \subseteq s.listed /\ s.gone \cap s.listed = {}
  BY DEF StoriesInv
<1>1. ASSUME ToggleForm \/ setField \/ handleSubmitStory \/ StoryFails \/ DeleteStoryFails
             \/ \E story \in s.listed : DeleteStory(story) \/ ExpandStory(story)
      PROVE  StoriesInv'
  <2>1. /\ DOMAIN s' = DOMAIN s /\ UNCHANGED <<s.made, s.stored, s.listed, s.read, s.seen, s.failed, s.owed, s.gone>>
        /\ s'.deletion # "served" \/ (s'.deletion = s.deletion /\ s'.deleting = s.deleting)
    BY <1>0, <1>1 DEF ToggleForm, setField, handleSubmitStory, StoryFails, DeleteStoryFails, DeleteStory, ExpandStory
  <2>. QED
    BY <1>0, <2>1 DEF StoriesInv
<1>2. CASE StoriesServed
  <2>1. /\ DOMAIN s' = DOMAIN s /\ UNCHANGED <<s.made, s.stored, s.listed, s.failed, s.owed, s.gone, s.deletion, s.deleting>>
        /\ s'.read = "served" /\ s'.seen = s.stored
    BY <1>0, <1>2 DEF StoriesServed
  <2>. QED
    BY <1>0, <2>1 DEF StoriesInv
<1>3. CASE StoriesLand \/ StoriesReadFails
  <2>1. /\ DOMAIN s' = DOMAIN s /\ UNCHANGED <<s.made, s.stored, s.seen, s.owed, s.gone, s.deletion, s.deleting>>
        /\ s'.read = "no" /\ (s'.failed = TRUE \/ (s.read = "served" /\ s'.listed = s.seen))
    BY <1>0, <1>3 DEF StoriesLand, StoriesReadFails
  <2>. QED
    BY <1>0, <2>1 DEF StoriesInv
<1>4. CASE StoryServed
  <2>1. /\ DOMAIN s' = DOMAIN s /\ UNCHANGED <<s.listed, s.read, s.seen, s.failed, s.owed, s.gone, s.deletion, s.deleting>>
        /\ s'.made = s.made + 1 /\ s'.stored = s.stored \cup {s.made + 1}
    BY <1>0, <1>4 DEF StoryServed
  <2>. QED
    BY <1>0, <2>1 DEF StoriesInv
<1>5. CASE StoryDeleted
  <2>1. /\ DOMAIN s' = DOMAIN s /\ UNCHANGED <<s.made, s.listed, s.read, s.seen, s.failed, s.gone, s.deleting>>
        /\ s.deleting \in s.stored /\ s'.stored = s.stored \ {s.deleting} /\ s'.owed = s.owed \ {s.deleting}
    BY <1>0, <1>5 DEF StoryDeleted
  <2>. QED
    BY <1>0, <2>1 DEF StoriesInv
<1>6. CASE StoryLands \/ DeletedStory
  \* Either a reading follows, or the one under way goes on and owes nothing more.
  <2>1. /\ DOMAIN s' = DOMAIN s /\ UNCHANGED <<s.made, s.stored, s.listed, s.seen, s.failed, s.deleting>>
        /\ s'.read = Refetch(s.read, s.known)
        /\ s'.deletion # "served" \/ s'.deletion = s.deletion
    BY <1>0, <1>6 DEF StoryLands, DeletedStory
  <2>2. /\ s'.owed = s.owed \/ (s'.owed \subseteq s.stored /\ Rereads)
        /\ s'.gone = s.gone \/ (s'.gone = s.gone \cup {s.deleting} /\ s.deletion = "served" /\ Rereads)
    <3>1. CASE StoryLands
      <4>1. s'.gone = s.gone /\ s'.owed = s.owed \cup {story \in s.stored : story = s.made /\ Rereads}
        BY <1>0, <3>1 DEF StoryLands
      <4>. QED
        BY <1>0, <4>1
    <3>2. CASE DeletedStory
      <4>1. s'.owed = s.owed /\ s'.gone = s.gone \cup {story \in {s.deleting} : Rereads} /\ s.deletion = "served"
        BY <1>0, <3>2 DEF DeletedStory
      <4>. QED
        BY <4>1
    <3>. QED
      BY <1>6, <3>1, <3>2
  <2>3. Rereads => s'.read = "sent"
    BY <2>1 DEF Rereads, Refetch
  <2>4. s'.read = "sent" \/ s'.read = s.read
    BY <2>1 DEF Refetch
  <2>5. /\ s'.owed \subseteq s.stored /\ s'.gone \subseteq 1 .. s.made /\ s'.gone \cap s.stored = {}
    BY <1>0, <2>2
  <2>6. s'.read = "sent" \/ (s'.read = s.read /\ s'.owed = s.owed /\ s'.gone = s.gone)
    BY <2>2, <2>3, <2>4
  <2>. QED
    BY <1>0, <2>1, <2>5, <2>6 DEF StoriesInv
<1>. QED
  BY <1>1, <1>2, <1>3, <1>4, <1>5, <1>6 DEF StoriesNext, StoriesClicks, StoriesAnswers

\* A mount of the form keeps the draft, or makes one of it.
LEMMA FormIsRestored ==
  ASSUME NEW editing \in BOOLEAN, NEW draft, NEW acts, NEW st,
         draft = NoDraft \/ \E a, b, c, d : draft = <<a, b, c, d>>, st = Restored(editing, draft, acts)
  PROVE  GoalFields \subseteq DOMAIN st /\ st.at = "form" /\ st.editing = editing /\ (editing \/ st.draft = Form(st))
<1>1. GoalFields \subseteq DOMAIN st /\ st.at = "form" /\ st.editing = editing
  BY DEF Restored, GoalFields
<1>2. ASSUME ~editing PROVE st.draft = Form(st)
  <2>1. CASE draft = NoDraft
    BY <1>2, <2>1 DEF Restored, Form
  <2>2. ASSUME NEW a, NEW b, NEW c, NEW d, draft = <<a, b, c, d>> PROVE st.draft = Form(st)
    <3>1. draft # NoDraft
      BY <2>2 DEF NoDraft
    <3>. QED
      BY <1>2, <2>2, <3>1 DEF Restored, Form
  <2>. QED
    BY <2>1, <2>2
<1>. QED
  BY <1>1, <1>2

\* Every step of the goal keeps its invariant.
LEMMA GoalStep == ASSUME GoalInv, GoalNext PROVE GoalInv'
<1>. USE DEF Set, Touched, GoalFields
<1>0. GoalFields \subseteq DOMAIN s
  BY DEF GoalInv
<1>1. ASSUME NEW st, KeepDraft(st), DOMAIN st = DOMAIN s, st.at = s.at, st.editing = s.editing, st.draft = s.draft
      PROVE  GoalInv'
  <2>1. CASE st.editing
    BY <1>1, <2>1 DEF GoalInv, KeepDraft
  <2>2. CASE ~st.editing
    BY <1>1, <2>2 DEF GoalInv, KeepDraft, Form
  <2>. QED
    BY <2>1, <2>2
<1>2. CASE PickMotivation
  BY <1>0, <1>1, <1>2 DEF PickMotivation
<1>3. ASSUME NEW months, PickDeadline(months) PROVE GoalInv'
  BY <1>0, <1>1, <1>3 DEF PickDeadline
<1>4. ASSUME NEW text, EditStatement(text) PROVE GoalInv'
  BY <1>0, <1>1, <1>4 DEF EditStatement
<1>5. CASE next
  BY <1>0, <1>1, <1>5 DEF next
<1>6. CASE back
  BY <1>0, <1>1, <1>6 DEF back
<1>7. CASE handleSubmitGoal
  BY <1>7 DEF handleSubmitGoal, GoalInv, Form
<1>8. CASE GoalSaved \/ GoalRefused \/ GoToToday
  BY <1>8 DEF GoalSaved, GoalRefused, GoToToday, GoalInv, Form
<1>9. CASE ReloadForm
  <2>1. s.editing \in BOOLEAN /\ (s.editing \/ s.draft = Form(s)) /\ s' = Restored(s.editing, s.draft, s.acts + 1)
    BY <1>9 DEF ReloadForm, GoalInv
  <2>2. CASE s.editing
    BY <2>1, <2>2 DEF Restored, GoalInv
  <2>3. CASE ~s.editing
    <3>1. \E a, b, c, d : s.draft = <<a, b, c, d>>
      BY <2>1, <2>3 DEF Form
    <3>2. /\ GoalFields \subseteq DOMAIN s' /\ s'.at = "form" /\ s'.editing = s.editing
          /\ s.editing \/ s'.draft = Form(s')
      <4>. HIDE DEF GoalFields, Set, Touched
      <4>. DEFINE editing == s.editing
                  draft == s.draft
      <4>1. editing \in BOOLEAN /\ (draft = NoDraft \/ \E a, b, c, d : draft = <<a, b, c, d>>)
            /\ s' = Restored(editing, draft, s.acts + 1)
        BY <2>1, <3>1
      <4>. HIDE DEF editing, draft
      <4>2. GoalFields \subseteq DOMAIN s' /\ s'.at = "form" /\ s'.editing = editing /\ (editing \/ s'.draft = Form(s'))
        BY <4>1, FormIsRestored
      <4>. QED
        BY <4>2 DEF editing
    <3>3. s'.editing \in BOOLEAN /\ s'.draft = Form(s')
      BY <2>1, <2>3, <3>2, Zenon
    <3>4. s'.draft = Form(s)'
      BY <3>3, Zenon DEF Form
    <3>. QED
      BY <3>2, <3>3, <3>4 DEF GoalInv
  <2>. QED
    BY <2>2, <2>3
<1>. QED
  BY <1>2, <1>3, <1>4, <1>5, <1>6, <1>7, <1>8, <1>9 DEF GoalNext, GoalClicks, GoalAnswers

\* What the screens on which something is kept are mounted with satisfies their invariants.
LEMMA KeepingMountsOk ==
  /\ StudioInit(s) => StudioInv
  /\ PanelsInit(s) => PanelsInv
  /\ StoriesInit(s) => StoriesInv
  /\ GoalInit(s) => GoalInv
<1>1. StudioInit(s) => StudioInv
  BY DEF StudioInit, StudioFields, EditorMounts, StudioInv, NoCode, DEFAULT_CODE, OldSaved, OldDraft, Linked
<1>2. PanelsInit(s) => PanelsInv
  BY DEF PanelsInit, PanelsInv, Panel
<1>3. StoriesInit(s) => StoriesInv
  BY DEF StoriesInit, StoriesInv
<1>4. GoalInit(s) => GoalInv
  <2>. SUFFICES ASSUME GoalInit(s) PROVE GoalInv
    OBVIOUS
  <2>1. PICK editing \in BOOLEAN, draft \in {NoDraft, <<3, 1, 1, 0>>} : s = Restored(editing, draft, 0)
    BY DEF GoalInit
  <2>2. draft = NoDraft \/ \E a, b, c, d : draft = <<a, b, c, d>>
    BY <2>1
  <2>. QED
    BY <2>1, <2>2, FormIsRestored DEF GoalInv, GoalFields
<1>. QED
  BY <1>1, <1>2, <1>3, <1>4

\* What is shown as stored is stored.
LEMMA ShownAsStored == PortalInv => ShownIsStored
<1>1. PortalInv => EditorIsSaved
  BY DEF PortalInv, StudioInv, EditorIsSaved, EditorShown
<1>2. PortalInv => SkillsAreKept
  BY DEF PortalInv, PanelsInv, SkillsAreKept
<1>3. PortalInv => StoriesAreListed
  BY DEF PortalInv, StoriesInv, StoriesAreListed
<1>4. PortalInv => DraftIsTheForm
  BY DEF PortalInv, GoalInv, DraftIsTheForm
<1>. QED
  BY <1>1, <1>2, <1>3, <1>4 DEF ShownIsStored

(***************************************************************************)
(* The screens together.                                                   *)
(***************************************************************************)
\* Each screen is mounted as itself.
LEMMA MountedAs == ASSUME ScreenInit PROVE
  \/ ComposerInit(s) /\ On("composer")
  \/ ChatQuizInit(s) /\ On("chatQuiz")
  \/ AuthInit(s) /\ On("account")
  \/ RegisterInit(s) /\ On("register")
  \/ PlacementInit(s) /\ On("placement")
  \/ PracticeInit(s) /\ On("practice")
  \/ ExerciseInit(s) /\ On("exercise")
  \/ InterviewInit(s) /\ On("interview")
  \/ MockInit(s) /\ On("mock")
  \/ DiagnosisInit(s) /\ On("diagnosis")
  \/ IntakeInit(s) /\ On("tailor")
  \/ ResumeInit(s) /\ On("resume")
  \/ QuestionsInit(s) /\ On("questions")
  \/ DecoderInit(s) /\ On("decoder")
  \/ JdMatchInit(s) /\ On("jdMatch")
  \/ KitInit(s) /\ On("kit")
  \/ JdFitInit(s) /\ On("jdFit")
  \/ BankInit(s) /\ On("bank")
  \/ StoriesInit(s) /\ On("stories")
  \/ StudioInit(s) /\ On("studio")
  \/ RailInit(s) /\ On("rail")
  \/ PanelsInit(s) /\ On("panels")
  \/ CapstoneInit(s) /\ On("capstone")
  \/ CatalogInit(s) /\ On("catalog")
  \/ CourseInit(s) /\ On("course")
  \/ TodayInit(s) /\ On("today")
  \/ GoalInit(s) /\ On("goal")
  \/ PathInit(s) /\ On("path")
  \/ PromotionInit(s) /\ On("promotion")
  \/ SidebarInit(s) /\ On("sidebar")
  \/ ReplyInit(s) /\ On("reply")
  \/ LessonInit(s) /\ On("lesson")
  \/ MaterialsInit(s) /\ On("materials")
  \/ ReceiptsInit(s) /\ On("receipts")
  \/ AutopsyInit(s) /\ On("autopsy")
  \/ ProblemsInit(s) /\ On("problems")
  \/ ConsoleInit(s) /\ On("console")
  \/ DirectoryInit(s) /\ On("directory")
  \/ DrilldownInit(s) /\ On("drilldown")
  \/ CourseEditInit(s) /\ On("courseEdit")
  \/ BoardInit(s) /\ On("board")
  \/ TriageInit(s) /\ On("triage")
<1>1. ComposerInit(s) => On("composer")
  BY DEF On, ComposerInit
<1>2. ChatQuizInit(s) => On("chatQuiz")
  BY DEF On, ChatQuizInit
<1>3. AuthInit(s) => On("account")
  BY DEF On, AuthInit, Loaded
<1>4. RegisterInit(s) => On("register")
  BY DEF On, RegisterInit
<1>5. PlacementInit(s) => On("placement")
  BY DEF On, PlacementInit
<1>6. PracticeInit(s) => On("practice")
  BY DEF On, PracticeInit, WithSubmissions, WorkspaceFields, Submissions
<1>7. ExerciseInit(s) => On("exercise")
  BY DEF On, ExerciseInit, WithSubmissions, ExerciseFields, Submissions
<1>8. InterviewInit(s) => On("interview")
  BY DEF On, InterviewInit
<1>9. MockInit(s) => On("mock")
  BY DEF On, MockInit
<1>10. DiagnosisInit(s) => On("diagnosis")
  BY DEF On, DiagnosisInit, Mounted
<1>11. IntakeInit(s) => On("tailor")
  BY DEF On, IntakeInit
<1>12. ResumeInit(s) => On("resume")
  BY DEF On, ResumeInit
<1>13. QuestionsInit(s) => On("questions")
  BY DEF On, QuestionsInit
<1>14. DecoderInit(s) => On("decoder")
  BY DEF On, DecoderInit
<1>15. JdMatchInit(s) => On("jdMatch")
  BY DEF On, JdMatchInit
<1>16. KitInit(s) => On("kit")
  BY DEF On, KitInit
<1>17. JdFitInit(s) => On("jdFit")
  BY DEF On, JdFitInit
<1>18. BankInit(s) => On("bank")
  BY DEF On, BankInit, BankTab
<1>19. StoriesInit(s) => On("stories")
  BY DEF On, StoriesInit
<1>20. StudioInit(s) => On("studio")
  BY DEF On, StudioInit, EditorMounts, StudioFields, setCode
<1>21. RailInit(s) => On("rail")
  BY DEF On, RailInit
<1>22. PanelsInit(s) => On("panels")
  BY DEF On, PanelsInit
<1>23. CapstoneInit(s) => On("capstone")
  BY DEF On, CapstoneInit
<1>24. CatalogInit(s) => On("catalog")
  BY DEF On, CatalogInit
<1>25. CourseInit(s) => On("course")
  BY DEF On, CourseInit
<1>26. TodayInit(s) => On("today")
  BY DEF On, TodayInit
<1>27. GoalInit(s) => On("goal")
  BY DEF On, GoalInit, Restored
<1>28. PathInit(s) => On("path")
  BY DEF On, PathInit
<1>29. PromotionInit(s) => On("promotion")
  BY DEF On, PromotionInit
<1>30. SidebarInit(s) => On("sidebar")
  BY DEF On, SidebarInit
<1>31. ReplyInit(s) => On("reply")
  BY DEF On, ReplyInit
<1>32. LessonInit(s) => On("lesson")
  BY DEF On, LessonInit
<1>33. MaterialsInit(s) => On("materials")
  BY DEF On, MaterialsInit
<1>34. ReceiptsInit(s) => On("receipts")
  BY DEF On, ReceiptsInit
<1>35. AutopsyInit(s) => On("autopsy")
  BY DEF On, AutopsyInit
<1>36. ProblemsInit(s) => On("problems")
  BY DEF On, ProblemsInit
<1>37. ConsoleInit(s) => On("console")
  BY DEF On, ConsoleInit
<1>38. DirectoryInit(s) => On("directory")
  BY DEF On, DirectoryInit
<1>39. DrilldownInit(s) => On("drilldown")
  BY DEF On, DrilldownInit
<1>40. CourseEditInit(s) => On("courseEdit")
  BY DEF On, CourseEditInit
<1>41. BoardInit(s) => On("board")
  BY DEF On, BoardInit
<1>42. TriageInit(s) => On("triage")
  BY DEF On, TriageInit
<1>. QED
  BY <1>1, <1>2, <1>3, <1>4, <1>5, <1>6, <1>7, <1>8, <1>9, <1>10, <1>11, <1>12, <1>13, <1>14,
  <1>15, <1>16, <1>17, <1>18, <1>19, <1>20, <1>21, <1>22, <1>23, <1>24, <1>25, <1>26, <1>27, <1>28,
  <1>29, <1>30, <1>31, <1>32, <1>33, <1>34, <1>35, <1>36, <1>37, <1>38, <1>39, <1>40, <1>41, <1>42
     DEF ScreenInit

\* A step of a screen is of the one that is mounted.
LEMMA StepOf == ASSUME ScreenNext PROVE
  /\ On("composer") => ComposerNext
  /\ On("account") => AuthNext
  /\ On("register") => RegisterNext
  /\ On("placement") => PlacementNext
  /\ On("practice") => PracticeNext
  /\ On("exercise") => ExerciseNext
  /\ On("interview") => InterviewNext
  /\ On("mock") => MockNext
  /\ On("diagnosis") => DiagnosisNext
  /\ On("tailor") => IntakeNext
  /\ On("bank") => BankNext
  /\ On("jdFit") => JdFitNext
  /\ On("stories") => StoriesNext
  /\ On("studio") => StudioNext
  /\ On("rail") => RailNext
  /\ On("panels") => PanelsNext
  /\ On("capstone") => CapstoneNext
  /\ On("catalog") => CatalogNext
  /\ On("today") => TodayNext
  /\ On("goal") => GoalNext
  /\ On("path") => PathNext
  /\ On("promotion") => PromotionNext
  /\ On("sidebar") => SidebarNext
  /\ On("reply") => ReplyNext
  /\ On("lesson") => LessonNext
  /\ On("receipts") => ReceiptsNext
  /\ On("directory") => DirectoryNext
  /\ On("drilldown") => DrilldownNext
  /\ On("board") => BoardNext
  /\ On("triage") => TriageNext
<1>1. ComposerNext => s.screen = "composer"
  BY DEF On, ComposerNext
<1>2. ChatQuizNext => s.screen = "chatQuiz"
  BY DEF On, ChatQuizNext
<1>3. AuthNext => s.screen = "account"
  BY DEF On, AuthNext
<1>4. RegisterNext => s.screen = "register"
  BY DEF On, RegisterNext
<1>5. PlacementNext => s.screen = "placement"
  BY DEF On, PlacementNext
<1>6. PracticeNext => s.screen = "practice"
  BY DEF On, PracticeNext
<1>7. ExerciseNext => s.screen = "exercise"
  BY DEF On, ExerciseNext
<1>8. InterviewNext => s.screen = "interview"
  BY DEF On, InterviewNext
<1>9. MockNext => s.screen = "mock"
  BY DEF On, MockNext
<1>10. DiagnosisNext => s.screen = "diagnosis"
  BY DEF On, DiagnosisNext
<1>11. IntakeNext => s.screen = "tailor"
  BY DEF On, IntakeNext
<1>12. ResumeNext => s.screen = "resume"
  BY DEF On, ResumeNext
<1>13. QuestionsNext => s.screen = "questions"
  BY DEF On, QuestionsNext
<1>14. DecoderNext => s.screen = "decoder"
  BY DEF On, DecoderNext
<1>15. JdMatchNext => s.screen = "jdMatch"
  BY DEF On, JdMatchNext
<1>16. KitNext => s.screen = "kit"
  BY DEF On, KitNext
<1>17. JdFitNext => s.screen = "jdFit"
  BY DEF On, JdFitNext
<1>18. BankNext => s.screen = "bank"
  BY DEF On, BankNext
<1>19. StoriesNext => s.screen = "stories"
  BY DEF On, StoriesNext
<1>20. StudioNext => s.screen = "studio"
  BY DEF On, StudioNext
<1>21. RailNext => s.screen = "rail"
  BY DEF On, RailNext
<1>22. PanelsNext => s.screen = "panels"
  BY DEF On, PanelsNext
<1>23. CapstoneNext => s.screen = "capstone"
  BY DEF On, CapstoneNext
<1>24. CatalogNext => s.screen = "catalog"
  BY DEF On, CatalogNext
<1>25. CourseNext => s.screen = "course"
  BY DEF On, CourseNext
<1>26. TodayNext => s.screen = "today"
  BY DEF On, TodayNext
<1>27. GoalNext => s.screen = "goal"
  BY DEF On, GoalNext
<1>28. PathNext => s.screen = "path"
  BY DEF On, PathNext
<1>29. PromotionNext => s.screen = "promotion"
  BY DEF On, PromotionNext
<1>30. SidebarNext => s.screen = "sidebar"
  BY DEF On, SidebarNext
<1>31. ReplyNext => s.screen = "reply"
  BY DEF On, ReplyNext
<1>32. LessonNext => s.screen = "lesson"
  BY DEF On, LessonNext
<1>33. MaterialsNext => s.screen = "materials"
  BY DEF On, MaterialsNext
<1>34. ReceiptsNext => s.screen = "receipts"
  BY DEF On, ReceiptsNext
<1>35. AutopsyNext => s.screen = "autopsy"
  BY DEF On, AutopsyNext
<1>36. ProblemsNext => s.screen = "problems"
  BY DEF On, ProblemsNext
<1>37. ConsoleNext => s.screen = "console"
  BY DEF On, ConsoleNext
<1>38. DirectoryNext => s.screen = "directory"
  BY DEF On, DirectoryNext
<1>39. DrilldownNext => s.screen = "drilldown"
  BY DEF On, DrilldownNext
<1>40. CourseEditNext => s.screen = "courseEdit"
  BY DEF On, CourseEditNext
<1>41. BoardNext => s.screen = "board"
  BY DEF On, BoardNext
<1>42. TriageNext => s.screen = "triage"
  BY DEF On, TriageNext
<1>. QED
  BY <1>1, <1>2, <1>3, <1>4, <1>5, <1>6, <1>7, <1>8, <1>9, <1>10, <1>11, <1>12, <1>13, <1>14,
  <1>15, <1>16, <1>17, <1>18, <1>19, <1>20, <1>21, <1>22, <1>23, <1>24, <1>25, <1>26, <1>27, <1>28,
  <1>29, <1>30, <1>31, <1>32, <1>33, <1>34, <1>35, <1>36, <1>37, <1>38, <1>39, <1>40, <1>41, <1>42
     DEF ScreenNext, On

\* What each of these screens is mounted with satisfies its invariant.
LEMMA MountsOk ==
  /\ ComposerInit(s) => ComposerInv
  /\ DiagnosisInit(s) => DiagnosisInv
  /\ RailInit(s) => RailInv
  /\ CatalogInit(s) => CatalogInv
  /\ TodayInit(s) => TodayInv
  /\ SidebarInit(s) => SidebarInv
  /\ PlacementInit(s) => PlacementInv
  /\ ExerciseInit(s) => ExerciseInv
  /\ AuthInit(s) => AuthInv
  /\ RegisterInit(s) => RegisterInv
  /\ CapstoneInit(s) => CapstoneInv
  /\ PathInit(s) => PathInv
  /\ PromotionInit(s) => PromotionInv
  /\ ReceiptsInit(s) => ReceiptsInv
<1>1. ComposerInit(s) => ComposerInv
  <2>. SUFFICES ASSUME ComposerInit(s) PROVE ComposerInv
    OBVIOUS
  <2>1. /\ ComposerFields \subseteq DOMAIN s /\ s.value = "empty" /\ s.files = {} /\ s.uploads = <<>> /\ s.picked = 0
        /\ s.refs = {} /\ s.sent = <<>>
    BY DEF ComposerInit, ComposerFields
  <2>2. RefsOk({})
    BY FS_EmptySet, ComposerAssumption DEF RefsOk
  <2>3. UploadsOk(0, {}, <<>>)
    BY DEF UploadsOk
  <2>. QED
    BY <2>1, <2>2, <2>3 DEF ComposerInv, RodeOk
<1>2. DiagnosisInit(s) => DiagnosisInv
  BY DEF DiagnosisInit, DiagnosisInv, Mounted, CheckedOnce
<1>3. RailInit(s) => RailInv
  BY DEF RailInit, RailInv
<1>4. CatalogInit(s) => CatalogInv
  BY DEF CatalogInit, CatalogInv
<1>5. TodayInit(s) => TodayInv
  <2>. SUFFICES ASSUME TodayInit(s) PROVE TodayInv
    OBVIOUS
  <2>1. PICK n \in DueSizes : s.stored = [i \in 1 .. n |-> i]
    BY DEF TodayInit
  <2>2. /\ {"stored", "dueCards", "graded", "cardIndex", "reviews"} \subseteq DOMAIN s
        /\ s.dueCards = <<>> /\ s.graded = <<>> /\ s.cardIndex = 3
    BY DEF TodayInit
  <2>3. s.stored \in Seq(Cards) /\ Distinct(s.stored)
    BY <2>1, LearningAssumption DEF Cards, Distinct
  <2>. QED
    BY <2>2, <2>3 DEF TodayInv, Distinct, BehindTheIndex, Cards
<1>6. SidebarInit(s) => SidebarInv
  BY DEF SidebarInit, SidebarInv
<1>7. PlacementInit(s) => PlacementInv
  <2>. SUFFICES ASSUME PlacementInit(s) PROVE PlacementInv
    OBVIOUS
  <2>1. PICK k \in 0 .. 5, given \in [1 .. 5 -> Options] :
          /\ s.stage = IF k = 0 THEN "intro" ELSE IF k = 5 THEN "result" ELSE "question"
          /\ s.step = IF k < 5 THEN k + 1 ELSE 5
          /\ s.answers = [q \in 1 .. 5 |-> IF q <= k THEN given[q] ELSE 0]
    BY DEF PlacementInit, Total
  <2>2. /\ {"stage", "step", "answers", "advance", "pending", "loading", "checkout", "left"} \subseteq DOMAIN s
        /\ s.advance = 0 /\ s.loading = FALSE /\ s.checkout = "none" /\ s.left = "no"
    BY DEF PlacementInit
  <2>3. s.stage \in {"intro", "question", "result"} /\ s.step \in 1 .. 5 /\ s.answers \in [1 .. 5 -> Options \cup {0}]
    BY <2>1
  <2>4. s.stage = "result" => isComplete(s.answers)
    BY <2>1, PlacementAssumption DEF isComplete, Total
  <2>. QED
    BY <2>2, <2>3, <2>4 DEF PlacementInv, Total
<1>8. ExerciseInit(s) => ExerciseInv
  <2>. SUFFICES ASSUME ExerciseInit(s) PROVE ExerciseInv
    OBVIOUS
  <2>1. /\ {"graded", "history", "solution", "refused"} \subseteq DOMAIN s
        /\ s.graded = <<>> /\ s.history = {} /\ s.solution = "hidden" /\ s.refused = FALSE
    BY DEF ExerciseInit, WithSubmissions, ExerciseFields, Submissions
  <2>. QED
    BY <2>1 DEF ExerciseInv
<1>9. AuthInit(s) => AuthInv
  <2>. SUFFICES ASSUME AuthInit(s) PROVE AuthInv
    OBVIOUS
  <2>1. PICK user, disk :
          /\ user \in Accounts \cup {Nobody}
          /\ \/ disk = SignedOut
             \/ disk = [user |-> user, authed |-> TRUE,
                        tok |-> [account |-> CHOOSE a \in Accounts : user \in {a, Nobody}, gen |-> 0]]
          /\ s = Loaded([screen |-> "account", acts |-> 0, gen |-> 0, disk |-> disk,
                         store |-> SignedOut, cookie |-> Nobody, place |-> "login", next |-> "portal",
                         calls |-> [c \in 1..2 |-> NoCall], refresh |-> Nobody, login |-> "idle",
                         tried |-> FALSE, event |-> "none"], disk, "portal")
    BY DEF AuthInit
  <2>2. (CHOOSE a \in Accounts : user \in {a, Nobody}) \in Accounts
    <3>1. user \in Accounts \cup {Nobody}
      BY <2>1
    <3>. QED
      BY <3>1, AccountAssumption
  <2>3. "tok" \in DOMAIN disk /\ IsToken(disk.tok)
    <3>1. CASE disk = SignedOut
      BY <3>1, SignedOutTokens
    <3>2. CASE disk # SignedOut
      BY <2>1, <2>2, <3>2 DEF IsToken
    <3>. QED
      BY <3>1, <3>2
  <2>4. s.calls = [c \in 1 .. 2 |-> NoCall]
    BY <2>1 DEF Loaded
  <2>5. s.disk = disk /\ s.store = disk /\ s.refresh = Nobody /\ {"store", "disk", "calls", "refresh"} \subseteq DOMAIN s
    BY <2>1 DEF Loaded
  <2>. QED
    BY <2>3, <2>4, <2>5, SignedOutTokens DEF AuthInv, TokensOk
<1>10. RegisterInit(s) => RegisterInv
  BY DEF RegisterInit, RegisterInv
<1>11. CapstoneInit(s) => CapstoneInv
  BY DEF CapstoneInit, CapstoneInv
<1>12. PathInit(s) => PathInv
  <2>. SUFFICES ASSUME PathInit(s) PROVE PathInv
    OBVIOUS
  <2>1. PICK nodes \in {0, 3, 7}, saved \in {<<>>, <<7, 9>>, <<7, 6, 9, 5, 4, 3>>},
             lessons \in {<<>>, <<TRUE, FALSE, TRUE>>, <<TRUE, TRUE, TRUE, TRUE, FALSE>>} :
          s = [screen |-> "path", acts |-> 0, nodes |-> nodes, saved |-> saved, progress |-> lessons,
               landed |-> {}, expanded |-> FALSE, at |-> "path"]
    BY DEF PathInit
  <2>2. {"progress", "landed"} \subseteq DOMAIN s /\ s.progress = lessons
    BY <2>1
  <2>3. <<>> \in Seq(BOOLEAN)
    BY EmptySeq
  <2>4. <<TRUE, FALSE, TRUE>> \in Seq(BOOLEAN)
    OBVIOUS
  <2>5. <<TRUE, TRUE, TRUE, TRUE, FALSE>> \in Seq(BOOLEAN)
    OBVIOUS
  <2>6. lessons \in Seq(BOOLEAN)
    BY <2>1, <2>3, <2>4, <2>5
  <2>. QED
    BY <2>2, <2>6 DEF PathInv
<1>13. PromotionInit(s) => PromotionInv
  BY DEF PromotionInit, PromotionInv
<1>14. ReceiptsInit(s) => ReceiptsInv
  BY DEF ReceiptsInit, ReceiptsInv
<1>. QED
  BY <1>1, <1>2, <1>3, <1>4, <1>5, <1>6, <1>7, <1>8, <1>9, <1>10, <1>11, <1>12, <1>13, <1>14

\* What the screens on which answers come late are mounted with satisfies their invariants.
LEMMA LateMountsOk ==
  /\ InterviewInit(s) => InterviewInv
  /\ DiagnosisInit(s) => TalkInv
  /\ PracticeInit(s) => VerdictsInv /\ WorkspaceInv
  /\ ExerciseInit(s) => VerdictsInv
  /\ MockInit(s) => RoomInv
  /\ BankInit(s) => BankInv
  /\ JdFitInit(s) => JdFitInv
  /\ IntakeInit(s) => IntakeInv
  /\ ReplyInit(s) => ReplyInv
  /\ LessonInit(s) => LessonInv
  /\ DirectoryInit(s) => DirectoryInv
  /\ BoardInit(s) => BoardInv
  /\ DrilldownInit(s) => DrilldownInv
  /\ TriageInit(s) => TriageInv
<1>1. InterviewInit(s) => InterviewInv
  <2>. SUFFICES ASSUME InterviewInit(s) PROVE InterviewInv
    OBVIOUS
  <2>1. /\ {"streams", "streaming", "turns", "count"} \subseteq DOMAIN s
        /\ s.streams = {} /\ s.streaming = FALSE /\ s.turns = <<>> /\ s.count = 0
    BY DEF InterviewInit
  <2>. QED
    BY <2>1 DEF InterviewInv
<1>2. DiagnosisInit(s) => TalkInv
  <2>. SUFFICES ASSUME DiagnosisInit(s) PROVE TalkInv
    OBVIOUS
  <2>1. /\ {"messages", "turns", "thinking", "decoder", "decoding", "starting", "session"} \subseteq DOMAIN s
        /\ s.messages = <<>> /\ s.turns = 0 /\ ~s.thinking /\ ~s.decoding /\ ~s.starting
    BY DEF DiagnosisInit, Mounted
  <2>2. <<>> \in Seq(Messages) /\ Under(<<>>, "student", "agent")
    BY DEF Under
  <2>. QED
    BY <2>1, <2>2 DEF TalkInv
<1>3. ASSUME {"graded", "active", "shown", "polls", "submitting", "raced"} \subseteq DOMAIN s, s.graded = <<>>, s.active = 0,
             s.shown = NoSubmission, s.polls = {}
      PROVE  VerdictsInv
  <2>1. NoSubmission.status = "none" /\ <<>> \in Seq({"pending", "passed", "failed"})
    BY DEF NoSubmission
  <2>. QED
    BY <1>3, <2>1 DEF VerdictsInv
<1>4. PracticeInit(s) => VerdictsInv /\ WorkspaceInv
  <2>. SUFFICES ASSUME PracticeInit(s) PROVE VerdictsInv /\ WorkspaceInv
    OBVIOUS
  <2>1. /\ {"graded", "active", "shown", "polls", "submitting", "raced"} \subseteq DOMAIN s /\ s.graded = <<>> /\ s.active = 0
        /\ s.shown = NoSubmission /\ s.polls = {}
    BY DEF PracticeInit, WithSubmissions, WorkspaceFields, Submissions
  <2>2. /\ {"running", "runError", "runResult", "ran", "reviewing", "reviewError", "review", "asked"} \subseteq DOMAIN s
        /\ s.runResult = s.ran /\ s.review = s.asked
    BY DEF PracticeInit, WithSubmissions, WorkspaceFields, Submissions
  <2>. QED
    BY <1>3, <2>1, <2>2 DEF WorkspaceInv
<1>5. ExerciseInit(s) => VerdictsInv
  <2>. SUFFICES ASSUME ExerciseInit(s) PROVE VerdictsInv
    OBVIOUS
  <2>1. /\ {"graded", "active", "shown", "polls", "submitting", "raced"} \subseteq DOMAIN s /\ s.graded = <<>> /\ s.active = 0
        /\ s.shown = NoSubmission /\ s.polls = {}
    BY DEF ExerciseInit, WithSubmissions, ExerciseFields, Submissions
  <2>. QED
    BY <1>3, <2>1
<1>6. MockInit(s) => RoomInv
  <2>. SUFFICES ASSUME MockInit(s) PROVE RoomInv
    OBVIOUS
  <2>1. "room" \in DOMAIN s /\ s.room = NoRoom
    BY DEF MockInit
  <2>2. /\ {"bubbles", "answering", "answered"} \subseteq DOMAIN NoRoom
        /\ NoRoom.bubbles = <<>> /\ NoRoom.answering = 0 /\ NoRoom.answered = 0
    BY DEF NoRoom
  <2>3. <<>> \in Seq(Bubbles) /\ Under(<<>>, "candidate", "interviewer")
    BY DEF Under
  <2>. QED
    BY <2>1, <2>2, <2>3 DEF RoomInv
<1>0. BankInit(s) => BankInv
  BY DEF BankInit, BankTab, BankInv
<1>7. JdFitInit(s) => JdFitInv
  <2>1. DOMAIN NoFit = {"pending", "of", "data", "actions", "error"} /\ ~NoFit.pending /\ ~NoFit.data
    BY DEF NoFit
  <2>2. JdFitInit(s) => {"fit", "plan", "item"} \subseteq DOMAIN s /\ s.fit = NoFit /\ s.plan = NoFit
    BY DEF JdFitInit
  <2>. QED
    BY <2>1, <2>2 DEF JdFitInv
<1>8. IntakeInit(s) => IntakeInv
  BY DEF IntakeInit, IntakeInv, Closed
<1>9. ReplyInit(s) => ReplyInv
  BY DEF ReplyInit, ReplyInv
<1>10. LessonInit(s) => LessonInv
  BY DEF LessonInit, LessonInv, Known
<1>11. DirectoryInit(s) => DirectoryInv
  BY DEF DirectoryInit, DirectoryInv
<1>12. BoardInit(s) => BoardInv
  <2>. SUFFICES ASSUME BoardInit(s) PROVE BoardInv
    OBVIOUS
  <2>1. /\ {"page", "tab", "queries"} \subseteq DOMAIN s /\ s.page \in {"confusion", "atRisk"} /\ s.tab = 2
        /\ s.queries = [tab \in Tabs |-> [Unfetched EXCEPT !.fetching = (tab = 2)]]
    BY DEF BoardInit
  <2>4. ASSUME NEW tab \in Tabs PROVE s.queries[tab] \in Queries /\ ~s.queries[tab].error
    <3>. DEFINE f == (tab = 2)
    <3>1. f \in BOOLEAN /\ s.queries[tab] = [Unfetched EXCEPT !.fetching = f]
      BY <2>1
    <3>. HIDE DEF f
    <3>. QED
      BY <3>1, ReadAtOnce, Zenon
  <2>5. s.queries \in [Tabs -> Queries]
    BY <2>1, <2>4
  <2>6. s.tab \in Tabs
    BY <2>1 DEF Tabs
  <2>. QED
    BY <2>1, <2>4, <2>5, <2>6 DEF BoardInv
<1>13. DrilldownInit(s) => DrilldownInv
  BY DEF DrilldownInit, DrilldownInv, Unread
<1>14. TriageInit(s) => TriageInv
  BY DEF TriageInit, TriageInv
<1>. QED
  BY <1>0, <1>1, <1>2, <1>4, <1>5, <1>6, <1>7, <1>8, <1>9, <1>10, <1>11, <1>12, <1>13, <1>14

\* The page, and whichever screen is mounted, begin with their invariant.
LEMMA InitPortal == PortalInit => PortalInv
<1>. SUFFICES ASSUME PortalInit PROVE PortalInv
  OBVIOUS
<1>1. PageInv
  BY InitPage DEF PortalInit
<1>2. CASE s = [screen |-> "chat"]
  <2>1. s.screen = "chat"
    BY <1>2
  <2>. QED
    BY <1>1, <2>1 DEF PortalInv, On
<1>3. CASE ScreenInit
  BY <1>1, <1>3, MountedAs, MountsOk, LateMountsOk, KeepingMountsOk DEF PortalInv, On
<1>. QED
  BY <1>2, <1>3 DEF PortalInit

\* A step is of the page or of the mounted screen, and keeps the invariant of both.
LEMMA PortalStep == ASSUME PortalInv, [PortalNext]_<<s, pageVars>> PROVE PortalInv'
<1>1. PageInv /\ PageInv'
  <2>1. [PageNext]_pageVars
    BY DEF PortalNext
  <2>. QED
    BY <2>1, PageStep DEF PortalInv
<1>2. CASE s' = s
  <2>1. /\ ComposerInv => ComposerInv'
        /\ InterviewInv => InterviewInv'
        /\ DiagnosisInv => DiagnosisInv'
        /\ RailInv => RailInv'
        /\ CatalogInv => CatalogInv'
    BY <1>2 DEF ComposerInv, InterviewInv, DiagnosisInv, RailInv, CatalogInv
  <2>2. /\ TodayInv => TodayInv'
        /\ SidebarInv => SidebarInv'
        /\ PlacementInv => PlacementInv'
        /\ ExerciseInv => ExerciseInv'
        /\ AuthInv => AuthInv'
        /\ RegisterInv => RegisterInv'
    BY <1>2 DEF TodayInv, SidebarInv, PlacementInv, ExerciseInv, AuthInv, RegisterInv
  <2>3. /\ CapstoneInv => CapstoneInv'
        /\ PathInv => PathInv'
        /\ PromotionInv => PromotionInv'
        /\ ReceiptsInv => ReceiptsInv'
        /\ TalkInv => TalkInv'
    BY <1>2 DEF CapstoneInv, PathInv, PromotionInv, ReceiptsInv, TalkInv
  <2>4. /\ VerdictsInv => VerdictsInv'
        /\ WorkspaceInv => WorkspaceInv'
        /\ RoomInv => RoomInv'
        /\ BankInv => BankInv'
        /\ JdFitInv => JdFitInv'
        /\ IntakeInv => IntakeInv'
        /\ ReplyInv => ReplyInv'
    BY <1>2 DEF VerdictsInv, WorkspaceInv, RoomInv, BankInv, JdFitInv, IntakeInv, ReplyInv, Step
  <2>5. /\ LessonInv => LessonInv'
        /\ DirectoryInv => DirectoryInv'
        /\ BoardInv => BoardInv'
        /\ DrilldownInv => DrilldownInv'
        /\ TriageInv => TriageInv'
    BY <1>2 DEF LessonInv, DirectoryInv, BoardInv, DrilldownInv, TriageInv
  <2>6. /\ StudioInv => StudioInv'
        /\ PanelsInv => PanelsInv'
        /\ StoriesInv => StoriesInv'
        /\ GoalInv => GoalInv'
    BY <1>2 DEF StudioInv, PanelsInv, StoriesInv, GoalInv, Panel
  <2>7. \A name : On(name)' => On(name)
    BY <1>2 DEF On
  <2>. QED
    BY <1>1, <2>1, <2>2, <2>3, <2>4, <2>5, <2>6, <2>7 DEF PortalInv
<1>3. CASE ScreenNext /\ s'.screen = s.screen
  <2>1. /\ On("composer") => ComposerInv'
        /\ On("interview") => InterviewInv'
        /\ On("diagnosis") => DiagnosisInv' /\ TalkInv'
        /\ On("rail") => RailInv'
        /\ On("catalog") => CatalogInv'
    BY <1>3, StepOf, ComposerStep, InterviewStep, DiagnosisStep, TalkStep, RailStep, CatalogStep DEF PortalInv
  <2>2. /\ On("today") => TodayInv'
        /\ On("sidebar") => SidebarInv'
        /\ On("placement") => PlacementInv'
        /\ On("exercise") => ExerciseInv' /\ VerdictsInv'
        /\ On("account") => AuthInv'
    BY <1>3, StepOf, TodayStep, SidebarStep, PlacementStep, ExerciseStep, ExerciseVerdicts, AuthStep DEF PortalInv
  <2>3. /\ On("register") => RegisterInv'
        /\ On("capstone") => CapstoneInv'
        /\ On("path") => PathInv'
        /\ On("promotion") => PromotionInv'
        /\ On("receipts") => ReceiptsInv'
    BY <1>3, StepOf, RegisterStep, CapstoneStep, PathStep, PromotionStep, ReceiptsStep DEF PortalInv
  <2>4. /\ On("practice") => VerdictsInv' /\ WorkspaceInv'
        /\ On("mock") => RoomInv'
        /\ On("bank") => BankInv'
        /\ On("jdFit") => JdFitInv'
        /\ On("tailor") => IntakeInv'
        /\ On("reply") => ReplyInv'
    BY <1>3, StepOf, PracticeStep, MockStep, BankStep, JdFitStep, IntakeStep, ReplyStep DEF PortalInv
  <2>5. /\ On("lesson") => LessonInv'
        /\ On("directory") => DirectoryInv'
        /\ On("board") => BoardInv'
        /\ On("drilldown") => DrilldownInv'
        /\ On("triage") => TriageInv'
    BY <1>3, StepOf, LessonStep, DirectoryStep, BoardStep, DrilldownStep, TriageStep DEF PortalInv
  <2>6. /\ On("studio") => StudioInv'
        /\ On("panels") => PanelsInv'
        /\ On("stories") => StoriesInv'
        /\ On("goal") => GoalInv'
    BY <1>3, StepOf, StudioStep, PanelsStep, StoriesStep, GoalStep DEF PortalInv
  <2>7. \A name : On(name)' <=> On(name)
    BY <1>3 DEF On
  <2>. QED
    BY <1>1, <2>1, <2>2, <2>3, <2>4, <2>5, <2>6, <2>7 DEF PortalInv
<1>. QED
  BY <1>2, <1>3 DEF PortalNext

\* The invariants hold in every state of the portal.
THEOREM PortalInvariants == PortalSpec => []PortalInv
<1>. QED
  BY InitPortal, PortalStep, PTL DEF PortalSpec

\* Once nothing is being opened and the effects have run, the chat area shows the
\* conversation the page has as active, whichever answers and navigations crossed.
THEOREM ActiveIsShown == PortalSpec => []AreaShowsTheActive
<1>1. PortalInv => AreaShowsTheActive
  BY NothingOpen DEF PortalInv, PageInv, WillShowTheActive, AreaShowsTheActive, Quiet
<1>. QED
  BY <1>1, PortalInvariants, PTL

\* The list of conversations that answers last is of the filter chosen last.
THEOREM ListIsOfTheFilter == PortalSpec => []ListAnswersTheLastFilter
<1>1. PortalInv => ListAnswersTheLastFilter
  BY DEF PortalInv, PageInv, LastListing, ListAnswersTheLastFilter
<1>. QED
  BY <1>1, PortalInvariants, PTL

\* Nothing is done twice for an impatient click or answers that overlap: no file rides
\* on two turns, no second stream, check, announcement, checkout, grade or title.
THEOREM NothingIsDoneTwice == PortalSpec => []NothingTwice
<1>1. ASSUME PortalInv PROVE NothingTwice
  <2>1. AttachmentsRideOnce
    BY <1>1 DEF PortalInv, ComposerInv, RodeOk, AttachmentsRideOnce
  <2>2. OneInterviewStream
    <3>1. \A r : Cardinality({r}) = 1
      BY FS_Singleton
    <3>2. Cardinality({}) = 0
      BY FS_EmptySet
    <3>. SUFFICES ASSUME On("interview") PROVE Cardinality(s.streams) <= 1 /\ (s.streaming <=> s.streams # {})
      BY DEF OneInterviewStream
    <3>3. InterviewInv
      BY <1>1 DEF PortalInv
    <3>4. CASE s.streaming = FALSE /\ s.streams = {}
      BY <3>2, <3>4
    <3>5. ASSUME NEW r, s.streaming = TRUE, s.streams = {r}
          PROVE  Cardinality(s.streams) <= 1 /\ (s.streaming <=> s.streams # {})
      <4>1. Cardinality(s.streams) = 1
        BY <3>1, <3>5
      <4>. QED
        BY <3>5, <4>1
    <3>. QED
      BY <3>3, <3>4, <3>5 DEF InterviewInv
  <2>3. CompletionCheckedOnce
    BY <1>1 DEF PortalInv, DiagnosisInv, CheckedOnce, CompletionCheckedOnce
  <2>4. BadgesOnce
    BY <1>1 DEF PortalInv, RailInv, BadgesOnce
  <2>5. OneCheckoutAtATime
    <3>1. On("catalog") => s.checkouts = <<>> \/ \E c : s.checkouts = <<c>>
      BY <1>1 DEF PortalInv, CatalogInv
    <3>2. \A c : Len(<<c>>) = 1
      OBVIOUS
    <3>3. Len(<<>>) = 0
      OBVIOUS
    <3>. SUFFICES ASSUME On("catalog") PROVE Len(s.checkouts) <= 1
      BY DEF OneCheckoutAtATime
    <3>4. CASE s.checkouts = <<>>
      BY <3>3, <3>4
    <3>5. ASSUME NEW c, s.checkouts = <<c>> PROVE Len(s.checkouts) <= 1
      <4>1. Len(s.checkouts) = 1
        BY <3>2, <3>5
      <4>. QED
        BY <4>1
    <3>. QED
      BY <3>1, <3>4, <3>5
  <2>6. CardGradedOnce
    BY <1>1 DEF PortalInv, TodayInv, Distinct, CardGradedOnce
  <2>7. RenamedOnce
    BY <1>1 DEF PortalInv, SidebarInv, RenamedOnce
  <2>. QED
    BY <2>1, <2>2, <2>3, <2>4, <2>5, <2>6, <2>7 DEF NothingTwice
<1>. QED
  BY <1>1, PortalInvariants, PTL

\* A percentage is in the range the result screen promises, whatever was answered.
LEMMA PercentIsInRange ==
  ASSUME PlacementInv, s.stage \in {"loading", "result"}
  PROVE  isComplete(s.answers) /\ getConfidencePercent(s.answers) \in 88 .. 96
<1>1. isComplete(s.answers) /\ s.answers \in [1 .. 5 -> Options \cup {0}]
  BY DEF PlacementInv, Total
<1>2. \A q \in 1 .. 5 : s.answers[q] \in 1 .. 4
  BY <1>1, PlacementAssumption DEF isComplete, Total
<1>. DEFINE track == getRecommendedTrack(s.answers)
<1>3. track \in {"analyst", "scientist", "ml", "genai"}
  <2>1. s.answers[3] = 1 \/ s.answers[3] = 2 \/ s.answers[3] = 3 \/ s.answers[3] = 4
    BY <1>2
  <2>. QED
    BY <2>1 DEF getRecommendedTrack, Tracks, QUESTIONS
<1>4. TRACK_PROFILES[track].offset % 2 \in 0 .. 1
  BY <1>3 DEF TRACK_PROFILES
<1>. DEFINE Hit(b) == IF b THEN 1 ELSE 0
            raw == 1 + Hit(s.answers[QUESTIONS.skill] \in TRACK_PROFILES[track].skills)
                     + Hit(s.answers[QUESTIONS.narrative] \in TRACK_PROFILES[track].narratives)
                     + 1 + Hit(s.answers[QUESTIONS.commitment] >= 3 \/ track = "analyst")
            score == 88 + (raw - 1) * 2 + (TRACK_PROFILES[track].offset % 2)
<1>5. raw \in 2 .. 5
  OBVIOUS
<1>6. getConfidencePercent(s.answers) = IF score > 96 THEN 96 ELSE score
  BY DEF getConfidencePercent
<1>. HIDE DEF raw
<1>7. score \in 90 .. 97
  BY <1>4, <1>5
<1>. HIDE DEF score
<1>. QED
  BY <1>1, <1>6, <1>7

\* Nothing comes before its time or after it: no recommendation without its answers, no
\* timer of another question, no solution the server refuses, no request that waits for
\* nothing, no block, lab or sound out of turn, no context over the cap, no open letter
\* unread, no new account that misses its onboarding.
THEOREM NothingIsOutOfTurn == PortalSpec => []NothingOutOfTurn
<1>1. ASSUME PortalInv PROVE NothingOutOfTurn
  <2>1. RecommendsOnAllAnswers
    BY <1>1, PercentIsInRange DEF PortalInv, RecommendsOnAllAnswers
  <2>2. QuizTimersAreCurrent
    BY <1>1 DEF PortalInv, PlacementInv, QuizTimersAreCurrent
  <2>3. SolutionNeverRefused
    BY <1>1 DEF PortalInv, ExerciseInv, SolutionNeverRefused
  <2>4. WaitsForOneRefresh
    BY <1>1 DEF PortalInv, AuthInv, TokensOk, WaitsForOneRefresh
  <2>5. RevealsInOrder
    BY <1>1 DEF PortalInv, CapstoneInv, RevealsInOrder, ReviewShown
  <2>6. LabsOpenInOrder
    BY <1>1, LabsInOrder DEF PortalInv, LabsOpenInOrder
  <2>7. SoundsInTheTakeover
    BY <1>1 DEF PortalInv, PromotionInv, SoundsInTheTakeover
  <2>8. RefsWithinTheCap
    BY <1>1 DEF PortalInv, ComposerInv, RefsOk, RefsWithinTheCap
  <2>9. OpenLetterIsMarked
    BY <1>1 DEF PortalInv, ReceiptsInv, OpenLetterIsMarked
  <2>10. NewAccountOnboards
    BY <1>1 DEF PortalInv, RegisterInv, NewAccountOnboards
  <2>. QED
    BY <2>1, <2>2, <2>3, <2>4, <2>5, <2>6, <2>7, <2>8, <2>9, <2>10 DEF NothingOutOfTurn
<1>. QED
  BY <1>1, PortalInvariants, PTL

\* Every answer that comes late comes where it belongs.
LEMMA AnswersPlaced == PortalInv => AnswersBelong
<1>. SUFFICES ASSUME PortalInv PROVE AnswersBelong
  OBVIOUS
<1>1. VerdictsBelong
  <2>1. ASSUME VerdictsInv, VerdictShown, ~s.raced PROVE s.shown.id = s.active /\ s.shown.status = s.graded[s.active]
    <3>1. s.shown.status \in {"passed", "failed"} /\ s.shown.status \in {"pending", s.graded[s.shown.id]}
      BY <2>1 DEF VerdictsInv, VerdictShown, OfItsSubmission
    <3>2. s.shown.id = s.active
      BY <2>1, <3>1 DEF VerdictsInv
    <3>. QED
      BY <3>1, <3>2
  <2>. QED
    BY <2>1 DEF PortalInv, WorkspaceInv, VerdictsBelong, OnSubmissions
<1>2. EvaluationsUnderTheirAnswer
  BY DEF PortalInv, RoomInv, Under, InterviewInv, EvaluationsUnderTheirAnswer
<1>b. EvaluationsOfTheSession
  BY DEF PortalInv, BankInv, EvaluationsOfTheSession
<1>3. AgentAnswersItsTurn
  BY DEF PortalInv, TalkInv, Under, AgentAnswersItsTurn
<1>4. FitIsOfTheItem
  BY DEF PortalInv, JdFitInv, FitIsOfTheItem
<1>5. PreviewWasAwaited
  BY DEF PortalInv, IntakeInv, PreviewWasAwaited
<1>6. RatingIsStored
  <2>1. \A x : <<x>> # <<>>
    OBVIOUS
  <2>. QED
    BY <2>1 DEF PortalInv, ReplyInv, RatingIsStored
<1>7. CompletionIsStored
  <2>1. ASSUME LessonInv, s.progress # "unknown", {s.completing, s.uncompleting} = {"no"}, ~s.lost, ~s.crossed
        PROVE  alreadyDone(s) = s.stored
    <3>1. s.completing = "no" /\ s.uncompleting = "no" /\ s.stored \in BOOLEAN
      BY <2>1 DEF LessonInv
    <3>2. IF s.completed = "unset" THEN Known(s.progress, s.stored) ELSE s.completed = IF s.stored THEN "yes" ELSE "no"
      BY <2>1, <3>1 DEF LessonInv
    <3>3. s.progress \in {"done", "todo"}
      BY <2>1 DEF LessonInv
    <3>4. alreadyDone(s) <=> s.stored
      BY <3>1, <3>2, <3>3 DEF Known, alreadyDone, isCompleted
    <3>5. alreadyDone(s) \in BOOLEAN
      BY DEF alreadyDone, isCompleted
    <3>. QED
      BY <3>1, <3>4, <3>5
  <2>. QED
    BY <2>1 DEF PortalInv, CompletionIsStored
<1>8. ListsAreOfTheSearch
  BY ListsShown DEF PortalInv, ListsAreOfTheSearch
<1>9. ChangesShow
  BY DEF PortalInv, DrilldownInv, TriageInv, ChangesShow
<1>. QED
  BY <1>1, <1>2, <1>b, <1>3, <1>4, <1>5, <1>6, <1>7, <1>8, <1>9 DEF AnswersBelong

\* Every answer that comes late comes where it belongs, in whatever order the answers of
\* the server and the clicks of the student cross: replies of the agent, analyses,
\* previews, ratings, completions, lists and changes. A verdict is the one of the
\* submission on show if no poll of an earlier one was out when it was accepted, and an
\* evaluation of the session on show if no answer of an earlier one was out at its start.
THEOREM AnswersAreInPlace == PortalSpec => []AnswersBelong
<1>. QED
  BY AnswersPlaced, PortalInvariants, PTL

\* What is shown as stored is stored: the editor is what is saved, the skills on show are
\* stored, the stories the student was told of are listed by the reading that follows,
\* and a reload finds the goal as it was typed, however timers, answers, mounts and
\* clicks cross. It does not say that nothing typed is lost.
THEOREM ShownStaysComplete == PortalSpec => []ShownIsStored
<1>. QED
  BY ShownAsStored, PortalInvariants, PTL
=============================================================================
