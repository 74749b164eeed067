------------------------------ MODULE ChatPage ------------------------------
(***************************************************************************)
(* ChatPageInner (src/frontend/src/app/(portal)/chat/page.tsx): which      *)
(* conversation the chat page is on.  The page keeps it in three places -  *)
(* its own state, the ?c= of the URL and the mounted ChatArea - which a    *)
(* click, an answer or the first event of a stream change at different     *)
(* times.  router.replace is a transition: the state set beside it renders *)
(* first, and the effects of that render run before the URL has changed.   *)
(***************************************************************************)
EXTENDS Naturals, Sequences, FiniteSets, Bags

CONSTANTS
  Stored,      \* conversations the server has at mount
  Fresh,       \* ids it gives to those opened later
  None,        \* no conversation
  MaxClicks    \* what the student does, at most

ASSUME PageAssumption == Stored \cap Fresh = {} /\ None \notin Stored \cup Fresh

VARIABLES
  activeConv,   \* activeConvId
  url, urlNext, \* the committed ?c=, and the transition on its way to one
  lastViewed,   \* localStorage chat-last-viewed-v1
  area,         \* the mounted ChatArea: its key, the conversation of its transcript
  opening,      \* openConversation calls in flight
  streams,      \* keys of the areas whose first turn has not had its first event
  born,         \* conversations that streams have opened
  effectDue,    \* the URL-sync effect's inputs changed in the last render
  clicks,
  filter, listing, listed,   \* showArchived, list fetches in flight, answer shown
  removals      \* delete and archive calls in flight

pageVars == <<activeConv, url, urlNext, lastViewed, area, opening, streams, born,
              effectDue, clicks, filter, listing, listed, removals>>

Keep == "keep"   \* no transition under way
Open(id, push) == SetToBag({[id |-> id, push |-> push]})

\* The initial effect opens the URL's conversation or the last viewed one; the
\* URL-sync effect of the same flush opens the URL's once more.
PageInit ==
  /\ url \in Stored \cup {None} /\ lastViewed \in Stored \cup {None}
  /\ activeConv = None /\ urlNext = Keep
  /\ area = [key |-> 0, conv |-> None]
  /\ opening = IF url # None THEN Open(url, FALSE) (+) Open(url, FALSE)
               ELSE IF lastViewed # None THEN Open(lastViewed, TRUE) ELSE EmptyBag
  /\ streams = {} /\ born = {} /\ effectDue = FALSE /\ clicks = 0
  /\ filter = "live" /\ listing = <<"live">> /\ listed = "nothing"
  /\ removals = {}

listVars == <<filter, listing, listed>>

SetActive(id) == activeConv' = id /\ effectDue' = (effectDue \/ id # activeConv)
Remount(id) == area' = [key |-> area.key + 1, conv |-> id]

Click == clicks < MaxClicks /\ clicks' = clicks + 1

(***************************************************************************)
(* openConversation.                                                       *)
(***************************************************************************)
SelectConversation(id) ==
  /\ Click /\ id # activeConv
  /\ opening' = opening (+) Open(id, TRUE)
  /\ UNCHANGED <<activeConv, url, urlNext, lastViewed, area, streams, born, effectDue,
                 listVars, removals>>

\* Mutant: the transcript is not mounted anew.
OpenLandsInPlace(o) ==
  /\ BagIn(o, opening) /\ opening' = opening (-) SetToBag({o})
  /\ SetActive(o.id) /\ lastViewed' = o.id
  /\ urlNext' = IF o.push THEN o.id ELSE urlNext
  /\ UNCHANGED <<url, area, streams, born, clicks, listVars, removals>>

OpenLands(o) ==
  /\ BagIn(o, opening) /\ opening' = opening (-) SetToBag({o})
  /\ SetActive(o.id) /\ lastViewed' = o.id /\ Remount(o.id)
  /\ urlNext' = IF o.push THEN o.id ELSE urlNext
  /\ UNCHANGED <<url, streams, born, clicks, listVars, removals>>

\* 404, 403 or no answer: the state is reset, the mounted area is not.
OpenFails(o) ==
  /\ BagIn(o, opening) /\ opening' = opening (-) SetToBag({o})
  /\ SetActive(None) /\ lastViewed' = None
  /\ UNCHANGED <<url, urlNext, area, streams, born, clicks, listVars, removals>>

(***************************************************************************)
(* The URL.                                                                *)
(***************************************************************************)
UrlCommits ==
  /\ ~effectDue /\ urlNext # Keep
  /\ url' = urlNext /\ urlNext' = Keep /\ effectDue' = (urlNext # url)
  /\ UNCHANGED <<activeConv, lastViewed, area, opening, streams, born, clicks,
                 listVars, removals>>

\* "sync when the URL ?c= changes": run whenever either side changed.
SyncWithUrl ==
  /\ effectDue /\ effectDue' = (url = None /\ activeConv # None)
  /\ IF url = None /\ activeConv # None
     THEN activeConv' = None /\ Remount(None) /\ UNCHANGED opening
     ELSE /\ opening' = IF url # None /\ url # activeConv
                        THEN opening (+) Open(url, FALSE) ELSE opening
          /\ UNCHANGED <<activeConv, area>>
  /\ UNCHANGED <<url, urlNext, lastViewed, streams, born, clicks, listVars, removals>>

(***************************************************************************)
(* New conversation (sidebar, Cmd+K, the composer's dialog).               *)
(***************************************************************************)
Reset ==
  SetActive(None) /\ Remount(None) /\ lastViewed' = None /\ urlNext' = None

New ==
  /\ Click /\ Reset
  /\ UNCHANGED <<url, opening, streams, born, listVars, removals>>

(***************************************************************************)
(* The first turn of a fresh area, and its first event, which reaches the  *)
(* page's handleConversationId whether or not its area is still mounted.   *)
(***************************************************************************)
FirstTurn ==
  /\ Click /\ area.conv = None /\ area.key \notin streams
  /\ Cardinality(streams) + Cardinality(born) < Cardinality(Fresh)
  /\ streams' = streams \cup {area.key}
  /\ UNCHANGED <<activeConv, url, urlNext, lastViewed, area, opening, born, effectDue,
                 listVars, removals>>

FirstEvent(key) ==
  /\ key \in streams /\ streams' = streams \ {key}
  /\ \E id \in Fresh \ born :
       /\ born' = born \cup {id}
       /\ SetActive(id) /\ lastViewed' = id /\ urlNext' = id
       /\ area' = IF key = area.key THEN [area EXCEPT !.conv = id] ELSE area
  /\ UNCHANGED <<url, opening, clicks, listVars, removals>>

FirstTurnFails(key) ==
  /\ key \in streams /\ streams' = streams \ {key}
  /\ UNCHANGED <<activeConv, url, urlNext, lastViewed, area, opening, born, effectDue,
                 clicks, listVars, removals>>

(***************************************************************************)
(* Delete and archive: what the answer does was decided at the click.      *)
(***************************************************************************)
Remove(id) ==
  /\ Click /\ removals = {}
  /\ removals' = {[id |-> id, active |-> activeConv = id]}
  /\ UNCHANGED <<activeConv, url, urlNext, lastViewed, area, opening, streams, born,
                 effectDue, listVars>>

RemoveLands ==
  /\ \E r \in removals :
       IF r.active THEN Reset ELSE UNCHANGED <<activeConv, effectDue, area, lastViewed, urlNext>>
  /\ removals' = {}
  /\ UNCHANGED <<url, opening, streams, born, clicks, listVars>>

RemoveFails ==
  /\ removals # {} /\ removals' = {}
  /\ UNCHANGED <<activeConv, url, urlNext, lastViewed, area, opening, streams, born,
                 effectDue, clicks, listVars>>

(***************************************************************************)
(* The sidebar list: every change of the filter fetches it anew and        *)
(* cancels the fetches before.                                             *)
(***************************************************************************)
ToggleArchived ==
  /\ Click /\ filter' = (IF filter = "live" THEN "all" ELSE "live")
  /\ listing' = Append(listing, filter')
  /\ UNCHANGED <<activeConv, url, urlNext, lastViewed, area, opening, streams, born,
                 effectDue, listed, removals>>

\* Mutant: a fetch that the next one does not cancel.
ListLandsAny(i) ==
  /\ i \in DOMAIN listing /\ listing[i] # "answered"
  /\ listing' = [listing EXCEPT ![i] = "answered"] /\ listed' = listing[i]
  /\ UNCHANGED <<activeConv, url, urlNext, lastViewed, area, opening, streams, born,
                 effectDue, clicks, filter, removals>>

ListLands(i) ==
  /\ i \in DOMAIN listing /\ listing[i] # "answered"
  /\ listing' = [listing EXCEPT ![i] = "answered"]
  /\ listed' = IF i = Len(listing) THEN listing[i] ELSE listed
  /\ UNCHANGED <<activeConv, url, urlNext, lastViewed, area, opening, streams, born,
                 effectDue, clicks, filter, removals>>

Clicked ==
  \/ \E id \in Stored : SelectConversation(id) \/ Remove(id)
  \/ New \/ FirstTurn \/ ToggleArchived

Answered ==
  \/ \E o \in BagToSet(opening) : OpenLands(o) \/ OpenFails(o)
  \/ \E key \in streams : FirstEvent(key) \/ FirstTurnFails(key)
  \/ RemoveLands \/ RemoveFails
  \/ \E i \in DOMAIN listing : ListLands(i)

PageNext == UrlCommits \/ SyncWithUrl \/ Clicked \/ Answered

(***************************************************************************)
(* Properties.                                                             *)
(***************************************************************************)
Quiet == ~effectDue /\ urlNext = Keep /\ opening = EmptyBag /\ streams = {} /\ removals = {}

\* When nothing is under way any more, the transcript on screen is the one the
\* page, its sidebar highlight and its URL are on.
AreaShowsTheActive == Quiet /\ activeConv # None => area.conv = activeConv

\* The list on screen is the answer to the last filter asked for, whatever order
\* the answers come in.
ListAnswersTheLastFilter ==
  \A i \in DOMAIN listing : i = Len(listing) /\ listing[i] = "answered" => listed = filter

\* The reloads the URL and the state cause in each other come to an end.
PageSettles == <>[](~effectDue /\ urlNext = Keep /\ opening = EmptyBag)
=============================================================================
