------------------------------ MODULE ChatRows ------------------------------
(***************************************************************************)
(* Two kinds of rows of the chat page and the requests made from them:     *)
(* the conversations of the sidebar (ChatSidebar, SidebarRow and the       *)
(* page's handlers) and the hover actions of a stored reply                *)
(* (AssistantBubble's buttons, FeedbackControls).  A request is served and *)
(* its answer lands at different times, in any order.                      *)
(***************************************************************************)
EXTENDS Screen

CONSTANT Listed   \* conversations in the sidebar at mount

Acted == [s EXCEPT !.acts = @ + 1]

(***************************************************************************)
(* The sidebar.  Only one row has its menu, its editor or its dialog open: *)
(* a press outside closes the menu, and ends the editing by its blur.      *)
(***************************************************************************)
NoRow == 0
OldRow == [title |-> "old", pinned |-> FALSE, archived |-> FALSE]

SidebarInit(sc) ==
  sc = [screen |-> "sidebar", acts |-> 0, rows |-> [c \in Listed |-> OldRow],
        stored |-> [c \in Listed |-> OldRow], showArchived |-> FALSE, list |-> <<>>,
        menu |-> NoRow, editing |-> NoRow, value |-> "old", confirming |-> NoRow,
        exporting |-> {}, calls |-> <<>>, editors |-> 0, renames |-> 0]

\* ChatSidebar: the sections, in the order they are rendered.
Sections ==
  LET pinned == {c \in DOMAIN s.rows : s.rows[c].pinned}
  IN  <<pinned, DOMAIN s.rows \ pinned>>

Rendered(c) == \E i \in DOMAIN Sections : c \in Sections[i]
Free(c) == Acts /\ Rendered(c) /\ s.confirming = NoRow /\ s.editing = NoRow

OpenMenu(c) == Free(c) /\ s.menu = NoRow /\ Set([Acted EXCEPT !.menu = c])
CloseMenu == Acts /\ s.menu # NoRow /\ Set([Acted EXCEPT !.menu = NoRow])

Called(st, op, c, next) ==
  [st EXCEPT !.menu = NoRow,
             !.calls = Append(@, [op |-> op, row |-> c, next |-> next, served |-> FALSE,
                                  showArchived |-> st.showArchived])]

Picks(c) == Free(c) /\ s.menu = c
handleTogglePin(c) == Picks(c) /\ Set(Called(Acted, "pin", c, ~s.rows[c].pinned))
handleToggleArchive(c) == Picks(c) /\ Set(Called(Acted, "archive", c, ~s.rows[c].archived))
handleExport(c) ==
  Picks(c) /\ c \notin s.exporting
    /\ Set([Acted EXCEPT !.menu = NoRow, !.exporting = @ \cup {c}])
ExportEnds(c) == c \in s.exporting /\ Set([s EXCEPT !.exporting = @ \ {c}])

handleDeleteClick(c) == Picks(c) /\ Set([Acted EXCEPT !.menu = NoRow, !.confirming = c])
CancelDelete == Acts /\ s.confirming # NoRow /\ Set([Acted EXCEPT !.confirming = NoRow])
confirmDelete ==
  /\ Acts /\ s.confirming # NoRow
  /\ Set(Called([Acted EXCEPT !.confirming = NoRow], "delete", s.confirming, TRUE))

beginRename(c) ==
  /\ Picks(c)
  /\ Set([Acted EXCEPT !.menu = NoRow, !.editing = c, !.value = s.rows[c].title,
                       !.editors = @ + 1])
EditTitle(v) ==
  Acts /\ s.editing # NoRow /\ v # s.value /\ Set([Acted EXCEPT !.value = v])

\* Enter and the blur: the input goes first, then an unchanged or empty title is
\* not sent.
commitRename ==
  /\ Acts /\ s.editing # NoRow
  /\ LET st == [Acted EXCEPT !.editing = NoRow]
     IN Set(IF s.value \in {"", s.rows[s.editing].title} THEN st
            ELSE Called([st EXCEPT !.renames = @ + 1], "rename", s.editing, s.value))
cancelRename == Acts /\ s.editing # NoRow /\ Set([Acted EXCEPT !.editing = NoRow])

\* A row that leaves the list takes its menu, editor and dialog with it.
WithRows(st, rows) ==
  LET kept(c) == IF c \in DOMAIN rows THEN c ELSE NoRow
  IN  [st EXCEPT !.rows = rows, !.menu = kept(@), !.editing = kept(@), !.confirming = kept(@)]

Dropped(rows, c) == [d \in DOMAIN rows \ {c} |-> rows[d]]
Patched(rows, call) ==
  IF call.row \notin DOMAIN rows THEN rows
  ELSE CASE call.op = "rename"  -> [rows EXCEPT ![call.row].title = call.next]
         [] call.op = "pin"     -> [rows EXCEPT ![call.row].pinned = call.next]
         [] call.op = "archive" -> [rows EXCEPT ![call.row].archived = call.next]
         [] call.op = "delete"  -> Dropped(rows, call.row)

CallServed(i) ==
  /\ i \in DOMAIN s.calls /\ ~s.calls[i].served
  /\ Set([s EXCEPT !.calls[i].served = TRUE, !.stored = Patched(@, s.calls[i])])

\* The page's handlers; archive drops the row if the click's filter hides it.
CallLands(i) ==
  /\ i \in DOMAIN s.calls /\ s.calls[i].served
  /\ LET call == s.calls[i]
         hides == call.op = "archive" /\ call.next /\ ~call.showArchived
         st == [s EXCEPT !.calls = Seqs!RemoveAt(@, i)]
     IN Set(WithRows(st, IF hides THEN Dropped(s.rows, call.row) ELSE Patched(s.rows, call)))
CallFails(i) == i \in DOMAIN s.calls /\ Set([s EXCEPT !.calls = Seqs!RemoveAt(@, i)])

ListedUnder(showArchived) ==
  [c \in {d \in DOMAIN s.stored : showArchived \/ ~s.stored[d].archived} |-> s.stored[c]]

onToggleArchived ==
  /\ Acts /\ s.confirming = NoRow
  /\ Set([Acted EXCEPT !.showArchived = ~@, !.list = <<"asked">>, !.menu = NoRow])
ListServed ==
  s.list = <<"asked">> /\ Set([s EXCEPT !.list = <<"served", ListedUnder(s.showArchived)>>])
ListShown == Len(s.list) = 2 /\ Set(WithRows([s EXCEPT !.list = <<>>], s.list[2]))
\* A failed list empties the sidebar.
ListFails == s.list # <<>> /\ Set(WithRows([s EXCEPT !.list = <<>>], <<>>))

SidebarClicks ==
  \/ \E c \in Listed : \/ OpenMenu(c) \/ handleTogglePin(c) \/ handleToggleArchive(c)
                       \/ handleExport(c) \/ handleDeleteClick(c) \/ beginRename(c)
  \/ \E v \in {"", "old", "new"} : EditTitle(v)
  \/ CloseMenu \/ CancelDelete \/ confirmDelete \/ commitRename \/ cancelRename
  \/ onToggleArchived

SidebarAnswers ==
  \/ \E i \in DOMAIN s.calls : CallServed(i) \/ CallLands(i) \/ CallFails(i)
  \/ \E c \in Listed : ExportEnds(c)
  \/ ListServed \/ ListShown \/ ListFails

SidebarNext == On("sidebar") /\ (SidebarClicks \/ SidebarAnswers)
SidebarFairness == WF_s(On("sidebar") /\ SidebarAnswers)
SidebarBusy == s.exporting # {} \/ s.list # <<>> \/ s.calls # <<>>

(***************************************************************************)
(* The actions of a reply.  A regeneration empties the bubble, which       *)
(* unmounts them, and gives it the id of a new row at its end.             *)
(***************************************************************************)
ActionsMount(st) ==
  [st EXCEPT !.explain = FALSE, !.popover = FALSE, !.reasons = FALSE, !.submitting = FALSE,
             !.copied = FALSE, !.timers = 0, !.cards = "idle", !.mount = @ + 1]

ReplyInit(sc) ==
  \E rated \in {"none", "up", "down"} :
    sc = [screen |-> "reply", acts |-> 0, mount |-> 1, row |-> 1, regen |-> "no",
          explain |-> FALSE, popover |-> FALSE, reasons |-> FALSE, submitting |-> FALSE,
          rating |-> rated, stored |-> rated, ratings |-> <<>>, lost |-> FALSE,
          copied |-> FALSE, timers |-> 0, cards |-> "idle", saving |-> 0, saved |-> FALSE]

showActions == s.regen \notin {"blank", "broken"}
Offered == Acts /\ showActions

Copy == Offered /\ Set([Acted EXCEPT !.copied = TRUE, !.timers = @ + 1])
CopyTimer == s.timers > 0 /\ Set([s EXCEPT !.copied = FALSE, !.timers = @ - 1])

addFlashcards == Offered /\ s.cards = "idle" /\ Set([Acted EXCEPT !.cards = "saving"])
CardsLand == s.cards = "saving" /\ Set([s EXCEPT !.cards = "saved"])
CardsFail == s.cards = "saving" /\ Set([s EXCEPT !.cards = "idle"])

\* Nothing keeps a second click from saving again.
handleSaveToNotebook == Offered /\ Set([Acted EXCEPT !.saving = @ + 1])
NoteLands == s.saving > 0 /\ Set([s EXCEPT !.saving = @ - 1, !.saved = TRUE])
NoteFails == s.saving > 0 /\ Set([s EXCEPT !.saving = @ - 1])

ToggleExplain == Offered /\ s.regen = "no" /\ Set([Acted EXCEPT !.explain = ~@])
\* handleRegenerate, from its button or an option of the menu.
Regenerates(fromMenu) ==
  /\ Offered /\ (fromMenu => s.explain) /\ s.row = 1
  /\ Set([Acted EXCEPT !.explain = FALSE, !.regen = IF @ = "no" THEN "asked" ELSE @])
RegenBlank == s.regen = "asked" /\ Set(ActionsMount([s EXCEPT !.regen = "blank"]))
RegenText == s.regen = "blank" /\ Set([s EXCEPT !.regen = "streaming"])
RegenStored ==
  /\ s.regen = "streaming"
  /\ Set(ActionsMount([s EXCEPT !.regen = "no", !.row = 2, !.rating = "none", !.stored = "none",
                           !.saved = FALSE]))
\* Refused, the bubble stays as it was; cut off, as the stream left it.
RegenFailed ==
  /\ s.regen \in {"asked", "blank", "streaming"}
  /\ Set([s EXCEPT !.regen = IF @ = "blank" THEN "broken" ELSE "no"])

SendRating(st, r) ==
  [st EXCEPT !.submitting = TRUE,
             !.ratings = Append(@, [rating |-> r, mount |-> st.mount, row |-> st.row,
                                    served |-> FALSE])]

handleThumbsUp ==
  /\ Offered /\ ~s.submitting /\ s.rating # "up"
  /\ Set(SendRating(Acted, "up"))
\* The button is outside the popover: the press closes it and the click reopens it.
handleThumbsDownClick ==
  /\ Offered /\ ~s.submitting
  /\ Set([Acted EXCEPT !.popover = TRUE, !.reasons = (s.rating = "down")])
toggleReason == Offered /\ s.popover /\ Set([Acted EXCEPT !.reasons = ~@])
handleSubmitDown ==
  /\ Offered /\ s.popover /\ ~s.submitting
  /\ Set(SendRating(Acted, "down"))
ClosePopover == Offered /\ s.popover /\ Set([Acted EXCEPT !.popover = FALSE])

RatingServed(i) ==
  /\ i \in DOMAIN s.ratings /\ ~s.ratings[i].served
  /\ Set([s EXCEPT !.ratings[i].served = TRUE,
            !.stored = IF s.ratings[i].row = s.row THEN s.ratings[i].rating ELSE @])

\* handleSubmitFeedback swallows a failure: the popover closes either way.
RatingAnswered(i, rating, lost) ==
  LET call == s.ratings[i]
      mine == call.mount = s.mount
  IN  Set([s EXCEPT !.ratings = Seqs!RemoveAt(@, i), !.lost = @ \/ lost,
                    !.rating = IF call.row = s.row /\ rating # "none" THEN rating ELSE @,
                    !.submitting = @ /\ ~mine, !.popover = @ /\ ~mine])
RatingLands(i) ==
  i \in DOMAIN s.ratings /\ s.ratings[i].served /\ RatingAnswered(i, s.ratings[i].rating, FALSE)
RatingFails(i) ==
  i \in DOMAIN s.ratings /\ RatingAnswered(i, "none", s.ratings[i].served)

ReplyClicks ==
  \/ Copy \/ addFlashcards \/ handleSaveToNotebook \/ ToggleExplain
  \/ \E fromMenu \in BOOLEAN : Regenerates(fromMenu)
  \/ handleThumbsUp \/ handleThumbsDownClick \/ toggleReason \/ handleSubmitDown \/ ClosePopover

ReplyAnswers ==
  \/ CopyTimer \/ CardsLand \/ CardsFail \/ NoteLands \/ NoteFails
  \/ RegenBlank \/ RegenText \/ RegenStored \/ RegenFailed
  \/ \E i \in DOMAIN s.ratings : RatingServed(i) \/ RatingLands(i) \/ RatingFails(i)

ReplyNext == On("reply") /\ (ReplyClicks \/ ReplyAnswers)
ReplyFairness == WF_s(On("reply") /\ ReplyAnswers)
ReplyBusy ==
  s.submitting \/ s.copied \/ s.cards = "saving" \/ s.regen \in {"asked", "blank", "streaming"}

(***************************************************************************)
(* Properties.                                                             *)
(***************************************************************************)
\* Each opened title editor sends one rename at most, whichever of Enter, Escape,
\* the blur and an answer ends it.
RenamedOnce == On("sidebar") => s.renames <= s.editors

\* While its controls stay mounted and no answer is lost, the thumb shown of a reply
\* is the rating the server has: one goes out at a time, so two never cross.
RatingIsStored ==
  On("reply") /\ s.ratings = <<>> /\ s.mount = 1 /\ ~s.lost => s.rating = s.stored
=============================================================================
