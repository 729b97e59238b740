----------------------------- MODULE LayoutEditor -----------------------------
(***************************************************************************)
(* The layout editor of the overview: layout-editor.js on the shell of the *)
(* overview (overview.page.js, dashboard.js) and the stored layout         *)
(* (httpapi.handleLayout).  The server renders one page of the layout into *)
(* the grid; editing hangs handles into these cards while the layout is    *)
(* still being read.  A gesture changes a card of the grid and the item of *)
(* the layout it stands for, and the grid may be rendered anew at any time *)
(* (a live update, another page), with the editor hung in again.           *)
(*                                                                         *)
(* An item is its id, a `form` for everything an option or the size handle *)
(* can change, and whether it is shown; a page is its id, a `form` for its *)
(* name and its groups of items.                                           *)
(***************************************************************************)
EXTENDS Integers, Sequences, SequencesExt, FiniteSets, FiniteSetsExt

CONSTANTS
    Layouts,     \* layouts the server may hold at first
    Ids,         \* ids a new card or page may get
    MaxEdits,    \* gestures in one session of the browser
    Absent

VARIABLES
    keptLayout,   \* layout.json: a sequence of pages
    layout,       \* this.pages of the editor, empty until it is read
    grid,         \* .layout-grid: its page, its cards, those put there by the editor
    dressed,      \* editItems: ids of cards with handles, or Absent
    sheet,        \* the options sheet: its card and whether its item is of `layout`
    editorMode,   \* overviewShell.mode
    layoutReads,  \* load() under way
    readFailed,   \* the last load() failed
    layoutWrite,  \* body of the PUT under way
    unsaved,
    question,     \* #layout-guard-modal: what it was asked for
    chosenPage,   \* dashboardShell.activePage
    activePage,   \* this.activePage
    edits         \* gestures so far (bound)

sessionVars == <<dressed, sheet, editorMode, layoutReads, readFailed, layoutWrite, unsaved, question>>
layoutVars == <<keptLayout, layout, grid, chosenPage, activePage, edits, sessionVars>>

ItemsOf(page) == FlattenSeq(page.groups)
IdsOf(items) == [i \in DOMAIN items |-> items[i].id]
Holds(pages, id) == \E p \in ToSet(pages) : \E item \in ToSet(ItemsOf(p)) : item.id = id
PageIn(pages, id) == SelectSeq(pages, LAMBDA p : p.id = id)
Used(pages) == UNION {{p.id} \cup ToSet(IdsOf(ItemsOf(p))) : p \in ToSet(pages)}
Card(id, injected) == [id |-> id, injected |-> injected]
Cards(items, injected) == [i \in DOMAIN items |-> Card(items[i].id, injected)]
CardIds == {c.id : c \in ToSet(grid.cards)}
Shown(items) == SelectSeq(items, LAMBDA item : item.shown)
Hidden(items) == SelectSeq(items, LAMBDA item : ~item.shown)

\* overview-live: the chosen page, or the first one, with its visible cards.
Rendered(pages, chosen) ==
    IF pages = <<>> THEN [page |-> Absent, cards |-> <<>>]
    ELSE LET page == IF PageIn(pages, chosen) = <<>> THEN pages[1] ELSE PageIn(pages, chosen)[1]
         IN [page |-> page.id, cards |-> Cards(Shown(ItemsOf(page)), FALSE)]

\* activePageIndex: the first page when the id fits none.
CurrentIndex(pages, active) ==
    IF PageIn(pages, active) = <<>> THEN 1 ELSE CHOOSE i \in DOMAIN pages : pages[i].id = active
Current(pages, active) == pages[CurrentIndex(pages, active)]

\* syncActivePage: the page chosen in the tabs, when it is one of the layout.
Synced(pages, g) ==
    IF pages = <<>> \/ PageIn(pages, chosenPage) # <<>> THEN chosenPage
    ELSE IF g.page # Absent THEN g.page ELSE pages[1].id

\* renderLocalPage: every card of the page is the editor's own.
Local(page) == [page |-> page.id, cards |-> Cards(ItemsOf(page), TRUE)]

\* syncHiddenCards: what the server did not render follows at the end.
WithHidden(page, g) ==
    LET missing == SelectSeq(Hidden(ItemsOf(page)), LAMBDA item : \A c \in ToSet(g.cards) : c.id # item.id)
    IN [g EXCEPT !.cards = @ \o Cards(missing, TRUE)]

\* The grid after the editor has found its page in it.
Fitted(pages, g) ==
    IF pages = <<>> THEN g
    ELSE LET active == Synced(pages, g)
         IN WithHidden(Current(pages, active), IF g.page # active THEN Local(Current(pages, active)) ELSE g)

\* The editor takes `pages` for its layout and fits grid `g` to them.
Adopt(pages, g) ==
    /\ activePage' = Synced(pages, g)
    /\ grid' = Fitted(pages, g)
    /\ dressed' = {c.id : c \in ToSet(Fitted(pages, g).cards)}

-----------------------------------------------------------------------------
(* The session of the editor. *)

EnterEdit ==
    /\ editorMode = "view"
    /\ keptLayout # <<>>
    /\ editorMode' = "edit"
    /\ layout' = <<>>
    /\ layoutReads' = 1
    /\ Adopt(<<>>, grid)
    /\ UNCHANGED <<keptLayout, sheet, readFailed, layoutWrite, unsaved, question, chosenPage, edits>>

\* load: new items for everything; an open sheet keeps the old one.
LayoutRead ==
    /\ layoutReads > 0
    /\ layoutReads' = layoutReads - 1
    /\ readFailed' = FALSE
    /\ layout' = keptLayout
    /\ Adopt(keptLayout, grid)
    /\ sheet' = IF sheet = Absent THEN Absent ELSE [sheet EXCEPT !.live = FALSE]
    /\ UNCHANGED <<keptLayout, editorMode, layoutWrite, unsaved, question, chosenPage, edits>>

ReadFails ==
    /\ layoutReads > 0
    /\ layoutReads' = layoutReads - 1
    /\ readFailed' = TRUE
    /\ Adopt(layout, grid)
    /\ UNCHANGED <<keptLayout, layout, sheet, editorMode, layoutWrite, unsaved, question, chosenPage, edits>>

\* #overview-live is exchanged: the handles go with the old cards, and the
\* editor is hung into the new ones.
Refresh ==
    /\ LET fresh == Rendered(keptLayout, chosenPage)
       IN IF editorMode = "edit" THEN Adopt(layout, fresh) /\ sheet' = Absent
          ELSE grid' = fresh /\ UNCHANGED <<dressed, activePage, sheet>>
    /\ UNCHANGED <<keptLayout, layout, editorMode, layoutReads, readFailed, layoutWrite, unsaved, question, chosenPage, edits>>

\* unmount and removal of #layout-editor-root: its own cards go, a load()
\* still under way has nobody left to tell.
Left ==
    /\ editorMode' = "view"
    /\ grid' = [grid EXCEPT !.cards = SelectSeq(@, LAMBDA c : ~c.injected)]
    /\ dressed' = Absent
    /\ sheet' = Absent
    /\ layout' = <<>>
    /\ activePage' = Absent
    /\ layoutReads' = 0
    /\ readFailed' = FALSE

\* confirmLeave before another page or another tab.
ClickPage(p) ==
    /\ question = Absent /\ sheet = Absent
    /\ p # chosenPage
    /\ IF unsaved THEN question' = p /\ UNCHANGED chosenPage ELSE chosenPage' = p /\ UNCHANGED question
    /\ UNCHANGED <<keptLayout, layout, grid, activePage, edits, dressed, sheet, editorMode, layoutReads, readFailed, layoutWrite, unsaved>>

Save ==
    /\ editorMode = "edit" /\ question = Absent /\ sheet = Absent
    /\ layoutWrite = Absent
    /\ layoutWrite' = layout
    /\ UNCHANGED <<keptLayout, layout, grid, chosenPage, activePage, edits, dressed, sheet, editorMode, layoutReads, readFailed, unsaved, question>>

\* Nothing is asked any more: unsaved is cleared before the editor leaves.
SaveOk ==
    /\ layoutWrite # Absent
    /\ keptLayout' = layoutWrite
    /\ layoutWrite' = Absent
    /\ unsaved' = FALSE
    /\ question' = Absent
    /\ Left
    /\ UNCHANGED <<chosenPage, edits>>

\* A failed PUT leaves too, unless the guard holds it.
SaveFails ==
    /\ layoutWrite # Absent
    /\ question = Absent
    /\ layoutWrite' = Absent
    /\ IF unsaved
       THEN question' = "mode" /\ UNCHANGED <<layout, grid, activePage, dressed, sheet, editorMode, layoutReads, readFailed>>
       ELSE Left /\ UNCHANGED question
    /\ UNCHANGED <<keptLayout, chosenPage, edits, unsaved>>

Discard ==
    /\ unsaved /\ question = Absent /\ sheet = Absent
    /\ question' = "discard"
    /\ UNCHANGED <<keptLayout, layout, grid, chosenPage, activePage, edits, dressed, sheet, editorMode, layoutReads, readFailed, layoutWrite, unsaved>>

\* Mutant: the page is changed and what was thrown away stays in the layout.
MutGuardDiscard ==
    /\ question # Absent
    /\ question' = Absent
    /\ unsaved' = FALSE
    /\ IF question \in {"mode", "discard"}
       THEN Left /\ UNCHANGED chosenPage
       ELSE /\ chosenPage' = question
            /\ UNCHANGED <<layout, grid, activePage, dressed, sheet, editorMode, layoutReads, readFailed>>
    /\ UNCHANGED <<keptLayout, layoutWrite, edits>>

GuardDiscard ==
    /\ question # Absent
    /\ question' = Absent
    /\ unsaved' = FALSE
    /\ IF question \in {"mode", "discard"}
       THEN Left /\ UNCHANGED chosenPage
       ELSE /\ chosenPage' = question
            /\ layoutReads' = layoutReads + 1
            /\ UNCHANGED <<layout, grid, activePage, dressed, sheet, editorMode, readFailed>>
    /\ UNCHANGED <<keptLayout, layoutWrite, edits>>

GuardCancel ==
    /\ question # Absent
    /\ question' = Absent
    /\ UNCHANGED <<keptLayout, layout, grid, chosenPage, activePage, edits, dressed, sheet, editorMode, layoutReads, readFailed, layoutWrite, unsaved>>

-----------------------------------------------------------------------------
(* Gestures on cards. *)

Gesture ==
    /\ editorMode = "edit" /\ question = Absent
    /\ edits < MaxEdits
    /\ edits' = edits + 1
    /\ unsaved' = TRUE
    /\ UNCHANGED <<keptLayout, editorMode, layoutReads, readFailed, layoutWrite, question, chosenPage>>

Changed(item, field) == IF field = "form" THEN [item EXCEPT !.form = 1 - @] ELSE [item EXCEPT !.shown = ~@]

InItem(id, field) ==
    [p \in DOMAIN layout |->
        [layout[p] EXCEPT !.groups = [g \in DOMAIN @ |->
            [i \in DOMAIN @[g] |-> IF @[g][i].id = id THEN Changed(@[g][i], field) ELSE @[g][i]]]]]

OpenSheet(id) ==
    /\ editorMode = "edit" /\ question = Absent /\ sheet = Absent
    /\ id \in dressed
    /\ sheet' = [id |-> id, live |-> Holds(layout, id)]
    /\ UNCHANGED <<keptLayout, layout, grid, chosenPage, activePage, edits, dressed, editorMode, layoutReads, readFailed, layoutWrite, unsaved, question>>

CloseSheet ==
    /\ sheet # Absent
    /\ sheet' = Absent
    /\ UNCHANGED <<keptLayout, layout, grid, chosenPage, activePage, edits, dressed, editorMode, layoutReads, readFailed, layoutWrite, unsaved, question>>

\* applyOptionChange: an item that is none of the layout's changes for nobody.
ChangeOption ==
    /\ Gesture
    /\ sheet # Absent
    /\ layout' = IF sheet.live THEN InItem(sheet.id, "form") ELSE layout
    /\ UNCHANGED <<grid, activePage, dressed, sheet>>

\* applyResize and toggleVisible look the item up, in the layout first.
ChangeCard(id) ==
    /\ Gesture
    /\ sheet = Absent
    /\ id \in dressed
    /\ \/ layout' = InItem(id, "form")
       \/ layout' = InItem(id, "shown")
    /\ UNCHANGED <<grid, activePage, dressed, sheet>>

Without(items, id) == SelectSeq(items, LAMBDA item : item.id # id)
PositionOf(items, id) == CHOOSE i \in DOMAIN items : items[i].id = id

RemoveCard(id) ==
    /\ Gesture
    /\ sheet = Absent
    /\ id \in dressed
    /\ layout' = [p \in DOMAIN layout |-> [layout[p] EXCEPT !.groups = [g \in DOMAIN @ |-> Without(@[g], id)]]]
    /\ grid' = [grid EXCEPT !.cards = Without(@, id)]
    /\ dressed' = dressed \ {id}
    /\ UNCHANGED <<activePage, sheet>>

Before(items, item, before) ==
    IF \E x \in ToSet(items) : x.id = before THEN InsertAt(items, PositionOf(items, before), item) ELSE Append(items, item)

\* moveCardBefore in one group: the neighbour may stand in another one.
Moved(items, id, before) ==
    IF \A item \in ToSet(items) : item.id # id THEN items
    ELSE Before(Without(items, id), items[PositionOf(items, id)], before)

MoveCard(id, before) ==
    /\ Gesture
    /\ sheet = Absent
    /\ id \in dressed /\ id # before
    /\ before \in CardIds \cup {Absent}
    /\ grid' = [grid EXCEPT !.cards = Before(Without(@, id), @[PositionOf(@, id)], before)]
    /\ layout' = [p \in DOMAIN layout |-> [layout[p] EXCEPT !.groups = [g \in DOMAIN @ |-> Moved(@[g], id, before)]]]
    /\ UNCHANGED <<activePage, dressed, sheet>>

NewItem(id) == [id |-> id, form |-> 0, shown |-> TRUE]
GroupFor(page, before) ==
    LET with == {g \in DOMAIN page.groups : \E item \in ToSet(page.groups[g]) : item.id = before}
    IN IF with = {} THEN Len(page.groups) ELSE CHOOSE g \in with : TRUE

\* addFromCatalog: into the neighbour's group, or the last one.
AddCard(id, before) ==
    /\ Gesture
    /\ sheet = Absent
    /\ layout # <<>>
    /\ id \notin Used(layout) \cup CardIds
    /\ before \in CardIds \cup {Absent}
    /\ LET p == CurrentIndex(layout, activePage)
           page == IF layout[p].groups = <<>> THEN [layout[p] EXCEPT !.groups = <<<<>>>>] ELSE layout[p]
       IN layout' = [layout EXCEPT ![p] = [page EXCEPT !.groups[GroupFor(page, before)] = Before(@, NewItem(id), before)]]
    /\ grid' = [grid EXCEPT !.cards = Before(@, Card(id, TRUE), before)]
    /\ dressed' = dressed \cup {id}
    /\ UNCHANGED <<activePage, sheet>>

-----------------------------------------------------------------------------
(* Gestures on pages: the tabs of the shell follow (announcePages). *)

ShowPage(page, pages) ==
    /\ activePage' = page.id
    /\ chosenPage' = page.id
    /\ grid' = Local(page)
    /\ dressed' = dressed \cup ToSet(IdsOf(ItemsOf(page)))
    /\ layout' = pages

PageGesture ==
    /\ editorMode = "edit" /\ question = Absent /\ sheet = Absent
    /\ edits < MaxEdits
    /\ edits' = edits + 1
    /\ unsaved' = TRUE
    /\ UNCHANGED <<keptLayout, editorMode, sheet, layoutReads, readFailed, layoutWrite, question>>

AddPage(id) ==
    /\ PageGesture
    /\ id \notin Used(layout) \cup CardIds
    /\ LET page == [id |-> id, form |-> 0, groups |-> <<<<>>>>] IN ShowPage(page, Append(layout, page))

RemovePage ==
    /\ PageGesture
    /\ Len(layout) > 1
    /\ LET rest == RemoveAt(layout, CurrentIndex(layout, activePage)) IN ShowPage(rest[1], rest)

ChangePage ==
    /\ PageGesture
    /\ layout # <<>>
    /\ LET p == CurrentIndex(layout, activePage)
       IN /\ \/ layout' = [layout EXCEPT ![p].form = 1 - @]
             \/ p > 1 /\ layout' = [layout EXCEPT ![p] = layout[p - 1], ![p - 1] = layout[p]]
             \/ p < Len(layout) /\ layout' = [layout EXCEPT ![p] = layout[p + 1], ![p + 1] = layout[p]]
          /\ activePage' = layout[p].id
          /\ chosenPage' = layout[p].id
    /\ UNCHANGED <<grid, dressed>>

-----------------------------------------------------------------------------
Init ==
    /\ keptLayout \in Layouts
    /\ layout = <<>>
    /\ chosenPage = keptLayout[1].id
    /\ grid = Rendered(keptLayout, keptLayout[1].id)
    /\ dressed = Absent /\ sheet = Absent
    /\ editorMode = "view"
    /\ layoutReads = 0 /\ readFailed = FALSE
    /\ layoutWrite = Absent
    /\ unsaved = FALSE
    /\ question = Absent
    /\ activePage = Absent
    /\ edits = 0

CardGesture == \E id \in CardIds :
    OpenSheet(id) \/ ChangeCard(id) \/ RemoveCard(id) \/ (\E before \in CardIds \cup {Absent} : MoveCard(id, before))

Next ==
    \/ EnterEdit \/ LayoutRead \/ ReadFails \/ Refresh
    \/ \E p \in ToSet(keptLayout) : ClickPage(p.id)
    \/ Save \/ SaveOk \/ SaveFails \/ Discard \/ GuardDiscard \/ GuardCancel
    \/ CardGesture \/ CloseSheet \/ ChangeOption
    \/ \E id \in Ids, before \in CardIds \cup {Absent} : AddCard(id, before)
    \/ \E id \in Ids : AddPage(id)
    \/ RemovePage \/ ChangePage

Spec == Init /\ [][Next]_layoutVars

-----------------------------------------------------------------------------
\* The grid shows the items of the page in their order.
InStep ==
    /\ editorMode = "edit" /\ layout # <<>>
    /\ LET page == Current(layout, activePage)
       IN grid.page = page.id /\ IdsOf(ItemsOf(page)) = IdsOf(grid.cards)

OneGroup == layout # <<>> /\ Len(Current(layout, activePage).groups) = 1

\* A card dragged or dropped stands in the layout where it stands on the
\* screen: a gesture never parts the order of the grid from the order that
\* will be saved, on a page of one group (moveCardBefore, addFromCatalog,
\* removeCard, layout-editor.js:1243-1281, 1912-1955).
GesturesKeepOrder == InStep /\ OneGroup /\ edits' # edits => InStep'

\* While nothing is marked unsaved, the layout in the editor is the stored one,
\* except after a discard whose load() failed: what was thrown away cannot be
\* saved later (confirmLeave, layout-editor.js:2040-2047).
CleanIsStored ==
    editorMode = "edit" /\ ~unsaved /\ layoutReads = 0 /\ ~readFailed /\ layout # <<>> => layout = keptLayout

=============================================================================
