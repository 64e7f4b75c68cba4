------------------------------- MODULE Popup -------------------------------
(***************************************************************************)
(* The popup window (t3a-ui win/mod.rs) and the text service behind it     *)
(* (show_popup, hide_popup, popup_model, on_popup_event, service.rs).      *)
(*                                                                         *)
(* The service's state changes at once, the window is told when the edit   *)
(* session runs, and what can be clicked is known when it is painted.      *)
(* Items count from 1.  What is drawn is what can be clicked.              *)
(***************************************************************************)
EXTENDS Integers

CONSTANTS
    Owner,       \* top-level windows of the application
    Rect,        \* where the word may stand: [top, right, bottom]
    Work,        \* the monitor's work area: [left, top, right, bottom]
    PageSize,    \* State::page_size
    EditorSize,  \* size of the window with the editor: [w, h]
    MaxTyped,    \* bound on the letters typed
    Letters,     \* letters of the word in the editor
    Chips        \* quick picks that fit into the editor's top bar

VARIABLES
    composing,   \* State: a word is typed
    typed,       \* its letters: the list depends on them
    page,        \* State::page, from 0
    editor,      \* State::tashkeel is Some
    asked,       \* State::text_rect
    owner,       \* State::owner_hwnd
    due,         \* an edit session that will show the popup is queued
    alive,       \* Windows still has the window
    windowOwner, \* PopupWindow::owner, "none" without a window
    model,       \* PopupState::model
    targets,     \* PopupState::targets, as [hit, item]
    drag,        \* PopupState::drag_letter, 0 for None
    at,          \* where the window stands: [x, y, for: the rectangle it was placed for]
    dirty,       \* a WM_PAINT is due
    capture,     \* the window has the mouse capture
    pressed,     \* the left button is down
    taken        \* the last click on a row: what it showed, what was committed, nothing was due

service == <<composing, typed, page, editor, asked, owner, due>>
window == <<alive, windowOwner, model, targets, drag, at, dirty>>
vars == <<service, window, capture, pressed, taken>>

-----------------------------------------------------------------------------
(* The model and its size.                                                 *)

Hidden == [kind |-> "hidden", first |-> 0, count |-> 0, of |-> 0]

\* popup_model: the editor, or the page of the list that the letters give.
Items(n) == n + 1
PagesOf(n) == (n + PageSize - 1) \div PageSize
MinOf(a, b) == IF a < b THEN a ELSE b

PopupModel ==
    IF editor THEN [kind |-> "editor", first |-> 1, count |-> Letters, of |-> typed]
    ELSE LET start == MinOf(page, PagesOf(Items(typed)) - 1) * PageSize
         IN  [kind |-> "list", first |-> start + 1, count |-> MinOf(PageSize, Items(typed) - start), of |-> typed]

\* PopupState::size: a header and a footer around the rows.
Size(m) == IF m.kind = "editor" THEN EditorSize ELSE [w |-> 2, h |-> m.count + 1]

\* PopupWindow::show: the right edges of the word and the popup meet, as far as
\* the monitor allows; below the word, else above it, else at the bottom.
Gap == 1   \* two pixels

AlwaysBelowOrBottom(m, r) ==   \* mutant: the popup never goes above the word
    LET s == Size(m)
        right == MinOf(r.right, Work.right)
    IN  [x |-> IF right - s.w < Work.left THEN Work.left ELSE right - s.w,
         y |-> MinOf(r.bottom + Gap, Work.bottom - s.h), for |-> r]

Placed(m, r) ==
    LET s == Size(m)
        right == MinOf(r.right, Work.right)
        below == r.bottom + Gap
        above == r.top - s.h - Gap
    IN  [x |-> IF right - s.w < Work.left THEN Work.left ELSE right - s.w,
         y |-> IF below + s.h <= Work.bottom THEN below
               ELSE IF above >= Work.top THEN above ELSE Work.bottom - s.h,
         for |-> r]

-----------------------------------------------------------------------------
(* Showing and hiding.                                                     *)

\* show_popup with PopupWindow::show: a window of another owner, or one that is
\* gone, is replaced; the new one has not been painted and holds no capture.
Show(r, o) ==
    /\ model' = PopupModel /\ at' = Placed(model', r) /\ dirty' = TRUE
    /\ IF alive /\ windowOwner = o
       THEN UNCHANGED <<alive, windowOwner, targets, drag, capture>>
       ELSE alive' = TRUE /\ windowOwner' = o /\ targets' = {} /\ drag' = 0 /\ capture' = FALSE

\* hide_popup with PopupWindow::hide.  A hidden window is not painted.
Hide ==
    /\ model' = Hidden /\ targets' = {} /\ drag' = 0
    /\ capture' = FALSE
    /\ dirty' = FALSE /\ UNCHANGED <<alive, windowOwner, at>>

Quiet == UNCHANGED <<window, capture>>

\* The edit session that will show the popup, run at once or later.
Later == due' = TRUE /\ Quiet

EndWord == composing' = FALSE /\ typed' = 0 /\ page' = 0 /\ editor' = FALSE

\* push_char, Backspace: the list is built again.
Type ==
    /\ ~editor /\ typed' \in {typed + 1, typed - 1} \cap (1..MaxTyped)
    /\ composing' = TRUE /\ page' = 0
    /\ Later /\ UNCHANGED <<editor, asked, owner, pressed, taken>>

\* The keys that move in the list, and the wheel over a window that shows one.
Turn ==
    /\ composing /\ (~editor \/ (alive /\ model.kind = "list"))
    /\ page' \in 0..(PagesOf(Items(typed)) - 1) /\ page' # page
    /\ Later /\ UNCHANGED <<composing, typed, editor, asked, owner, pressed, taken>>

\* A shortcut opens the editor on the highlighted word, Esc leaves it.
SwitchEditor ==
    /\ composing /\ editor' = ~editor
    /\ Later /\ UNCHANGED <<composing, typed, page, asked, owner, pressed, taken>>

\* DocOp::Preview and Relayout: the word's place and its window are read first.
RunSession ==
    /\ due /\ due' = FALSE
    /\ IF composing THEN asked' \in Rect /\ owner' \in Owner /\ Show(asked', owner')
       ELSE Quiet /\ UNCHANGED <<asked, owner>>
    /\ UNCHANGED <<composing, typed, page, editor, pressed, taken>>

\* A commit by key, the word's end, the focus going away: hide_popup.
End ==
    /\ composing /\ EndWord /\ Hide
    /\ UNCHANGED <<asked, owner, due, pressed, taken>>

\* OnKillThreadFocus hides it, OnSetThreadFocus shows it again.
ThreadFocus ==
    /\ composing /\ IF model # Hidden THEN Hide ELSE Show(asked, owner)
    /\ UNCHANGED <<service, pressed, taken>>

-----------------------------------------------------------------------------
(* Windows.                                                                *)

\* paint_list: the rows of the page and the Settings tab.
Cell(hit, item, word) == [hit |-> hit, item |-> item, word |-> word]
ListHits(m) ==
    {Cell("row", i, <<m.of, m.first + i - 1>>) : i \in 1..m.count} \union {Cell("settings", 0, <<>>)}

\* paint_tashkeel: "clear all" and the chips that fit beside it, the letters,
\* the palette.
ChipHits == {Cell("clear", 0, <<>>)} \union {Cell("pick", i, <<>>) : i \in 1..Chips}
LetterHits(m) == {Cell("letter", i, <<>>) : i \in 1..m.count}
PaletteHits == {Cell("mark", i, <<>>) : i \in 1..2}

\* WM_PAINT: what is drawn can be clicked, where it is drawn.
Hits(m) == IF m.kind = "list" THEN ListHits(m) ELSE ChipHits \union LetterHits(m) \union PaletteHits

Paint ==
    /\ dirty /\ alive /\ dirty' = FALSE /\ targets' = Hits(model)
    /\ UNCHANGED <<service, alive, windowOwner, model, drag, at, capture, pressed, taken>>

\* The owner is destroyed, and the popup with it.
OwnerGone ==
    /\ alive /\ alive' = FALSE /\ capture' = FALSE
    /\ UNCHANGED <<service, windowOwner, model, targets, drag, at, dirty, pressed, taken>>

\* Another window takes the capture: WM_CAPTURECHANGED.
CaptureTaken ==
    /\ capture /\ capture' = FALSE /\ drag' = 0
    /\ UNCHANGED <<service, alive, windowOwner, model, targets, at, dirty, pressed, taken>>

-----------------------------------------------------------------------------
(* The mouse.                                                              *)

\* A letter or a mark: the editor's command and its preview; a panic on the
\* way ends in passthrough_cleanup, which hides the popup.
Command ==
    IF ~editor THEN UNCHANGED <<service, alive, windowOwner, model, targets, at, dirty>>
    ELSE /\ due' = TRUE
         /\ UNCHANGED <<composing, typed, page, editor, asked, owner, alive, windowOwner, model, targets, at, dirty>>

RowOnly(h) == h.item   \* mutant: the page is not counted

\* Row n of the page to its item; the editor's word is committed instead while
\* it is open.
ItemOf(h) == page * PageSize + h.item

ClickRow(h) ==
    /\ h.hit = "row" /\ composing
    /\ IF ItemOf(h) > Items(typed) THEN UNCHANGED <<service, window, capture, taken>>
       ELSE /\ taken' = [shown |-> h.word, got |-> IF editor THEN <<>> ELSE <<typed, ItemOf(h)>>,
                         settled |-> ~due /\ ~dirty]
            /\ EndWord /\ Hide /\ UNCHANGED <<asked, owner, due>>

\* A letter starts a drag and takes the capture before the handler runs.
CaptureLast(h) ==   \* mutant: the capture is taken after the handler
    /\ h.hit = "letter"
    /\ \/ drag' = h.item /\ Command
       \/ editor /\ EndWord /\ UNCHANGED <<asked, owner, due>>
          /\ model' = Hidden /\ targets' = {} /\ drag' = 0 /\ dirty' = FALSE /\ UNCHANGED <<alive, windowOwner, at>>
    /\ capture' = TRUE /\ UNCHANGED taken

ClickLetter(h) ==
    /\ h.hit = "letter"
    /\ \/ capture' = TRUE /\ drag' = h.item /\ Command
       \/ editor /\ EndWord /\ UNCHANGED <<asked, owner, due>> /\ Hide
    /\ UNCHANGED taken

ClickOther(h) ==
    /\ h.hit \in {"mark", "pick", "clear", "settings"}
    /\ IF h.hit = "settings" THEN UNCHANGED <<service, window, capture>> ELSE Command /\ UNCHANGED <<drag, capture>>
    /\ UNCHANGED taken

\* WM_LBUTTONDOWN on what the last paint drew there.
ButtonDown ==
    /\ alive /\ model # Hidden /\ ~pressed /\ pressed' = TRUE
    /\ \E h \in targets : ClickRow(h) \/ ClickLetter(h) \/ ClickOther(h)

\* WM_MOUSEMOVE onto a letter while dragging; without the button the drag ends.
MouseMove ==
    /\ alive /\ drag # 0 /\ UNCHANGED <<pressed, capture, taken>>
    /\ \/ /\ ~pressed /\ drag' = 0
          /\ UNCHANGED <<service, alive, windowOwner, model, targets, at, dirty>>
       \/ /\ pressed
          /\ \E h \in targets : h.hit = "letter" /\ h.item # drag /\ drag' = h.item /\ Command

\* WM_LBUTTONUP goes to the window with the capture or the one under the
\* pointer.
ButtonUp ==
    /\ pressed /\ pressed' = FALSE
    /\ \/ (capture \/ (alive /\ model # Hidden)) /\ drag' = 0 /\ capture' = FALSE
       \/ ~capture /\ UNCHANGED <<drag, capture>>
    /\ UNCHANGED <<service, alive, windowOwner, model, targets, at, dirty, taken>>

-----------------------------------------------------------------------------
Init ==
    /\ composing = FALSE /\ typed = 0 /\ page = 0 /\ editor = FALSE /\ due = FALSE
    /\ asked = (CHOOSE r \in Rect : TRUE) /\ owner = (CHOOSE o \in Owner : TRUE)
    /\ alive = FALSE /\ windowOwner = "none" /\ model = Hidden /\ targets = {} /\ drag = 0
    /\ at = [x |-> 0, y |-> 0, for |-> asked] /\ dirty = FALSE
    /\ capture = FALSE /\ pressed = FALSE
    /\ taken = [shown |-> <<>>, got |-> <<>>, settled |-> FALSE]

Next ==
    \/ Type \/ Turn \/ SwitchEditor \/ RunSession \/ End \/ ThreadFocus
    \/ Paint \/ OwnerGone \/ CaptureTaken
    \/ ButtonDown \/ MouseMove \/ ButtonUp

Spec == Init /\ [][Next]_vars

-----------------------------------------------------------------------------
(* Properties.                                                             *)

\* "A hidden window must never keep the mouse: every click in the app would go
\* to it" (hide, win/mod.rs): the capture is taken before the handler runs,
\* which may end the word, and is held by a window that is shown.
HiddenLetsGo == capture => model # Hidden /\ alive

\* A popup for a word on the work area stands on it as far as it fits, and
\* covers the word only where there is room neither below nor above (show,
\* docs/05 3: at the bottom edge it flips above).
PlacedWell ==
    LET s == Size(model)
        r == at.for
    IN  model # Hidden /\ r.top >= Work.top /\ r.bottom <= Work.bottom =>
        /\ s.w <= Work.right - Work.left => at.x >= Work.left /\ at.x + s.w <= Work.right
        /\ s.h <= Work.bottom - Work.top => at.y >= Work.top /\ at.y + s.h <= Work.bottom
        /\ r.bottom + Gap + s.h <= Work.bottom \/ r.top - Gap - s.h >= Work.top
              => at.y >= r.bottom \/ at.y + s.h <= r.top

\* A click on a row commits the word the row shows, once the session of the last
\* change has run and the window is painted: rows hold their place on the page,
\* and the page may turn between the paint and the click (on_popup_event).
ClicksTakeWhatTheyShow == taken.settled => taken.shown = taken.got

=============================================================================
