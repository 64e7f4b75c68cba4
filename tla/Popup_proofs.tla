---------------------------- MODULE Popup_proofs ----------------------------
(***************************************************************************)
(* Theorems about Popup: a hidden window never keeps the mouse, a shown    *)
(* one stands on the work area beside the word, and a click takes the word *)
(* it shows, for any owners, rectangles, sizes and lengths of the list.    *)
(***************************************************************************)
EXTENDS Popup, TLAPS

\* A click keeps it: the capture is taken only before the handler hides the
\* window.
LEMMA ClickKeeps == HiddenLetsGo /\ ButtonDown => HiddenLetsGo'
<1> SUFFICES ASSUME HiddenLetsGo, ButtonDown PROVE HiddenLetsGo'
  OBVIOUS
<1> USE DEF HiddenLetsGo
<1>1. PICK h \in targets : ClickRow(h) \/ ClickLetter(h) \/ ClickOther(h)
  BY DEF ButtonDown
<1>2. alive /\ model # Hidden
  BY DEF ButtonDown
<1>3. CASE ClickRow(h)
  BY <1>3 DEF ClickRow, Hide, window
<1>4. ASSUME Command PROVE alive' = alive /\ model' = model
  BY <1>4 DEF Command
<1>5. CASE ClickLetter(h)
  BY <1>2, <1>4, <1>5 DEF ClickLetter, Hide
<1>6. CASE ClickOther(h)
  BY <1>2, <1>4, <1>6 DEF ClickOther, window
<1> QED BY <1>1, <1>3, <1>5, <1>6

\* ... and so does every other step.
LEMMA MouseStep == HiddenLetsGo /\ [Next]_vars => HiddenLetsGo'
<1> SUFFICES ASSUME HiddenLetsGo, [Next]_vars PROVE HiddenLetsGo'
  OBVIOUS
<1> USE DEF HiddenLetsGo
<1>1. PopupModel # Hidden
  BY DEF PopupModel, Hidden
<1>2. ASSUME NEW r, NEW o, Show(r, o) PROVE HiddenLetsGo'
  <2>1. model' # Hidden /\ (capture' => capture /\ alive' = alive)
    BY <1>1, <1>2 DEF Show
  <2> QED BY <2>1
<1>3. CASE Type \/ Turn \/ SwitchEditor
  BY <1>3 DEF Type, Turn, SwitchEditor, Later, Quiet, window
<1>4. CASE RunSession
  BY <1>2, <1>4 DEF RunSession, Quiet, window
<1>5. CASE End
  BY <1>5 DEF End, Hide
<1>6. CASE ThreadFocus
  BY <1>2, <1>6 DEF ThreadFocus, Hide
<1>7. CASE Paint \/ OwnerGone \/ CaptureTaken
  BY <1>7 DEF Paint, OwnerGone, CaptureTaken
<1>8. CASE ButtonDown
  BY <1>8, ClickKeeps
<1>9. ASSUME Command PROVE alive' = alive /\ model' = model
  BY <1>9 DEF Command
<1>10. CASE MouseMove
  BY <1>9, <1>10 DEF MouseMove
<1>11. CASE ButtonUp
  BY <1>11 DEF ButtonUp
<1>12. CASE UNCHANGED vars
  BY <1>12 DEF vars, window
<1> QED BY <1>3, <1>4, <1>5, <1>6, <1>7, <1>8, <1>10, <1>11, <1>12 DEF Next

\* The capture is held by a window that is shown, whatever the click's handler
\* does to the word and wherever windows are destroyed (PopupWindow::hide, the
\* mouse messages of its window procedure).
THEOREM TheMouseIsReleased == Spec => []HiddenLetsGo
<1>1. Init => HiddenLetsGo
  BY DEF Init, HiddenLetsGo
<1> QED BY <1>1, MouseStep, PTL DEF Spec

-----------------------------------------------------------------------------
(* The place.                                                              *)

\* What the geometry needs of the constants: rectangles are not upside down.
Geometry ==
    /\ Rect \subseteq [top : Int, right : Int, bottom : Int]
    /\ \A r \in Rect : r.top <= r.bottom
    /\ Work \in [left : Int, top : Int, right : Int, bottom : Int]
    /\ EditorSize \in [w : Int, h : Int] /\ PageSize \in Nat \ {0} /\ Letters \in Int

Model == [kind : {"hidden", "list", "editor"}, first : Int, count : Int, of : Int]

\* A window that is shown stands where its model and its rectangle put it.
PlaceInv ==
    /\ typed \in Int /\ page \in Int /\ asked \in Rect /\ at.for \in Rect
    /\ model \in Model
    /\ model # Hidden => at = Placed(model, at.for)

\* What the placement gives: inside the work area where it fits, beside the word
\* where there is room on one of its sides.
LEMMA PlacedIsWell ==
    ASSUME Geometry, NEW m \in Model, NEW r \in Rect, r.top >= Work.top, r.bottom <= Work.bottom
    PROVE  LET s == Size(m)
               p == Placed(m, r)
           IN  /\ s.w <= Work.right - Work.left => p.x >= Work.left /\ p.x + s.w <= Work.right
               /\ s.h <= Work.bottom - Work.top => p.y >= Work.top /\ p.y + s.h <= Work.bottom
               /\ r.bottom + Gap + s.h <= Work.bottom \/ r.top - Gap - s.h >= Work.top
                     => p.y >= r.bottom \/ p.y + s.h <= r.top
<1> DEFINE s == Size(m)
           p == Placed(m, r)
<1>1. s.w \in Int /\ s.h \in Int
  BY DEF Size, Geometry, Model
<1>2. /\ r.top \in Int /\ r.right \in Int /\ r.bottom \in Int /\ r.top <= r.bottom
      /\ Work.left \in Int /\ Work.top \in Int /\ Work.right \in Int /\ Work.bottom \in Int
  BY DEF Geometry
<1>3. MinOf(r.right, Work.right) \in Int /\ MinOf(r.right, Work.right) <= Work.right
  BY <1>2 DEF MinOf
<1>4. /\ p.x = IF MinOf(r.right, Work.right) - s.w < Work.left THEN Work.left
                ELSE MinOf(r.right, Work.right) - s.w
      /\ p.y = IF r.bottom + Gap + s.h <= Work.bottom THEN r.bottom + Gap
                ELSE IF r.top - s.h - Gap >= Work.top THEN r.top - s.h - Gap ELSE Work.bottom - s.h
  BY DEF Placed
<1> HIDE DEF s, p
<1>5. s.w <= Work.right - Work.left => p.x >= Work.left /\ p.x + s.w <= Work.right
  BY <1>1, <1>2, <1>3, <1>4
<1>6. s.h <= Work.bottom - Work.top => p.y >= Work.top /\ p.y + s.h <= Work.bottom
  BY <1>1, <1>2, <1>4 DEF Gap
<1>7. r.bottom + Gap + s.h <= Work.bottom \/ r.top - Gap - s.h >= Work.top
         => p.y >= r.bottom \/ p.y + s.h <= r.top
  BY <1>1, <1>2, <1>4 DEF Gap
<1> QED BY <1>5, <1>6, <1>7 DEF s, p

\* Showing places the window by the model it shows.
LEMMA ShowPlaces ==
    ASSUME Geometry, typed \in Int, page \in Int, NEW r \in Rect, NEW o, Show(r, o)
    PROVE  model' \in Model /\ at' = Placed(model', r) /\ at'.for = r
<1>1. PopupModel \in Model
  <2>1. Items(typed) \in Int /\ PagesOf(Items(typed)) \in Int
    BY DEF Items, PagesOf, Geometry
  <2>2. MinOf(page, PagesOf(Items(typed)) - 1) \in Int
    BY <2>1 DEF MinOf
  <2>3. MinOf(page, PagesOf(Items(typed)) - 1) * PageSize \in Int
    BY <2>2 DEF Geometry
  <2>4. MinOf(PageSize, Items(typed) - MinOf(page, PagesOf(Items(typed)) - 1) * PageSize) \in Int
    BY <2>1, <2>3 DEF MinOf, Geometry
  <2> QED BY <2>1, <2>3, <2>4 DEF PopupModel, Model, Geometry
<1> QED BY <1>1 DEF Show, Placed

\* Every step keeps the place and the model together.
LEMMA PlaceStep ==
    ASSUME Geometry
    PROVE  PlaceInv /\ [Next]_vars => PlaceInv'
<1> SUFFICES ASSUME PlaceInv, [Next]_vars PROVE PlaceInv'
  OBVIOUS
<1>h. Hidden \in Model
  BY DEF Hidden, Model
<1>k. UNCHANGED <<typed, page, asked, model, at>> => PlaceInv'
  BY DEF PlaceInv
<1>w. ASSUME Hide, typed' \in Int, page' \in Int, asked' = asked PROVE PlaceInv'
  BY <1>h, <1>w DEF Hide, PlaceInv
<1>s. ASSUME NEW o, asked' \in Rect, typed' = typed, page' = page, Show(asked', o) PROVE PlaceInv'
  BY <1>s, ShowPlaces DEF PlaceInv
<1>1. CASE Type
  BY <1>1 DEF Type, Later, Quiet, window, PlaceInv
<1>2. CASE Turn
  BY <1>2 DEF Turn, Later, Quiet, window, PlaceInv, PagesOf, Items, Geometry
<1>3. CASE SwitchEditor
  BY <1>3 DEF SwitchEditor, Later, Quiet, window, PlaceInv
<1>4. CASE RunSession
  BY <1>k, <1>s, <1>4 DEF RunSession, Quiet, window
<1>5. CASE End
  BY <1>w, <1>5 DEF End, EndWord
<1>6. CASE ThreadFocus
  <2>1. UNCHANGED <<typed, page, asked, owner>>
    BY <1>6 DEF ThreadFocus, service
  <2>2. Hide \/ Show(asked', owner)
    BY <1>6, <2>1 DEF ThreadFocus
  <2>3. typed' \in Int /\ page' \in Int /\ asked' \in Rect
    BY <2>1 DEF PlaceInv
  <2> QED BY <1>w, <1>s, <2>1, <2>2, <2>3
<1>7. CASE Paint \/ OwnerGone \/ CaptureTaken
  BY <1>k, <1>7 DEF Paint, OwnerGone, CaptureTaken, service
<1>8. CASE ButtonDown
  <2>1. PICK h \in targets : ClickRow(h) \/ ClickLetter(h) \/ ClickOther(h)
    BY <1>8 DEF ButtonDown
  <2>2. Command => UNCHANGED <<typed, page, asked, model, at>>
    BY DEF Command, service
  <2>3. CASE ClickRow(h)
    <3>1. UNCHANGED <<service, window>> \/ (EndWord /\ Hide /\ asked' = asked)
      BY <2>3 DEF ClickRow
    <3>2. UNCHANGED <<service, window>> => UNCHANGED <<typed, page, asked, model, at>>
      BY DEF service, window
    <3> QED BY <1>k, <1>w, <3>1, <3>2 DEF EndWord
  <2>4. CASE ClickLetter(h)
    BY <1>k, <1>w, <2>2, <2>4 DEF ClickLetter, EndWord
  <2>5. CASE ClickOther(h)
    BY <1>k, <2>2, <2>5 DEF ClickOther, service, window
  <2> QED BY <2>1, <2>3, <2>4, <2>5
<1>9. CASE MouseMove
  <2>1. Command => UNCHANGED <<typed, page, asked, model, at>>
    BY DEF Command, service
  <2> QED BY <1>k, <1>9, <2>1 DEF MouseMove, service
<1>10. CASE ButtonUp
  BY <1>k, <1>10 DEF ButtonUp, service
<1>11. CASE UNCHANGED vars
  BY <1>k, <1>11 DEF vars, service, window
<1> QED BY <1>1, <1>2, <1>3, <1>4, <1>5, <1>6, <1>7, <1>8, <1>9, <1>10, <1>11 DEF Next

\* A shown popup is on the work area as far as it fits and beside the word where
\* there is room, for any rectangles, sizes and work area (PopupWindow::show).
THEOREM PopupStandsWell ==
    ASSUME Geometry, Rect # {}
    PROVE  Spec => []PlacedWell
<1>1. Init => PlaceInv
  <2> SUFFICES ASSUME Init PROVE PlaceInv
    OBVIOUS
  <2>1. asked \in Rect
    BY DEF Init
  <2>2. Hidden \in Model
    BY DEF Hidden, Model
  <2> QED BY <2>1, <2>2 DEF Init, PlaceInv
<1>2. PlaceInv => PlacedWell
  BY PlacedIsWell DEF PlaceInv, PlacedWell
<1> QED BY <1>1, <1>2, PlaceStep, PTL DEF Spec

-----------------------------------------------------------------------------
(* The rows.                                                               *)

\* The page shown is one the list has.
PageInv ==
    /\ model # Hidden => composing
    /\ composing => typed \in Nat /\ page \in 0..(PagesOf(Items(typed)) - 1)

\* What the window shows is the service's model once no session is due, and what can
\* be clicked is what it shows once no paint is.
RowsInv ==
    /\ ~due /\ model # Hidden => model = PopupModel
    /\ ~dirty /\ alive /\ model # Hidden => targets = Hits(model)
    /\ ClicksTakeWhatTheyShow

\* A list has at least one page.
LEMMA PagesArePositive ==
    ASSUME NEW n \in Nat, PageSize \in Nat \ {0}
    PROVE  PagesOf(Items(n)) \in Nat /\ PagesOf(Items(n)) >= 1
<1>1. Items(n) + PageSize - 1 = n + PageSize
  BY DEF Items
<1> DEFINE q == (n + PageSize) \div PageSize
<1>2. q \in Int /\ n + PageSize < PageSize * (q + 1)
  OBVIOUS
<1> HIDE DEF q
<1>3. PageSize * (q + 1) > PageSize * 1
  BY <1>2
<1>4. q + 1 > 1
  BY <1>2, <1>3
<1> QED BY <1>1, <1>2, <1>4 DEF PagesOf, q

\* The row of a painted page holds the item the service takes from it.
LEMMA RowsHoldTheirPlace ==
    ASSUME PageSize \in Nat \ {0}, PageInv, composing, NEW h \in Hits(PopupModel), h.hit = "row"
    PROVE  ~editor /\ h.word = <<typed, ItemOf(h)>>
<1> DEFINE m == PopupModel
<1>1. m.kind = "list"
  BY DEF Hits, ChipHits, LetterHits, PaletteHits, Cell
<1>2. ~editor
  BY <1>1 DEF PopupModel
<1>3. MinOf(page, PagesOf(Items(typed)) - 1) = page
  BY PagesArePositive DEF PageInv, MinOf
<1>4. m.of = typed /\ m.first = page * PageSize + 1
  BY <1>2, <1>3 DEF PopupModel
<1> HIDE DEF m
<1>5. h \in ListHits(m)
  BY <1>1 DEF Hits, m
<1>6. PICK i \in 1..m.count : h = Cell("row", i, <<m.of, m.first + i - 1>>)
  BY <1>5 DEF ListHits, Cell
<1>7. h.item = i /\ h.word = <<m.of, m.first + i - 1>>
  BY <1>6 DEF Cell
<1>8. page * PageSize \in Int /\ i \in Int
  BY DEF PageInv
<1>9. m.first + i - 1 = page * PageSize + i
  BY <1>4, <1>8
<1> QED BY <1>2, <1>4, <1>7, <1>9 DEF ItemOf

\* A click keeps both.
LEMMA ClickTakes ==
    ASSUME PageSize \in Nat \ {0}, PageInv, RowsInv, ButtonDown
    PROVE  PageInv' /\ RowsInv'
<1>1. PICK h \in targets : ClickRow(h) \/ ClickLetter(h) \/ ClickOther(h)
  BY DEF ButtonDown
<1>2. alive /\ model # Hidden
  BY DEF ButtonDown
<1>h. ASSUME EndWord, Hide PROVE model' = Hidden /\ PageInv'
  BY <1>h DEF EndWord, Hide, PageInv
<1>k. ASSUME UNCHANGED <<service, alive, model, targets, dirty, taken>> PROVE PageInv' /\ RowsInv'
  BY <1>k DEF service, PageInv, RowsInv, PopupModel, ClicksTakeWhatTheyShow
<1>c. ASSUME Command, taken' = taken PROVE PageInv' /\ RowsInv'
  <2>1. CASE ~editor
    BY <1>k, <1>c, <2>1 DEF Command
  <2>2. CASE editor
    BY <1>c, <2>2 DEF Command, PageInv, RowsInv, ClicksTakeWhatTheyShow
  <2> QED BY <2>1, <2>2
<1>3. CASE ClickRow(h)
  <2>1. CASE UNCHANGED <<service, window, capture, taken>>
    BY <1>k, <2>1 DEF window
  <2>2. CASE /\ taken' = [shown |-> h.word, got |-> IF editor THEN <<>> ELSE <<typed, ItemOf(h)>>,
                          settled |-> ~due /\ ~dirty]
             /\ EndWord /\ Hide
    <3>1. ASSUME ~due, ~dirty PROVE ~editor /\ h.word = <<typed, ItemOf(h)>>
      <4>1. h \in Hits(PopupModel) /\ composing /\ h.hit = "row"
        BY <1>2, <1>3, <3>1 DEF RowsInv, ClickRow
      <4> QED BY <4>1, RowsHoldTheirPlace
    <3>2. ClicksTakeWhatTheyShow'
      BY <2>2, <3>1 DEF ClicksTakeWhatTheyShow
    <3> QED BY <1>h, <2>2, <3>2 DEF RowsInv
  <2> QED BY <1>3, <2>1, <2>2 DEF ClickRow
<1>4. CASE ClickLetter(h)
  <2>1. (Command /\ taken' = taken) \/ (EndWord /\ Hide /\ taken' = taken)
    BY <1>4 DEF ClickLetter
  <2>2. taken' = taken => ClicksTakeWhatTheyShow'
    BY DEF RowsInv, ClicksTakeWhatTheyShow
  <2> QED BY <1>c, <1>h, <2>1, <2>2 DEF RowsInv
<1>5. CASE ClickOther(h)
  <2>1. (Command /\ taken' = taken) \/ UNCHANGED <<service, window, taken>>
    BY <1>5 DEF ClickOther
  <2> QED BY <1>c, <1>k, <2>1 DEF window
<1> QED BY <1>1, <1>3, <1>4, <1>5

\* Every step keeps both.
LEMMA RowsStep ==
    ASSUME PageSize \in Nat \ {0}, MaxTyped \in Nat, PageInv, RowsInv, [Next]_vars
    PROVE  PageInv' /\ RowsInv'
<1>k. ASSUME UNCHANGED <<service, alive, model, targets, dirty, taken>> PROVE PageInv' /\ RowsInv'
  BY <1>k DEF service, PageInv, RowsInv, PopupModel, ClicksTakeWhatTheyShow
<1>t. taken' = taken => ClicksTakeWhatTheyShow'
  BY DEF RowsInv, ClicksTakeWhatTheyShow
<1>d. ASSUME due', UNCHANGED <<window, taken>> PROVE RowsInv'
  BY <1>d, <1>t DEF window, RowsInv, Hits
<1>s. ASSUME NEW r, NEW o, Show(r, o), composing, UNCHANGED <<composing, typed, page, editor, taken>>
      PROVE  PageInv' /\ RowsInv'
  <2>1. model' = PopupModel /\ dirty' /\ PopupModel' = PopupModel
    BY <1>s DEF Show, PopupModel
  <2> QED BY <1>s, <1>t, <2>1 DEF PageInv, RowsInv
<1>e. ASSUME Hide, taken' = taken PROVE model' = Hidden /\ RowsInv'
  BY <1>e, <1>t DEF Hide, RowsInv
<1>1. CASE Type
  <2>1. /\ typed' \in Nat /\ page' = 0 /\ composing' /\ due' /\ UNCHANGED <<window, taken>>
    BY <1>1 DEF Type, Later, Quiet
  <2>2. PageInv'
    BY <2>1, PagesArePositive DEF PageInv
  <2> QED BY <1>d, <2>1, <2>2
<1>2. CASE Turn
  <2>1. /\ page' \in 0..(PagesOf(Items(typed)) - 1) /\ due'
        /\ UNCHANGED <<composing, typed, window, taken>>
    BY <1>2 DEF Turn, Later, Quiet
  <2>2. PageInv'
    BY <2>1 DEF PageInv, window
  <2> QED BY <1>d, <2>1, <2>2
<1>3. CASE SwitchEditor
  <2>1. due' /\ UNCHANGED <<composing, typed, page, window, taken>>
    BY <1>3 DEF SwitchEditor, Later, Quiet
  <2>2. PageInv'
    BY <2>1 DEF PageInv, window
  <2> QED BY <1>d, <2>1, <2>2
<1>4. CASE RunSession
  <2>1. UNCHANGED <<composing, typed, page, editor, taken>>
    BY <1>4 DEF RunSession
  <2>2. CASE composing
    BY <1>4, <1>s, <2>1, <2>2 DEF RunSession
  <2>3. CASE ~composing
    <3>1. UNCHANGED window
      BY <1>4, <2>3 DEF RunSession, Quiet
    <3> QED BY <1>t, <2>1, <2>3, <3>1 DEF window, PageInv, RowsInv
  <2> QED BY <2>2, <2>3
<1>5. CASE End
  <2>1. Hide /\ ~composing' /\ taken' = taken
    BY <1>5 DEF End, EndWord
  <2> QED BY <1>e, <2>1 DEF PageInv
<1>6. CASE ThreadFocus
  <2>1. composing /\ UNCHANGED <<composing, typed, page, editor, taken>>
    BY <1>6 DEF ThreadFocus, service
  <2>2. CASE Hide
    BY <1>e, <2>1, <2>2 DEF PageInv
  <2>3. CASE Show(asked, owner)
    BY <1>s, <2>1, <2>3
  <2> QED BY <1>6, <2>2, <2>3 DEF ThreadFocus
<1>7. CASE Paint
  <2>1. targets' = Hits(model') /\ UNCHANGED <<service, model, taken>>
    BY <1>7 DEF Paint
  <2> QED BY <1>t, <2>1 DEF service, PageInv, RowsInv, PopupModel
<1>8. CASE OwnerGone
  <2>1. ~alive' /\ UNCHANGED <<service, model, taken>>
    BY <1>8 DEF OwnerGone
  <2> QED BY <1>t, <2>1 DEF service, PageInv, RowsInv, PopupModel
<1>9. CASE CaptureTaken
  BY <1>k, <1>9 DEF CaptureTaken
<1>10. CASE ButtonDown
  BY <1>10, ClickTakes
<1>11. CASE MouseMove
  <2>1. taken' = taken /\ (Command \/ UNCHANGED <<service, alive, model, targets, dirty>>)
    BY <1>11 DEF MouseMove
  <2>2. CASE Command /\ editor
    BY <1>t, <2>1, <2>2 DEF Command, PageInv, RowsInv
  <2>3. CASE Command /\ ~editor
    BY <1>k, <2>1, <2>3 DEF Command
  <2> QED BY <1>k, <2>1, <2>2, <2>3
<1>12. CASE ButtonUp
  BY <1>k, <1>12 DEF ButtonUp
<1>13. CASE UNCHANGED vars
  BY <1>k, <1>13 DEF vars, window
<1> QED BY <1>1, <1>2, <1>3, <1>4, <1>5, <1>6, <1>7, <1>8, <1>9, <1>10, <1>11, <1>12, <1>13 DEF Next

\* A click on a row commits the word the row shows once the session of the last change
\* has run and the window is painted, for lists and pages of any length
\* (on_popup_event, paint_list, popup_model).
THEOREM ClicksTakeTheRow ==
    ASSUME PageSize \in Nat \ {0}, MaxTyped \in Nat
    PROVE  Spec => []ClicksTakeWhatTheyShow
<1>1. Init => PageInv /\ RowsInv
  BY DEF Init, PageInv, RowsInv, ClicksTakeWhatTheyShow
<1>2. PageInv /\ RowsInv /\ [Next]_vars => PageInv' /\ RowsInv'
  BY RowsStep
<1>3. RowsInv => ClicksTakeWhatTheyShow
  BY DEF RowsInv
<1> QED BY <1>1, <1>2, <1>3, PTL DEF Spec
=============================================================================
