------------------------------- MODULE Picker -------------------------------
(***************************************************************************)
(* The picker a user chooses rows with (internal/picker/picker.go): the    *)
(* rows a filter shows, the cursor and the window over them, and the rows  *)
(* that are selected, under keys and resizes of the terminal.  A picker is *)
(* one value and a key maps it to the next, as Update does; Planning.tla   *)
(* shows one.  A definition marked MUTATION is the one below it with a     *)
(* mistake in it.                                                          *)
(***************************************************************************)
EXTENDS Integers, Sequences, FiniteSets

CONSTANTS
  Height,     \* rows the caller asks to see (multiSelectHeight)
  Chars,      \* characters a filter is typed from, the space among them
  Terminals,  \* bound: heights the terminal is resized to
  MaxFilter   \* bound: characters a filter grows to

ASSUME PickerAssumption ==
  /\ Height \in Nat \ {0} /\ Terminals \subseteq Nat \ {0} /\ MaxFilter \in Nat

ChromeLines == 4  \* the title, the header, the filter and the footer

\* Places of a sequence in their order, and what the sequence has there.
InOrder(places) ==
  [n \in 1..Cardinality(places) |->
     CHOOSE i \in places : Cardinality({j \in places : j <= i}) = n]
At(seq, places) ==
  LET order == InOrder(places)
  IN  [n \in 1..Len(order) |-> seq[order[n]]]

AtMost(a, b)  == IF a < b THEN a ELSE b
AtLeast(a, b) == IF a > b THEN a ELSE b

\* Items are haystacks; shown are the indexes of those that match, and the
\* cursor and the top of the window count into shown from 0.
Pickers ==
  [items : Seq(Seq(Chars)), single : BOOLEAN, selected : SUBSET Nat, shown : Seq(Nat),
   filter : Seq(Chars), cursor : Int, top : Int, termRows : Nat,
   end : {"open", "confirmed", "aborted"}]

\* The rows drawn at once, once the terminal has said how high it is.
Rows(m) ==
  IF m.termRows = 0 THEN Height
  ELSE AtLeast(1, AtMost(Height, m.termRows - ChromeLines))

\* MUTATION: the window is not scrolled down to the cursor.
ClampWindowAbove(m) ==
  LET last   == AtLeast(0, Len(m.shown) - 1)
      cursor == AtMost(AtLeast(m.cursor, 0), last)
  IN  [m EXCEPT !.cursor = cursor,
                !.top = AtLeast(0, AtMost(AtMost(m.top, cursor), Len(m.shown) - Rows(m)))]

\* clampWindow: the cursor on a row that is shown, and the window scrolled the
\* least that brings it into view, then pulled up as long as it can be filled.
ClampWindow(m) ==
  LET last    == AtLeast(0, Len(m.shown) - 1)
      cursor  == AtMost(AtLeast(m.cursor, 0), last)
      notPast == AtMost(m.top, cursor)
      inView  == AtLeast(notPast, cursor - Rows(m) + 1)
  IN  [m EXCEPT !.cursor = cursor,
                !.top = AtLeast(0, AtMost(inView, Len(m.shown) - Rows(m)))]

Contains(hay, needle) ==
  \E k \in 0..(Len(hay) - Len(needle)) : SubSeq(hay, k + 1, k + Len(needle)) = needle

HasCursor(m) == m.cursor >= 0 /\ m.cursor < Len(m.shown)
UnderCursor(m) == m.shown[m.cursor + 1]
Matches(m, filter) == InOrder({i \in 1..Len(m.items) : Contains(m.items[i], filter)})

\* MUTATION: the cursor keeps its row, whatever is on it now.
RefilterByRow(m) == ClampWindow([m EXCEPT !.shown = Matches(m, m.filter)])

\* refilter: the cursor stays on its item, or goes to the first that matches.
Refilter(m) ==
  LET shown == Matches(m, m.filter)
      stays == {c \in 1..Len(shown) : HasCursor(m) /\ shown[c] = UnderCursor(m)}
  IN  ClampWindow([m EXCEPT !.shown = shown,
                            !.cursor = IF stays = {} THEN 0 ELSE (CHOOSE c \in stays : TRUE) - 1])

NewModel(items, single) ==
  Refilter([items |-> items, single |-> single, selected |-> {}, shown |-> <<>>,
            filter |-> <<>>, cursor |-> 0, top |-> 0, termRows |-> 0, end |-> "open"])

Resize(m, rows) == ClampWindow([m EXCEPT !.termRows = rows])

Typed(m, filter) == Refilter([m EXCEPT !.filter = filter])
Moved(m, by) == ClampWindow([m EXCEPT !.cursor = @ + by])

ToggleCursor(m) ==
  IF ~HasCursor(m) THEN m
  ELSE [m EXCEPT !.selected = IF UnderCursor(m) \in @ THEN @ \ {UnderCursor(m)}
                                                      ELSE @ \union {UnderCursor(m)}]

ShownItems(m) == {m.shown[c] : c \in 1..Len(m.shown)}

ToggleAllShown(m) ==
  IF ShownItems(m) \subseteq m.selected THEN [m EXCEPT !.selected = @ \ ShownItems(m)]
                                        ELSE [m EXCEPT !.selected = @ \union ShownItems(m)]

Editing == {"tab", "ctrl+a", "up", "down", "backspace"} \union Chars
Keys == {"ctrl+c", "esc", "enter"} \union Editing

\* handleExitKey: esc clears a filter before it leaves; enter takes what is
\* selected, or the row under the cursor of a single choice.
HandleExitKey(m, key) ==
  CASE key = "ctrl+c" -> [m EXCEPT !.end = "aborted"]
    [] key = "esc"    -> IF m.filter # <<>> THEN Typed(m, <<>>) ELSE [m EXCEPT !.end = "aborted"]
    [] key = "enter"  -> IF ~m.single THEN [m EXCEPT !.end = "confirmed"]
                         ELSE IF m.shown = <<>> THEN m
                         ELSE [m EXCEPT !.selected = {UnderCursor(m)}, !.end = "confirmed"]

\* handleEditKey: space toggles until something has been typed.
HandleEditKey(m, key) ==
  CASE key = "up"   -> Moved(m, -1)
    [] key = "down" -> Moved(m, 1)
    [] key = "backspace" -> IF m.filter = <<>> THEN m ELSE Typed(m, SubSeq(m.filter, 1, Len(m.filter) - 1))
    [] key = "tab"    -> IF m.single THEN m ELSE ToggleCursor(m)
    [] key = "ctrl+a" -> IF m.single THEN m ELSE ToggleAllShown(m)
    [] key = " " /\ m.filter = <<>> /\ ~m.single -> ToggleCursor(m)
    [] OTHER -> Typed(m, Append(m.filter, key))

Update(m, key) == IF key \in Editing THEN HandleEditKey(m, key) ELSE HandleExitKey(m, key)

\* MUTATION: places among the rows the filter shows.
PickedByPlace(m) == {c \in 1..Len(m.shown) : m.shown[c] \in m.selected}

\* What runModel returns: the items selected, those the filter hides among them.
Picked(m) == m.selected

\* The row under the cursor is one the window draws, and the window is full
\* whenever there are rows to fill it.
CursorIsDrawn(m) ==
  /\ m.shown # <<>> => HasCursor(m)
  /\ 0 <= m.top /\ m.top <= m.cursor /\ m.cursor < m.top + Rows(m)
  /\ m.top > 0 => m.top + Rows(m) <= Len(m.shown)

=============================================================================
