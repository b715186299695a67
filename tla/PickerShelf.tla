---------------------------- MODULE PickerShelf -----------------------------
(***************************************************************************)
(* The library on screen and the cursor over it (gotg_ui/browser.py,       *)
(* grid.py, filters.py, keyboard.py, texting.py, remembered.py,            *)
(* catalog.Library, and the grid's, the panel's and the keyboard's         *)
(* handlers in app.py): narrowed five ways, drawn in two shapes, kept in a *)
(* file for the next time.  A search is how far a word has been typed, and *)
(* a game knows how far it matches.  One event a frame: a second one in    *)
(* the same frame acts on the grid the frame began with (app.py:852).      *)
(***************************************************************************)
EXTENDS Integers, FiniteSets, Sequences, SequencesExt

CONSTANTS Games,      \* the library: a sequence of [platform, region, hits]
          Shape,      \* view -> <<columns, rows>>
          Word,       \* how far the word can be typed
          KeyRows,    \* the on-screen keyboard's row widths, the last the four named keys
          Installable,  \* the games that come and go
          MaxFaults   \* bound on the saves of the file that fail

VARIABLES b,          \* Browser: the filters, the view, the page and the tile
          installed,  \* what the last answer said is here
          screen,     \* the panel and the keyboard over the grid
          file        \* what the disk remembers, and what the loop believes it does

vars == <<b, installed, screen, file>>

ALL == "all"
Presence == <<ALL, "installed", "not installed">>
Views == <<"grid", "rows">>
Platforms == <<ALL>> \o SetToSeq({Games[i].platform : i \in DOMAIN Games})
Regions == <<ALL>> \o SetToSeq({Games[i].region : i \in DOMAIN Games})

Fields == {"platform", "region", "presence", "search", "view"}
snapshot(x) == [f \in Fields |-> x[f]]
Fresh == [platform |-> ALL, region |-> ALL, presence |-> ALL, search |-> 0, view |-> "grid", page |-> 0, sel |-> 0]
Shut == [panel |-> 0, rows |-> <<>>, choice |-> 0, keys |-> <<0, 0>>, from |-> 0]

(* Library.filter and Browser._reframe: the games on screen, by their place *)

Fits(x, here, i) ==
  /\ x.platform \in {ALL, Games[i].platform}
  /\ x.region \in {ALL, Games[i].region} \/ Games[i].region = "world"
  /\ Games[i].hits >= x.search
  /\ x.presence = "installed" => i \in here
  /\ x.presence = "not installed" => i \notin here

\* Those that fit, in the library's order.
filter(x, here) ==
  LET kept == {i \in DOMAIN Games : Fits(x, here, i)}
  IN [k \in 1..Cardinality(kept) |-> CHOOSE i \in kept : Cardinality({j \in kept : j < i}) = k - 1]

visible == filter(b, installed)

PerPage(x) == Shape[x.view][1] * Shape[x.view][2]
PagesOf(n, x) == (n + PerPage(x) - 1) \div PerPage(x)
Least(x, y) == IF x < y THEN x ELSE y
OnPage(n, x) == Least(PerPage(x), n - x.page * PerPage(x))
Index(x) == x.page * PerPage(x) + x.sel

reframe(x) == [x EXCEPT !.page = 0, !.sel = 0]

(* grid.py, over n games *)

Within(n, x) == [x EXCEPT !.sel = Least(@, OnPage(n, x) - 1)]

CanTurn(n, x, delta) == x.page + delta \in 0..PagesOf(n, x) - 1

turnAsIs(n, x, delta) == IF CanTurn(n, x, delta) THEN [x EXCEPT !.page = @ + delta] ELSE x

turn(n, x, delta) == IF CanTurn(n, x, delta) THEN Within(n, [x EXCEPT !.page = @ + delta]) ELSE x

\* A step down that leaves the last line of a list and turns no page stays.
vertical(n, x, dy) ==
  LET columns == Shape[x.view][1]
      rows == Shape[x.view][2]
      row == x.sel \div columns + dy
      turned == turn(n, x, dy)
  IN IF columns > 1 THEN [to |-> x, row |-> Least(IF row < 0 THEN 0 ELSE row, rows - 1)]
     ELSE IF row < 0 THEN [to |-> turned, row |-> IF CanTurn(n, x, dy) THEN rows - 1 ELSE 0]
     ELSE IF row >= rows \/ row >= OnPage(n, x)
     THEN [to |-> turned, row |-> IF CanTurn(n, x, dy) THEN 0 ELSE Least(row, OnPage(n, x) - 1)]
     ELSE [to |-> x, row |-> row]

horizontal(n, x, dx) ==
  LET columns == Shape[x.view][1]
      column == (x.sel % columns) + dx
  IN IF column \in 0..columns - 1 THEN [to |-> x, column |-> column]
     ELSE [to |-> turn(n, x, dx),
           column |-> IF CanTurn(n, x, dx) THEN (IF dx < 0 THEN columns - 1 ELSE 0)
                      ELSE IF dx < 0 THEN 0 ELSE columns - 1]

move(n, x, dx, dy) ==
  LET columns == Shape[x.view][1]
      down == vertical(n, x, dy)
      across == horizontal(n, x, dx)
  IN IF n = 0 THEN x
     ELSE IF dy # 0 THEN Within(n, [down.to EXCEPT !.sel = down.row * columns + (x.sel % columns)])
     ELSE Within(n, [across.to EXCEPT !.sel = (x.sel \div columns) * columns + across.column])

(* browser.py *)

showAtHome(x, i, found) == [x EXCEPT !.sel = 0]

\* The cursor is put back on the game it was on, wherever that now is.
show(x, i, found) ==
  LET at == {k \in DOMAIN found : found[k] = i}
  IN IF at = {} THEN x
     ELSE LET k == (CHOOSE k \in at : TRUE) - 1
          IN [x EXCEPT !.page = k \div PerPage(x), !.sel = k % PerPage(x)]

set_view(x, here, view) ==
  LET found == filter(x, here)
      shaped == reframe([x EXCEPT !.view = view])
  IN IF view = x.view THEN x
     ELSE IF Index(x) >= Len(found) THEN shaped ELSE show(shaped, found[Index(x) + 1], found)

Narrowed(x, f, v) == reframe([x EXCEPT ![f] = v])

Cycled(options, v, delta) ==
  LET k == CHOOSE k \in DOMAIN options : options[k] = v
  IN options[1 + ((k - 1 + delta) % Len(options))]

(* remembered.py: kept at the end of a frame that changed it *)

keepOnceShut(x) ==
  IF screen.panel > 0 THEN UNCHANGED file
  ELSE file' = [file EXCEPT !.last = snapshot(x), !.disk = snapshot(x)]

\* The frame's tail.  A save that fails is believed all the same.
keep(x) ==
  LET data == snapshot(x)
  IN IF data = file.last THEN UNCHANGED file
     ELSE \/ file' = [file EXCEPT !.last = data, !.disk = data]
          \/ file.faults < MaxFaults /\ file' = [file EXCEPT !.last = data, !.faults = @ + 1]

\* Each setter refuses what it does not know.
apply(data) ==
  LET known(f, options) == IF data[f] \in ToSet(options) THEN data[f] ELSE Fresh[f]
      narrowed == [Fresh EXCEPT !.platform = known("platform", Platforms), !.region = known("region", Regions),
                                !.presence = known("presence", Presence), !.search = data["search"]]
  IN [narrowed EXCEPT !.view = known("view", Views)]

Gone == [f \in Fields |-> IF f = "search" THEN 0 ELSE "gone"]

Init ==
  \E data \in {Gone, snapshot(Fresh)} :
    /\ b = apply(data) /\ installed \in SUBSET Installable /\ screen = Shut
    /\ file = [disk |-> data, last |-> data, faults |-> 0]

\* Closed at any frame's end, and opened on what the file says.
Reopen == b' = apply(file.disk) /\ installed' \in SUBSET Installable /\ screen' = Shut /\ file' = [file EXCEPT !.last = file.disk]

(* the grid *)

OnGrid == screen = Shut /\ UNCHANGED installed

Set(x) == b' = x /\ keep(x)

Move(dx, dy) == OnGrid /\ UNCHANGED screen /\ Set(move(Len(visible), b, dx, dy))

\* Hover and click select a tile there is; the shoulders and the wheel turn.
Point == /\ OnGrid /\ UNCHANGED screen
         /\ \/ \E i \in 0..OnPage(Len(visible), b) - 1 : Set([b EXCEPT !.sel = i])
            \/ \E delta \in {-1, 1} : Set(turn(Len(visible), b, delta))

\* Y, and the I key.
Shortcut == /\ OnGrid /\ UNCHANGED screen
            /\ \/ Set(Narrowed(b, "platform", Cycled(Platforms, b.platform, 1)))
               \/ Set(Narrowed(b, "presence", IF b.presence = "installed" THEN ALL ELSE "installed"))

PanelRows == <<"platform", "region", "presence", "search", "clear", "view">>

Open == /\ OnGrid /\ Set(b)
        /\ \/ \E offer \in {<<>>, <<"update">>} : screen' = [Shut EXCEPT !.panel = 1, !.rows = offer \o PanelRows]
           \/ screen' = [Shut EXCEPT !.keys = <<2, 1>>, !.from = b.search]

(* the panel *)

OnPanel == screen.panel > 0 /\ screen.keys = <<0, 0>> /\ UNCHANGED installed

Row == screen.rows[screen.panel]

options_for(row) ==
  CASE row = "platform" -> Platforms [] row = "region" -> Regions [] row = "presence" -> Presence
    [] row = "view" -> Views [] OTHER -> <<>>

set_value(x, row, v) == IF row = "view" THEN set_view(x, installed, v) ELSE Narrowed(x, row, v)

clear(x) == reframe([x EXCEPT !.platform = ALL, !.region = ALL, !.search = 0, !.presence = ALL])

PanelStep ==
  /\ OnPanel
  /\ \E delta \in {-1, 1} :
       \/ /\ screen.choice > 0 /\ Set(b)
          /\ screen' = [screen EXCEPT !.choice = 1 + ((@ - 1 + delta) % Len(options_for(Row)))]
       \/ /\ screen.choice = 0 /\ Set(b)
          /\ screen' = [screen EXCEPT !.panel = 1 + ((@ - 1 + delta) % Len(screen.rows))]
       \/ /\ screen.choice = 0 /\ UNCHANGED screen
          /\ Set(IF options_for(Row) = <<>> THEN b
                 ELSE set_value(b, Row, Cycled(options_for(Row), b[Row], delta)))

PanelPress ==
  /\ OnPanel
  /\ \/ /\ screen.choice > 0 /\ screen' = [screen EXCEPT !.choice = 0]
        /\ Set(set_value(b, Row, options_for(Row)[screen.choice]))
     \/ /\ screen.choice = 0 /\ options_for(Row) # <<>> /\ Set(b)
        /\ screen' = [screen EXCEPT !.choice = CHOOSE k \in DOMAIN options_for(Row) : options_for(Row)[k] = b[Row]]
     \/ screen.choice = 0 /\ Row = "clear" /\ UNCHANGED screen /\ Set(clear(b))
     \/ screen.choice = 0 /\ Row = "search" /\ Set(b) /\ screen' = [screen EXCEPT !.keys = <<2, 1>>, !.from = b.search]
     \/ screen.choice = 0 /\ Row = "update" /\ Set(b) /\ screen' = Shut

PanelBack ==
  /\ OnPanel /\ Set(b)
  /\ screen' = IF screen.choice > 0 THEN [screen EXCEPT !.choice = 0] ELSE Shut

(* the keyboard: what is typed narrows the grid under it *)

OnTyping == screen.keys # <<0, 0>> /\ UNCHANGED installed

Down == [screen EXCEPT !.keys = <<0, 0>>, !.from = 0]

Searched(n) == Set(IF n = b.search THEN b ELSE Narrowed(b, "search", n))

\* Between rows of different lengths the cursor keeps its place along the row.
KeyStep(keys, dx, dy) ==
  LET row == 1 + ((keys[1] - 1 + dy) % Len(KeyRows))
      width == KeyRows[row]
      was == KeyRows[keys[1]]
      col == IF width = was THEN keys[2] - 1 ELSE ((keys[2] - 1) * width) \div was
  IN <<row, 1 + ((col + dx) % width)>>

KeyMove ==
  /\ OnTyping /\ Set(b)
  /\ \E step \in {<<-1, 0>>, <<1, 0>>, <<0, -1>>, <<0, 1>>} :
       screen' = [screen EXCEPT !.keys = KeyStep(@, step[1], step[2])]

KeyPress ==
  /\ OnTyping
  /\ IF screen.keys[1] < Len(KeyRows) \/ screen.keys[2] = 1
     THEN Searched(Least(b.search + 1, Word)) /\ UNCHANGED screen
     ELSE CASE screen.keys[2] = 2 -> Searched(IF b.search = 0 THEN 0 ELSE b.search - 1) /\ UNCHANGED screen
            [] screen.keys[2] = 3 -> Searched(0) /\ UNCHANGED screen
            [] screen.keys[2] = 4 -> Set(b) /\ screen' = Down

\* Return keeps the search; Escape goes back to the one typing began from.
KeyLeave == /\ OnTyping /\ screen' = Down
            /\ Set(b) \/ Set(Narrowed(b, "search", screen.from))

\* An answer lands: the cursor moves only when the filter is on.
set_installed ==
  /\ installed' \in SUBSET Installable /\ UNCHANGED screen
  /\ Set(IF b.presence = ALL THEN b ELSE reframe(b))

Next == \/ Reopen \/ Point \/ Shortcut \/ Open \/ PanelStep \/ PanelPress \/ PanelBack
        \/ KeyMove \/ KeyPress \/ KeyLeave \/ set_installed
        \/ \E step \in {<<-1, 0>>, <<1, 0>>, <<0, -1>>, <<0, 1>>} : Move(step[1], step[2])

Spec == Init /\ [][Next]_vars

\* The cursor is on a game whenever there is one to be on, whatever narrowed
\* the library, turned the page, changed the shape or landed
\* (grid.py move and turn, browser.py _reframe and set_shape).
CursorStands == visible # <<>> => b.page < PagesOf(Len(visible), b) /\ b.sel < OnPage(Len(visible), b)

Held(x, here) == LET found == filter(x, here) IN IF Index(x) < Len(found) THEN found[Index(x) + 1] ELSE 0

\* Changing how the library is drawn keeps the game in hand; down and up in
\* the list move one game on, over the end of a page too, and stop at the ends
\* (browser.py set_shape, grid.py move).
Steps ==
  /\ screen.panel > 0 /\ screen'.panel > 0 /\ b'.view # b.view => Held(b', installed') = Held(b, installed)
  /\ \A dy \in {-1, 1} :
       Move(0, dy) /\ b.view = "rows" /\ visible # <<>>
         => Index(b') = (IF Index(b) + dy \in 0..Len(visible) - 1 THEN Index(b) + dy ELSE Index(b))

ShelfSteps == [][Steps]_vars

\* The picker opens on the filters it was closed with, unless saving them failed
\* (remembered.py).
ReopensAsLeft == file.faults = 0 => snapshot(apply(file.disk)) = snapshot(b)
=============================================================================
