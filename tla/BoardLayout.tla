---------------------------- MODULE BoardLayout ----------------------------
(***************************************************************************)
(* The generator: main() of generate.py writes one board after the other;  *)
(* layout() of builder/common.py walks over the panels of a board and      *)
(* gives each a place in the grid of 24 columns: left to right, a new line *)
(* when the line is full or at a row, then the ids.                        *)
(***************************************************************************)
EXTENDS Naturals, Sequences

CONSTANT Panels     \* per board its panels: type, w, h and the panels in a collapsed row

Columns == 24
InnerHeight == 14

InnerRecord == [w : 1..Columns, h : Nat]
PanelRecord == [type : STRING, w : 1..Columns, h : Nat \ {0}, inner : Seq(InnerRecord)]

ASSUME PanelsAssumption ==
  /\ Panels \in Seq(Seq(PanelRecord))
  /\ \A n \in 1..Len(Panels) :
       /\ Len(Panels[n]) <= 100
       /\ \A k \in 1..Len(Panels[n]) :
            /\ Panels[n][k].type = "row" => Panels[n][k].h = 1
            /\ Len(Panels[n][k].inner) < 100
            /\ \A q \in 1..Len(Panels[n][k].inner) : Panels[n][k].inner[q].h <= InnerHeight

VARIABLES
  board,    \* the board being laid out; the boards before it are written
  x, y,     \* where the next panel goes if it fits
  row_h,    \* height of the line so far
  placed    \* place of every panel laid out so far

layoutVars == <<board, x, y, row_h, placed>>

Generated == board > Len(Panels)
Current == Panels[board]
NextPanel == Current[Len(placed) + 1]

LayoutInit ==
  /\ board = 1
  /\ x = 0 /\ y = 0 /\ row_h = 0
  /\ placed = <<>>

\* The line ends before a panel that does not fit.
Wraps(p) == x + p.w > Columns
Left(p) == IF Wraps(p) THEN 0 ELSE x
\* Mistake: the height of the line ended is forgotten.
TopOfSameLine(p) == y
Top(p) == IF Wraps(p) THEN y + row_h ELSE y
LineHeight(p) == IF ~Wraps(p) /\ row_h > p.h THEN row_h ELSE p.h

PlacePanel ==
  /\ ~Generated
  /\ Len(placed) < Len(Current)
  /\ NextPanel.type # "row"
  /\ placed' = Append(placed, [x |-> Left(NextPanel), y |-> Top(NextPanel)])
  /\ x' = Left(NextPanel) + NextPanel.w
  /\ y' = Top(NextPanel)
  /\ row_h' = LineHeight(NextPanel)
  /\ UNCHANGED board

\* A row has a line of its own.
PlaceRow ==
  /\ ~Generated
  /\ Len(placed) < Len(Current)
  /\ NextPanel.type = "row"
  /\ placed' = Append(placed, [x |-> 0, y |-> y + row_h])
  /\ x' = 0
  /\ y' = y + row_h + 1
  /\ row_h' = 0
  /\ UNCHANGED board

WriteBoard ==
  /\ ~Generated
  /\ Len(placed) = Len(Current)
  /\ board' = board + 1
  /\ x' = 0 /\ y' = 0 /\ row_h' = 0
  /\ placed' = <<>>

LayoutNext == PlacePanel \/ PlaceRow \/ WriteBoard

LayoutSpec == LayoutInit /\ [][LayoutNext]_layoutVars

\* The panels of a collapsed row, below each other under the row.
InnerY(k, q) == placed[k].y + 1 + (q - 1) * InnerHeight

Id(k) == k
InnerId(k, q) == k * 100 + q

----------------------------------------------------------------------------
(* Properties                                                              *)

LayoutTypeOK ==
  /\ board \in 1..Len(Panels) + 1
  /\ x \in 0..Columns
  /\ y \in Nat
  /\ row_h \in Nat
  /\ placed \in Seq([x : 0..Columns, y : Nat])
  /\ IF Generated THEN placed = <<>> ELSE Len(placed) <= Len(Current)

\* Panel k ends above or left of panel m, which comes later.
Precedes(k, m) ==
  \/ placed[k].y + Current[k].h <= placed[m].y
  \/ /\ placed[k].y = placed[m].y
     /\ placed[k].x + Current[k].w <= placed[m].x

\* layout() "flow left-to-right": however the sizes are mixed, no two panels
\* overlap and a panel never lies above or left of one listed before it.
\* The panels of a row do not overlap when it is opened.
NoOverlap ==
  \A m \in 1..Len(placed) :
    /\ \A k \in 1..m - 1 : Precedes(k, m)
    /\ \A q, r \in 1..Len(Current[m].inner) :
         q < r => InnerY(m, q) + Current[m].inner[q].h <= InnerY(m, r)

\* Every panel ends inside the grid.
InsideGrid == \A k \in 1..Len(placed) : placed[k].x + Current[k].w <= Columns

\* Ids: a link, an alert or the JSON of Grafana names a panel by its id.  No
\* two panels of a board have the same one, whether in a row or not.
IdsUnique ==
  ~Generated =>
    \A k, m \in 1..Len(Current) :
      /\ \A q \in 1..Len(Current[m].inner) : Id(k) # InnerId(m, q)
      /\ \A q \in 1..Len(Current[m].inner), r \in 1..Len(Current[k].inner) :
           InnerId(m, q) = InnerId(k, r) => m = k /\ q = r
=============================================================================
