-------------------------- MODULE DashboardsProofs --------------------------
(***************************************************************************)
(* Theorems of Dashboards for any boards that keep the rules and any data  *)
(* in the stores: what a user sees after any clicks and picks.             *)
(***************************************************************************)
EXTENDS QueryCheckProofs

Rules == BoardsAskable /\ BoardsConsistent

-----------------------------------------------------------------------------
(* The layout, for every list of panels and not only for the boards there  *)
(* are                                                                     *)

LEMMA ElementOf ==
  ASSUME NEW S, NEW s \in Seq(S), NEW n \in 1..Len(s)
  PROVE  s[n] \in S
OBVIOUS

\* What the assumption says of the board at hand.
LEMMA CurrentPanels ==
  ASSUME LayoutTypeOK, ~Generated
  PROVE  /\ board \in 1..Len(Panels)
         /\ Current \in Seq(PanelRecord)
         /\ Len(Current) \in Nat
         /\ Len(Current) <= 100
<1>1. Panels \in Seq(Seq(PanelRecord))
  BY PanelsAssumption
<1>2. board \in 1..Len(Panels)
  BY <1>1 DEF LayoutTypeOK, Generated
<1>3. Current \in Seq(PanelRecord)
  BY <1>1, <1>2 DEF Current
<1>4. Len(Current) <= 100
  BY <1>2, PanelsAssumption DEF Current
<1> QED BY <1>2, <1>3, <1>4

\* And of one of its panels.
LEMMA CurrentPanel ==
  ASSUME LayoutTypeOK, ~Generated, NEW k \in 1..Len(Current)
  PROVE  /\ Current[k].w \in 1..Columns /\ Current[k].w \in Nat
         /\ Current[k].h \in Nat \ {0}
         /\ Current[k].type = "row" => Current[k].h = 1
         /\ Current[k].inner \in Seq(InnerRecord)
         /\ Len(Current[k].inner) < 100
         /\ \A q \in 1..Len(Current[k].inner) :
              Current[k].inner[q].h \in Nat /\ Current[k].inner[q].h <= InnerHeight
<1>1. Current[k] \in PanelRecord
  BY CurrentPanels, ElementOf
<1>2. /\ Current[k].w \in 1..Columns
      /\ Current[k].h \in Nat \ {0}
      /\ Current[k].inner \in Seq(InnerRecord)
  BY <1>1 DEF PanelRecord
<1>3. /\ Current[k].type = "row" => Current[k].h = 1
      /\ Len(Current[k].inner) < 100
      /\ \A q \in 1..Len(Current[k].inner) : Current[k].inner[q].h <= InnerHeight
  BY CurrentPanels, PanelsAssumption DEF Current
<1>4. ASSUME NEW q \in 1..Len(Current[k].inner)
      PROVE  Current[k].inner[q].h \in Nat
  <2>1. Current[k].inner[q] \in InnerRecord
    BY <1>2, ElementOf
  <2> QED BY <2>1 DEF InnerRecord
<1>5. Current[k].w \in Nat
  <2>1. \A a \in 1..24 : a \in Nat
    OBVIOUS
  <2> QED BY <1>2, <2>1, Zenon DEF Columns
<1> QED BY <1>2, <1>3, <1>4, <1>5

----------------------------------------------------------------------------
(* The inductive invariant: NoOverlap compares panels already placed; that *)
(* the next one overlaps none of them needs the line being filled: every   *)
(* panel ends above it or left of x in it, and none reaches below it.      *)

Frontier ==
  \A k \in 1..Len(placed) :
    /\ placed[k].y + Current[k].h <= y + row_h
    /\ \/ placed[k].y + Current[k].h <= y
       \/ /\ placed[k].y = y
          /\ placed[k].x + Current[k].w <= x

LayoutInv ==
  /\ LayoutTypeOK
  /\ ~Generated => InsideGrid /\ NoOverlap /\ Frontier

Spot == [x : 0..Columns, y : Nat]

\* What stays and what is new when a panel gets its place.
LEMMA Placing ==
  ASSUME LayoutTypeOK, ~Generated, Len(placed) < Len(Current),
         NEW px \in 0..Columns, NEW py \in Nat,
         placed' = Append(placed, [x |-> px, y |-> py]), board' = board
  PROVE  /\ ~Generated' /\ Current' = Current
         /\ placed' \in Seq(Spot)
         /\ Len(placed) \in Nat /\ Len(placed') = Len(placed) + 1
         /\ Len(placed') <= Len(Current)
         /\ \A k \in 1..Len(placed) : placed'[k] = placed[k] /\ placed[k] \in Spot
         /\ placed'[Len(placed')] = [x |-> px, y |-> py]
         /\ Len(placed') \in 1..Len(Current)
<1>1. placed \in Seq(Spot) /\ Len(placed) \in Nat
  BY DEF LayoutTypeOK, Spot
<1>2. [x |-> px, y |-> py] \in Spot
  BY DEF Spot
<1>3. ~Generated' /\ Current' = Current
  BY DEF Generated, Current
<1>4. /\ placed' \in Seq(Spot)
      /\ Len(placed') = Len(placed) + 1
      /\ \A k \in 1..Len(placed) : placed'[k] = placed[k]
      /\ placed'[Len(placed')] = [x |-> px, y |-> py]
  BY <1>1, <1>2
<1>5. \A k \in 1..Len(placed) : placed[k] \in Spot
  BY <1>1, ElementOf
<1>6. Len(Current) \in Nat
  BY CurrentPanels
<1>7. \A n, c \in Nat : n < c => n + 1 <= c /\ n + 1 \in 1..c
  OBVIOUS
<1>8. Len(placed) + 1 <= Len(Current) /\ Len(placed) + 1 \in 1..Len(Current)
  BY <1>1, <1>6, <1>7
<1> QED BY <1>1, <1>3, <1>4, <1>5, <1>8

\* A panel that is behind every panel before it keeps the boards in order.
LEMMA PlacedBehind ==
  ASSUME LayoutInv, ~Generated, Len(placed) < Len(Current),
         NEW px \in 0..Columns, NEW py \in Nat,
         placed' = Append(placed, [x |-> px, y |-> py]), board' = board,
         px + NextPanel.w <= Columns,
         \A k \in 1..Len(placed) :
           \/ placed[k].y + Current[k].h <= py
           \/ placed[k].y = py /\ placed[k].x + Current[k].w <= px
  PROVE  InsideGrid' /\ NoOverlap'
<1> DEFINE n == Len(placed)
<1>1. LayoutTypeOK /\ InsideGrid /\ NoOverlap
  BY DEF LayoutInv
<1>2. /\ ~Generated' /\ Current' = Current
      /\ n \in Nat /\ Len(placed') = n + 1
      /\ \A k \in 1..n : placed'[k] = placed[k] /\ placed[k] \in Spot
      /\ placed'[n + 1] = [x |-> px, y |-> py]
      /\ n + 1 \in 1..Len(Current) /\ n + 1 <= Len(Current)
  BY <1>1, Placing
<1>3. NextPanel = Current[n + 1]
  BY DEF NextPanel
<1>4. InsideGrid'
  <2>1. \A k \in 1..n + 1 : k \in 1..n \/ k = n + 1
    BY <1>2
  <2> QED BY <1>1, <1>2, <1>3, <2>1 DEF InsideGrid
<1>5. ASSUME NEW m \in 1..n + 1, NEW k \in 1..m - 1
      PROVE  Precedes(k, m)'
  <2>1. k \in 1..n
    BY <1>2
  <2>2. CASE m \in 1..n
    <3>1. Precedes(k, m)
      BY <1>1, <2>2 DEF NoOverlap
    <3> QED BY <1>2, <2>1, <2>2, <3>1 DEF Precedes
  <2>3. CASE m = n + 1
    BY <1>2, <2>1, <2>3 DEF Precedes
  <2> QED BY <2>2, <2>3, <1>2
<1>6. ASSUME NEW m \in 1..n + 1, NEW q \in 1..Len(Current[m].inner),
             NEW r \in 1..Len(Current[m].inner), q < r
      PROVE  InnerY(m, q)' + Current[m].inner[q].h <= InnerY(m, r)'
  <2>1. placed'[m].y \in Nat
    <3>1. CASE m \in 1..n
      BY <1>2, <3>1 DEF Spot
    <3>2. CASE m = n + 1
      BY <1>2, <3>2
    <3> QED BY <3>1, <3>2, <1>2
  <2>2. m \in 1..Len(Current)
    <3>1. Len(Current) \in Nat
      BY <1>1, CurrentPanels
    <3> QED BY <1>2, <3>1
  <2>3. /\ Current[m].inner[q].h \in Nat /\ Current[m].inner[q].h <= InnerHeight
        /\ Current[m].inner \in Seq(InnerRecord)
    BY <1>1, <2>2, CurrentPanel
  <2>4. q \in Nat /\ r \in Nat
    BY <2>3
  <2>5. \A t, h, a, b \in Nat : a < b /\ h <= 14 =>
          t + 1 + (a - 1) * 14 + h <= t + 1 + (b - 1) * 14
    OBVIOUS
  <2>6. /\ InnerY(m, q)' = placed'[m].y + 1 + (q - 1) * 14
        /\ InnerY(m, r)' = placed'[m].y + 1 + (r - 1) * 14
    BY DEF InnerY, InnerHeight
  <2> QED BY <1>6, <2>1, <2>3, <2>4, <2>5, <2>6 DEF InnerHeight
<1>7. NoOverlap'
  BY <1>2, <1>5, <1>6 DEF NoOverlap
<1> QED BY <1>4, <1>7

\* The invariant as a fact about numbers, for one panel already placed.
LEMMA Behind ==
  ASSUME LayoutInv, ~Generated, NEW k \in 1..Len(placed)
  PROVE  /\ k \in 1..Len(Current)
         /\ placed[k].x \in 0..Columns /\ placed[k].y \in Nat
         /\ Current[k].w \in 1..Columns /\ Current[k].h \in Nat \ {0}
         /\ placed[k].y + Current[k].h <= y + row_h
         /\ \/ placed[k].y + Current[k].h <= y
            \/ placed[k].y = y /\ placed[k].x + Current[k].w <= x
<1>1. LayoutTypeOK /\ Frontier
  BY DEF LayoutInv
<1>2. placed \in Seq(Spot) /\ Len(placed) <= Len(Current)
  BY <1>1 DEF LayoutTypeOK, Spot
<1>3. placed[k] \in Spot
  BY <1>2, ElementOf
<1>4. Len(Current) \in Nat
  BY <1>1, CurrentPanels
<1>5. k \in 1..Len(Current)
  <2>1. Len(placed) \in Nat
    BY <1>2
  <2> QED BY <1>2, <1>4, <2>1
<1>6. Current[k].w \in 1..Columns /\ Current[k].h \in Nat \ {0}
  BY <1>1, <1>5, CurrentPanel
<1> QED BY <1>1, <1>3, <1>5, <1>6 DEF Spot, Frontier

LEMMA PanelStep ==
  ASSUME LayoutInv, PlacePanel
  PROVE  LayoutInv'
<1> DEFINE p == NextPanel
           n == Len(placed)
           px == Left(NextPanel)
           py == Top(NextPanel)
<1>1. /\ LayoutTypeOK /\ ~Generated /\ n < Len(Current)
      /\ placed' = Append(placed, [x |-> px, y |-> py]) /\ board' = board
      /\ x' = px + p.w /\ y' = py /\ row_h' = LineHeight(p)
  BY DEF LayoutInv, PlacePanel
<1>2. n \in Nat /\ Len(Current) \in Nat
  BY <1>1, CurrentPanels DEF LayoutTypeOK
<1>3. p = Current[n + 1] /\ n + 1 \in 1..Len(Current)
  BY <1>1, <1>2 DEF NextPanel
<1>4. p.w \in 1..24 /\ p.w \in Nat /\ p.h \in Nat /\ p.h > 0
  BY <1>1, <1>3, CurrentPanel DEF Columns
<1>5. x \in 0..24 /\ y \in Nat /\ row_h \in Nat
  BY <1>1 DEF LayoutTypeOK, Columns
<1>6. /\ px \in 0..24 /\ px \in Nat /\ py \in Nat
      /\ px + p.w <= 24 /\ px + p.w \in 0..24
      /\ LineHeight(p) \in Nat /\ p.h <= LineHeight(p)
  BY <1>4, <1>5 DEF Left, Top, LineHeight, Wraps, Columns
<1>7. ASSUME NEW k \in 1..n
      PROVE  /\ placed[k].y + Current[k].h <= py + LineHeight(p)
             /\ \/ placed[k].y + Current[k].h <= py
                \/ placed[k].y = py /\ placed[k].x + Current[k].w <= px
  <2>1. /\ placed[k].x \in 0..24 /\ placed[k].y \in Nat
        /\ Current[k].w \in 1..24 /\ Current[k].h \in Nat
        /\ placed[k].y + Current[k].h <= y + row_h
        /\ \/ placed[k].y + Current[k].h <= y
           \/ placed[k].y = y /\ placed[k].x + Current[k].w <= x
    BY <1>1, Behind DEF Columns
  <2>2. CASE Wraps(p)
    BY <1>4, <1>5, <2>1, <2>2 DEF Left, Top, LineHeight
  <2>3. CASE ~Wraps(p)
    BY <1>4, <1>5, <2>1, <2>3 DEF Left, Top, LineHeight
  <2> QED BY <2>2, <2>3
<1>8. InsideGrid' /\ NoOverlap'
  BY <1>1, <1>6, <1>7, PlacedBehind DEF Columns
<1>9. /\ ~Generated' /\ Current' = Current
      /\ placed' \in Seq(Spot) /\ Len(placed') = n + 1 /\ Len(placed') <= Len(Current)
      /\ \A k \in 1..n : placed'[k] = placed[k] /\ placed[k] \in Spot
      /\ placed'[n + 1] = [x |-> px, y |-> py]
  BY <1>1, <1>6, Placing DEF Columns
<1>10. LayoutTypeOK'
  BY <1>1, <1>6, <1>9 DEF LayoutTypeOK, Spot, Columns
<1>11. Frontier'
  <2>1. ASSUME NEW k \in 1..n + 1
        PROVE  /\ placed'[k].y + Current[k].h <= py + LineHeight(p)
               /\ \/ placed'[k].y + Current[k].h <= py
                  \/ placed'[k].y = py /\ placed'[k].x + Current[k].w <= px + p.w
    <3>1. CASE k \in 1..n
      <4>1. placed[k].x \in 0..24 /\ Current[k].w \in 1..24
        BY <1>1, <3>1, Behind DEF Columns
      <4>2. \A c \in 0..24, d \in 1..24, a \in 0..24, b \in 1..24 :
              a + b <= c => a + b <= c + d
        OBVIOUS
      <4> HIDE DEF p, px
      <4>4. placed[k].x + Current[k].w <= px => placed[k].x + Current[k].w <= px + p.w
        BY <1>4, <1>6, <4>1, <4>2, Zenon
      <4>3. placed'[k] = placed[k]
        BY <1>9, <3>1
      <4> QED BY <1>7, <3>1, <4>4, <4>3
    <3>2. CASE k = n + 1
      <4>1. placed'[k].x = px /\ placed'[k].y = py /\ Current[k] = p
        BY <1>3, <1>9, <3>2
      <4>2. \A a, b, c \in Nat : b <= c => a + b <= a + c
        OBVIOUS
      <4>4. py + p.h <= py + LineHeight(p)
        BY <1>4, <1>6, <4>2
      <4>5. px + p.w <= px + p.w
        BY <1>4, <1>6, <4>2
      <4> QED BY <4>1, <4>4, <4>5
    <3> QED BY <1>2, <3>1, <3>2
  <2> QED BY <1>1, <1>9, <2>1 DEF Frontier
<1> QED BY <1>8, <1>10, <1>11 DEF LayoutInv

LEMMA RowStep ==
  ASSUME LayoutInv, PlaceRow
  PROVE  LayoutInv'
<1> DEFINE p == NextPanel
           n == Len(placed)
           py == y + row_h
<1>1. /\ LayoutTypeOK /\ ~Generated /\ n < Len(Current) /\ p.type = "row"
      /\ placed' = Append(placed, [x |-> 0, y |-> py]) /\ board' = board
      /\ x' = 0 /\ y' = py + 1 /\ row_h' = 0
  BY DEF LayoutInv, PlaceRow
<1>2. n \in Nat /\ Len(Current) \in Nat
  BY <1>1, CurrentPanels DEF LayoutTypeOK
<1>3. p = Current[n + 1] /\ n + 1 \in 1..Len(Current)
  BY <1>1, <1>2 DEF NextPanel
<1>4. p.w \in 1..24 /\ p.h = 1
  BY <1>1, <1>3, CurrentPanel DEF Columns
<1>5. y \in Nat /\ row_h \in Nat /\ py \in Nat /\ 0 \in 0..24
  BY <1>1 DEF LayoutTypeOK
<1>6. ASSUME NEW k \in 1..n
      PROVE  placed[k].y + Current[k].h <= py
  BY <1>1, <1>6, Behind
<1>7. InsideGrid' /\ NoOverlap'
  <2>1. 0 \in 0..Columns /\ 0 + NextPanel.w <= Columns
    BY <1>4 DEF Columns
  <2>2. \A k \in 1..n : \/ placed[k].y + Current[k].h <= py
                        \/ placed[k].y = py /\ placed[k].x + Current[k].w <= 0
    BY <1>6
  <2> HIDE DEF py
  <2> QED BY <1>1, <1>5, <2>1, <2>2, PlacedBehind
<1>8. /\ ~Generated' /\ Current' = Current
      /\ placed' \in Seq(Spot) /\ Len(placed') = n + 1 /\ Len(placed') <= Len(Current)
      /\ \A k \in 1..n : placed'[k] = placed[k] /\ placed[k] \in Spot
      /\ placed'[n + 1] = [x |-> 0, y |-> py]
  BY <1>1, <1>5, Placing DEF Columns
<1>9. LayoutTypeOK'
  BY <1>1, <1>5, <1>8 DEF LayoutTypeOK, Spot, Columns
<1>10. Frontier'
  <2>1. ASSUME NEW k \in 1..n + 1
        PROVE  placed'[k].y + Current[k].h <= py + 1
    <3>1. CASE k \in 1..n
      <4>1. placed[k].y \in Nat /\ Current[k].h \in Nat
        BY <1>1, <3>1, Behind
      <4> QED BY <1>5, <1>6, <1>8, <3>1, <4>1
    <3>2. CASE k = n + 1
      BY <1>3, <1>4, <1>5, <1>8, <3>2
    <3> QED BY <1>2, <3>1, <3>2
  <2>2. py + 1 <= py + 1 + 0
    BY <1>5
  <2>3. ASSUME NEW k \in 1..n + 1
        PROVE  placed'[k].y + Current[k].h <= py + 1 + 0
    BY <1>5, <2>1
  <2> QED BY <1>1, <1>8, <2>1, <2>3 DEF Frontier
<1> QED BY <1>7, <1>9, <1>10 DEF LayoutInv

LEMMA WriteStep ==
  ASSUME LayoutInv, WriteBoard
  PROVE  LayoutInv'
<1>1. LayoutTypeOK /\ board \in 1..Len(Panels)
  BY CurrentPanels DEF LayoutInv, WriteBoard
<1>2. /\ board' = board + 1 /\ x' = 0 /\ y' = 0 /\ row_h' = 0
      /\ placed' = <<>>
  BY DEF WriteBoard
<1>3. Len(Panels) \in Nat
  BY PanelsAssumption
<1>4. LayoutTypeOK'
  <2>1. board' \in 1..Len(Panels) + 1
    BY <1>1, <1>2, <1>3
  <2>2. placed' \in Seq([x : 0..Columns, y : Nat]) /\ Len(placed') = 0
    BY <1>2
  <2>3. ~Generated' => Len(Current') \in Nat
    <3>1. SUFFICES ASSUME ~Generated' PROVE Len(Current') \in Nat
      OBVIOUS
    <3>2. board' \in 1..Len(Panels)
      BY <1>3, <2>1, <3>1 DEF Generated
    <3>3. Panels[board'] \in Seq(PanelRecord)
      BY <3>2, PanelsAssumption, ElementOf
    <3> QED BY <3>3 DEF Current
  <2>4. ~Generated' => 0 <= Len(Current')
    BY <2>3
  <2> QED BY <1>2, <2>1, <2>2, <2>4 DEF LayoutTypeOK, Columns
<1>5. InsideGrid' /\ NoOverlap' /\ Frontier'
  BY <1>2 DEF InsideGrid, NoOverlap, Frontier
<1> QED BY <1>4, <1>5 DEF LayoutInv

\* NoOverlap and InsideGrid hold in every state of the generator, whatever
\* panels it is given.
THEOREM LayoutInvariant == LayoutSpec => []LayoutInv
<1>1. LayoutInit => LayoutInv
  <2>1. SUFFICES ASSUME LayoutInit PROVE LayoutInv
    OBVIOUS
  <2>2. Len(Panels) \in Nat
    BY PanelsAssumption
  <2>3. placed = <<>> /\ Len(placed) = 0 /\ placed \in Seq([x : 0..Columns, y : Nat])
    BY <2>1 DEF LayoutInit
  <2>4. ~Generated => Len(Current) \in Nat
    <3>1. SUFFICES ASSUME ~Generated PROVE Len(Current) \in Nat
      OBVIOUS
    <3>2. board \in 1..Len(Panels)
      BY <2>1, <2>2, <3>1 DEF LayoutInit, Generated
    <3>3. Panels[board] \in Seq(PanelRecord)
      BY <3>2, PanelsAssumption, ElementOf
    <3> QED BY <3>3 DEF Current
  <2>5. ~Generated => 0 <= Len(Current)
    BY <2>4
  <2>6. LayoutTypeOK
    BY <2>1, <2>2, <2>3, <2>5 DEF LayoutInit, LayoutTypeOK, Columns
  <2>7. InsideGrid /\ NoOverlap /\ Frontier
    BY <2>3 DEF InsideGrid, NoOverlap, Frontier
  <2> QED BY <2>6, <2>7 DEF LayoutInv
<1>2. LayoutInv /\ [LayoutNext]_layoutVars => LayoutInv'
  <2>1. SUFFICES ASSUME LayoutInv, [LayoutNext]_layoutVars PROVE LayoutInv'
    OBVIOUS
  <2>2. CASE PlacePanel
    BY <2>1, <2>2, PanelStep
  <2>3. CASE PlaceRow
    BY <2>1, <2>3, RowStep
  <2>4. CASE WriteBoard
    BY <2>1, <2>4, WriteStep
  <2>5. CASE UNCHANGED layoutVars
    BY <2>1, <2>5 DEF layoutVars, LayoutInv, LayoutTypeOK, InsideGrid, NoOverlap, Frontier,
                      Precedes, InnerY, Current, Generated
  <2> QED BY <2>1, <2>2, <2>3, <2>4, <2>5 DEF LayoutNext
<1> QED BY <1>1, <1>2, PTL DEF LayoutSpec

\* Two panels whose ids are equal are one panel.
LEMMA Ids ==
  ASSUME LayoutTypeOK
  PROVE  IdsUnique
<1>1. SUFFICES ASSUME ~Generated, NEW k \in 1..Len(Current), NEW m \in 1..Len(Current),
                      NEW q \in 1..Len(Current[m].inner)
               PROVE  /\ Id(k) # InnerId(m, q)
                      /\ \A r \in 1..Len(Current[k].inner) :
                           InnerId(m, q) = InnerId(k, r) => m = k /\ q = r
  BY DEF IdsUnique
<1>2. Len(Current) \in Nat /\ Len(Current) <= 100
  BY <1>1, CurrentPanels
<1>3. k \in 1..100 /\ m \in 1..100
  BY <1>2
<1>4. /\ Len(Current[k].inner) \in Nat /\ Len(Current[k].inner) < 100
      /\ Len(Current[m].inner) \in Nat /\ Len(Current[m].inner) < 100
  BY <1>1, CurrentPanel
<1>5. q \in 1..99
  BY <1>4
<1>6. Id(k) # InnerId(m, q)
  BY <1>3, <1>5 DEF Id, InnerId
<1>7. ASSUME NEW r \in 1..Len(Current[k].inner), InnerId(m, q) = InnerId(k, r)
      PROVE  m = k /\ q = r
  <2>1. r \in 1..99
    BY <1>4
  <2>2. m * 100 + q = k * 100 + r
    BY <1>7 DEF InnerId
  <2>3. /\ m \in Nat /\ k \in Nat /\ q \in Nat /\ r \in Nat
        /\ 1 <= q /\ q <= 99 /\ 1 <= r /\ r <= 99
    BY <1>3, <1>5, <2>1
  <2> QED BY <2>2, <2>3
<1> QED BY <1>6, <1>7

\* After the last board nothing is placed.
LEMMA GeneratedToo ==
  ASSUME LayoutInv
  PROVE  InsideGrid /\ NoOverlap
<1>1. CASE ~Generated
  BY <1>1 DEF LayoutInv
<1>2. CASE Generated
  <2>1. placed = <<>>
    BY <1>2 DEF LayoutInv, LayoutTypeOK
  <2>2. Len(placed) = 0
    BY <2>1
  <2> QED BY <2>2 DEF InsideGrid, NoOverlap
<1> QED BY <1>1, <1>2

\* The generator stays inside its type and ends every board with all its panels.
THEOREM LayoutTyped == LayoutSpec => []LayoutTypeOK
<1>1. LayoutInv => LayoutTypeOK
  BY DEF LayoutInv
<1> QED BY <1>1, LayoutInvariant, PTL

\* layout() never puts a panel on another, nor above or left of an earlier one.
THEOREM PanelsDoNotOverlap == LayoutSpec => []NoOverlap
<1>1. LayoutInv => NoOverlap
  BY GeneratedToo
<1> QED BY <1>1, LayoutInvariant, PTL

\* layout() never lets a panel reach beyond the 24 columns.
THEOREM PanelsInsideGrid == LayoutSpec => []InsideGrid
<1>1. LayoutInv => InsideGrid
  BY GeneratedToo
<1> QED BY <1>1, LayoutInvariant, PTL

\* The numbering of the panels in a collapsed row (row * 100 + position) meets
\* no other panel as long as a row has less than 100 and a board at most 100.
THEOREM PanelIdsUnique == LayoutSpec => []IdsUnique
<1>1. LayoutInv => LayoutTypeOK
  BY DEF LayoutInv
<1>2. LayoutInv => IdsUnique
  BY <1>1, Ids
<1> QED BY <1>2, LayoutInvariant, PTL

\* Whatever the check and the users do, the boards are laid out as BoardLayout
\* says: generate.py is the only one to write them.
THEOREM BoardsAreLaidOut == Spec => LayoutSpec
<1>1. Init => LayoutInit
  BY DEF Init
<1>2. [Next]_vars => [LayoutNext]_layoutVars
  BY DEF Next, Generate, Check, Browse, vars
<1> QED BY <1>1, <1>2, PTL DEF Spec, LayoutSpec

-----------------------------------------------------------------------------
(* The options of a variable                                               *)

\* A nonempty set of numbers has a smallest one.
LEMMA LowestIn ==
  ASSUME NEW S \in SUBSET Nat, S # {}
  PROVE  Lowest(S) \in S /\ \A j \in S : Lowest(S) <= j
<1> DEFINE R == OpToRel(<, Nat)
<1>1. IsWellFoundedOn(R, Nat)
  BY NatLessThanWellFounded
<1>2. PICK i \in S : \A j \in S : ~ (<<j, i>> \in R)
  BY <1>1, WFMin
<1>3. \A j \in S : ~ (j < i)
  BY <1>2 DEF OpToRel
<1>4. \A j \in S : i <= j
  BY <1>3
<1> QED BY <1>4 DEF Lowest

\* A finite one has a largest.
LEMMA HighestIn ==
  ASSUME NEW S \in SUBSET Nat, S # {}, IsFiniteSet(S)
  PROVE  Highest(S) \in S /\ \A j \in S : Highest(S) >= j
<1> DEFINE B == {T \in SUBSET S : T = {} \/ \E m \in T : \A j \in T : m >= j}
<1>1. {} \in B
  OBVIOUS
<1>2. ASSUME NEW T \in SUBSET S, NEW i \in S, T \in B, i \notin T PROVE T \cup {i} \in B
  <2>1. CASE T = {}
    <3>1. \A j \in T \cup {i} : i >= j
      BY <2>1
    <3> QED BY <3>1
  <2>2. CASE T # {}
    <3>1. PICK m \in T : \A j \in T : m >= j
      BY <1>2, <2>2
    <3>2. CASE m >= i
      BY <3>1, <3>2
    <3>3. CASE ~ (m >= i)
      <4>1. m \in Nat /\ i \in Nat /\ \A j \in T : j \in Nat
        OBVIOUS
      <4>2. \A j \in T \cup {i} : i >= j
        BY <3>1, <3>3, <4>1
      <4> QED BY <4>2
    <3> QED BY <3>2, <3>3
  <2> QED BY <2>1, <2>2
<1>3. S \in B
  <2> HIDE DEF B
  <2> QED BY <1>1, <1>2, SetInd
<1>4. \E m \in S : \A j \in S : m >= j
  BY <1>3
<1> QED BY <1>4 DEF Highest

\* The values of a function on a finite set.
LEMMA ImageFinite ==
  ASSUME NEW S, IsFiniteSet(S), NEW g
  PROVE  IsFiniteSet({g[e] : e \in S})
<1> DEFINE T == {g[e] : e \in S}
           h == [e \in S |-> g[e]]
<1>1. h \in Surjection(S, T)
  BY DEF Surjection
<1> QED BY <1>1, FS_Surjection

\* What the stores hold.
LEMMA FactTyped ==
  ASSUME facts \in Collections
  PROVE  /\ IsFiniteSet(facts)
         /\ \A f \in facts : /\ f.age \in {0, 1}
                             /\ \A c \in TagColumns : f[c] \in Nat /\ f[c] > 0
<1>1. IsFiniteSet(facts) /\ \A f \in facts : /\ f \in FactRecord /\ f.age \in {0, 1}
                                             /\ \A c \in TagColumns : f[c] > 0
  BY CollectionsAssumption
<1>2. \A f \in FactRecord : \A c \in TagColumns : f[c] \in Nat
  BY DEF FactRecord
<1> QED BY <1>1, <1>2

\* A variable of which the options can be read.
OptionRule(v) == v.col \in TagColumns /\ v.first \in {"asc", "desc", "shared"}

\* The option at the top is one of the options.
LEMMA FirstOptionIn ==
  ASSUME facts \in Collections, NEW v, OptionRule(v), NEW uid, NEW val, NEW range,
         Options(uid, v, val, range) # {}
  PROVE  /\ FirstOption(uid, v, val, range) \in Options(uid, v, val, range)
         /\ Options(uid, v, val, range) \in SUBSET Nat
<1> DEFINE rows == OptionRows(uid, v, val, range)
           ids == {f[v.col] : f \in rows}
           envs_(i) == {f.env : f \in {g \in rows : g[v.col] = i}}
           most == {i \in ids : \A j \in ids : Cardinality(envs_(i)) >= Cardinality(envs_(j))}
<1>1. rows \in SUBSET facts /\ IsFiniteSet(rows)
  BY FactTyped, FS_Subset DEF OptionRows
<1>2. ids \in SUBSET Nat /\ ids # {} /\ ids = Options(uid, v, val, range)
  BY <1>1, FactTyped DEF Options, OptionRule
<1>3. IsFiniteSet(ids)
  <2> DEFINE g == [f \in rows |-> f[v.col]]
  <2>1. ids = {g[f] : f \in rows}
    OBVIOUS
  <2> HIDE DEF rows, g
  <2> QED BY <1>1, <2>1, ImageFinite
<1>4. \A i \in ids : Cardinality(envs_(i)) \in Nat
  <2> SUFFICES ASSUME NEW i \in ids PROVE IsFiniteSet(envs_(i))
    BY FS_CardinalityType
  <2> DEFINE some == {g \in rows : g[v.col] = i}
         g == [f \in some |-> f.env]
  <2>1. IsFiniteSet(some)
    <3> HIDE DEF rows
    <3> QED BY <1>1, FS_Subset
  <2>2. envs_(i) = {g[f] : f \in some}
    OBVIOUS
  <2> HIDE DEF some, g
  <2>3. IsFiniteSet({g[f] : f \in some})
    BY <2>1, ImageFinite
  <2> QED BY <2>2, <2>3
<1>5. most # {}
  <2> DEFINE sizes == {Cardinality(envs_(i)) : i \in ids}
  <2> HIDE DEF ids, envs_
  <2>0. IsFiniteSet(sizes)
    <3> DEFINE g == [i \in ids |-> Cardinality(envs_(i))]
    <3>1. sizes = {g[i] : i \in ids}
      BY DEF sizes
    <3> HIDE DEF g, sizes
    <3> QED BY <1>3, <3>1, ImageFinite
  <2>1. sizes \in SUBSET Nat /\ sizes # {} /\ IsFiniteSet(sizes)
    BY <1>2, <1>4, <2>0
  <2>2. Highest(sizes) \in sizes /\ \A j \in sizes : Highest(sizes) >= j
    <3> HIDE DEF sizes
    <3> QED BY <2>1, HighestIn
  <2>3. PICK i \in ids : Cardinality(envs_(i)) = Highest(sizes)
    BY <2>2
  <2>4. i \in most
    BY <2>2, <2>3
  <2> QED BY <2>4
<1>6. Lowest(ids) \in ids /\ Highest(ids) \in ids /\ Lowest(most) \in ids
  <2>1. most \in SUBSET Nat /\ most \in SUBSET ids
    BY <1>2
  <2> HIDE DEF ids, most
  <2> QED BY <1>2, <1>3, <1>5, <2>1, LowestIn, HighestIn
<1>7. CASE v.first = "asc"
  BY <1>2, <1>6, <1>7 DEF FirstOption
<1>8. CASE v.first = "desc"
  <2>1. FirstOption(uid, v, val, range) = Highest(ids)
    BY <1>8 DEF FirstOption
  <2> QED BY <1>2, <1>6, <2>1
<1>9. CASE v.first = "shared"
  <2>1. FirstOption(uid, v, val, range) = Lowest(most)
    BY <1>9 DEF FirstOption
  <2> HIDE DEF most
  <2> QED BY <1>2, <1>6, <2>1
<1> QED BY <1>2, <1>7, <1>8, <1>9 DEF OptionRule

\* The first options are one value.
LEMMA FirstOptionsOne ==
  ASSUME facts \in Collections, NEW v, OptionRule(v), NEW uid, NEW val, NEW range
  PROVE  /\ \E o \in Nat : FirstOptions(uid, v, val, range) = {o}
         /\ Options(uid, v, val, range) # {} =>
              \E o \in Options(uid, v, val, range) : FirstOptions(uid, v, val, range) = {o}
<1>1. CASE Options(uid, v, val, range) = {}
  BY <1>1 DEF FirstOptions, NoOption
<1>2. CASE Options(uid, v, val, range) # {}
  <2>1. /\ FirstOption(uid, v, val, range) \in Options(uid, v, val, range)
        /\ Options(uid, v, val, range) \in SUBSET Nat
    BY <1>2, FirstOptionIn
  <2> QED BY <1>2, <2>1 DEF FirstOptions
<1> QED BY <1>1, <1>2

\* The options depend on the variables that the query uses, and on rp.
LEMMA SameOptions ==
  ASSUME NEW v, NEW uid, NEW range, NEW val, NEW new,
         \A r \in v.refs : new[r] = val[r],
         v.first = "shared" => "env_a" \in v.refs,
         "rp" \in DOMAIN new <=> "rp" \in DOMAIN val,
         "rp" \in DOMAIN val => "rp" \in v.refs
  PROVE  /\ OptionRows(uid, v, new, range) = OptionRows(uid, v, val, range)
         /\ Options(uid, v, new, range) = Options(uid, v, val, range)
         /\ FirstOptions(uid, v, new, range) = FirstOptions(uid, v, val, range)
<1>1. \A f \in facts : Retained(f, new) <=> Retained(f, val)
  BY DEF Retained
<1>2. \A f \in facts : Matches(f, v.refs, new) <=> Matches(f, v.refs, val)
  BY DEF Matches, Selects
<1>3. v.first = "shared" => \A g \in facts : Selects(g, "env_a", new) <=> Selects(g, "env_a", val)
  BY DEF Selects
<1>4. OptionRows(uid, v, new, range) = OptionRows(uid, v, val, range)
  BY <1>1, <1>2, <1>3 DEF OptionRows
<1>5. Options(uid, v, new, range) = Options(uid, v, val, range)
  BY <1>4 DEF Options
<1>6. FirstOption(uid, v, new, range) = FirstOption(uid, v, val, range)
  BY <1>4 DEF FirstOption
<1> QED BY <1>4, <1>5, <1>6 DEF FirstOptions

-----------------------------------------------------------------------------
(* The selection of a board, one variable after the other                  *)

Positions(uid) == 1..Len(Board[uid].vars)

\* The variables of a board, in order.
LEMMA VariablesListed ==
  ASSUME Rules, NEW uid \in Uids
  PROVE  LET list == Board[uid].vars
         IN /\ Len(list) \in Nat /\ DOMAIN list = 1..Len(list)
            /\ VariablesOf(uid) = {list[i].name : i \in 1..Len(list)}
            /\ QueryVariables(uid) = {list[i] : i \in {k \in 1..Len(list) : list[k].type = "query"}}
            /\ \A i \in 1..Len(list) : VariableRule(uid, i)
<1> DEFINE list == Board[uid].vars
<1>1. Len(list) \in Nat /\ DOMAIN list = 1..Len(list)
  BY BoardTyped DEF Rules
<1>2. \A i \in 1..Len(list) : VariableRule(uid, i)
  BY <1>1 DEF Rules, BoardsConsistent
<1>3. ToSet(list) = {list[i] : i \in 1..Len(list)}
  BY <1>1 DEF ToSet
<1> HIDE DEF list
<1>4. {v.name : v \in ToSet(list)} = {list[i].name : i \in 1..Len(list)}
  BY <1>3
<1>5. {v \in ToSet(list) : v.type = "query"} = {list[i] : i \in {k \in 1..Len(list) : list[k].type = "query"}}
  BY <1>3
<1> QED BY <1>1, <1>2, <1>4, <1>5 DEF VariablesOf, QueryVariables, list

\* What becomes of a variable when a board is opened.
Entry(uid, url, range, i, above) ==
  LET v == Board[uid].vars[i]
  IN IF v.name \in DOMAIN url THEN url[v.name] ELSE Default(uid, v, above, range)

\* A variable without a value in the URL has All, one value, or the first option.
LEMMA DefaultTyped ==
  ASSUME Rules, facts \in Collections, NEW uid \in Uids, NEW i \in 1..Len(Board[uid].vars),
         NEW val, NEW range
  PROVE  LET v == Board[uid].vars[i]
         IN /\ Default(uid, v, val, range) \in SUBSET Nat
            /\ ~v.multi /\ v.type = "query" => \E o \in Nat : Default(uid, v, val, range) = {o}
<1> DEFINE v == Board[uid].vars[i]
<1>1. VariableRule(uid, i)
  BY VariablesListed
<1>2. v.type \in {"query", "textbox", "custom"}
  BY <1>1 DEF VariableRule
<1>3. CASE v.type = "custom"
  <2>1. Default(uid, v, val, range) = {RETENTION_POLICIES[1]}
    BY <1>1, <1>3 DEF Default, VariableRule
  <2>2. RETENTION_POLICIES[1] = 7
    BY DEF RETENTION_POLICIES
  <2> QED BY <1>3, <2>1, <2>2
<1>4. CASE v.type = "textbox" \/ (v.type = "query" /\ v.multi)
  BY <1>4 DEF Default, All
<1>5. CASE v.type = "query" /\ ~v.multi
  <2>1. OptionRule(v)
    BY <1>1, <1>5 DEF VariableRule, OptionRule
  <2>2. Default(uid, v, val, range) = FirstOptions(uid, v, val, range)
    BY <1>5 DEF Default
  <2>3. \E o \in Nat : FirstOptions(uid, v, val, range) = {o}
    <3> HIDE DEF v
    <3> QED BY <2>1, FirstOptionsOne
  <2> QED BY <1>5, <2>2, <2>3
<1> QED BY <1>2, <1>3, <1>4, <1>5

IsOne(set) == \E o \in Nat : set = {o}

LEMMA DefaultOne ==
  ASSUME Rules, facts \in Collections, NEW uid \in Uids, NEW i \in Positions(uid),
         NEW v, v = Board[uid].vars[i], v.type = "query", ~ v.multi, NEW val, NEW range
  PROVE  IsOne(Default(uid, v, val, range))
<1>1. OptionRule(v)
  BY VariablesListed DEF VariableRule, OptionRule, Positions
<1>2. Default(uid, v, val, range) = FirstOptions(uid, v, val, range)
  BY DEF Default
<1>3. \E o \in Nat : FirstOptions(uid, v, val, range) = {o}
  BY <1>1, FirstOptionsOne
<1> QED BY <1>2, <1>3 DEF IsOne

\* Partial selections of a board.
Selections(uid) == UNION {[S -> SUBSET Nat] : S \in SUBSET VariablesOf(uid)}

LEMMA WithTyped ==
  ASSUME NEW uid, NEW val \in Selections(uid), NEW n \in VariablesOf(uid), NEW set \in SUBSET Nat
  PROVE  With(val, n, set) \in Selections(uid)
<1>1. PICK S \in SUBSET VariablesOf(uid) : val \in [S -> SUBSET Nat]
  BY DEF Selections
<1>2. With(val, n, set) \in [S \cup {n} -> SUBSET Nat]
  BY <1>1 DEF With
<1>3. S \cup {n} \in SUBSET VariablesOf(uid)
  OBVIOUS
<1> QED BY <1>2, <1>3 DEF Selections

\* A URL with sets of values.
UrlRule(uid, url) == \A n \in DOMAIN url \cap VariablesOf(uid) : url[n] \in SUBSET Nat

\* The steps that Selection takes.
SelectedBy(h, uid, url, range) ==
  LET list == Board[uid].vars
  IN /\ h \in [0..Len(list) -> Selections(uid)] /\ h[0] = <<>>
     /\ \A i \in 1..Len(list) :
          h[i] = With(h[i - 1], list[i].name, Entry(uid, url, range, i, h[i - 1]))
     /\ Selection(uid, url, range) = h[Len(list)]

LEMMA SelectionSteps ==
  ASSUME Rules, facts \in Collections, NEW uid \in Uids, NEW url, UrlRule(uid, url), NEW range
  PROVE  \E h : SelectedBy(h, uid, url, range)
<1> DEFINE list == Board[uid].vars
           n == Len(list)
           G == [i \in 1..n |-> [val \in Selections(uid) |->
                  With(val, list[i].name, Entry(uid, url, range, i, val))]]
<1>1. n \in Nat /\ \A i \in 1..n : list[i].name \in VariablesOf(uid)
  <2>1. n \in Nat /\ VariablesOf(uid) = {list[i].name : i \in 1..n}
    BY VariablesListed
  <2> QED BY <2>1
<1>2. ASSUME NEW i \in 1..n, NEW val \in Selections(uid)
      PROVE  With(val, list[i].name, Entry(uid, url, range, i, val)) \in Selections(uid)
  <2>1. Entry(uid, url, range, i, val) \in SUBSET Nat
    <3>1. CASE list[i].name \in DOMAIN url
      BY <1>1, <3>1 DEF Entry, UrlRule
    <3>2. CASE list[i].name \notin DOMAIN url
      <4>1. Default(uid, list[i], val, range) \in SUBSET Nat
        BY DefaultTyped
      <4> QED BY <3>2, <4>1 DEF Entry
    <3> QED BY <3>1, <3>2
  <2> QED BY <1>1, <2>1, WithTyped
<1>3. <<>> \in Selections(uid)
  <2>1. <<>> \in [{} -> SUBSET Nat]
    OBVIOUS
  <2>2. {} \in SUBSET VariablesOf(uid)
    OBVIOUS
  <2> QED BY <2>1, <2>2 DEF Selections
<1>4. PICK g : Recursive(g, Selections(uid), <<>>, n, G)
  <2>1. G \in [1..n -> [Selections(uid) -> Selections(uid)]]
    BY <1>2
  <2> HIDE DEF G, n
  <2> QED BY <1>1, <1>3, <2>1, Recursion
<1> DEFINE Step_(f) == [i \in 0..n |->
             IF i = 0 THEN <<>>
             ELSE LET v == list[i]
                      above == f[i - 1]
                  IN With(above, v.name, IF v.name \in DOMAIN url THEN url[v.name]
                                         ELSE Default(uid, v, above, range))]
<1>5. g = Step_(g)
  <2>1. g \in [0..n -> Selections(uid)] /\ g[0] = <<>>
    BY <1>4 DEF Recursive
  <2>2. ASSUME NEW i \in 0..n PROVE g[i] = Step_(g)[i]
    <3>1. CASE i = 0
      BY <2>1, <3>1
    <3>2. CASE i # 0
      <4>1. i \in 1..n /\ i - 1 \in 0..n
        BY <1>1, <3>2
      <4>2. g[i] = G[i][g[i - 1]] /\ g[i - 1] \in Selections(uid)
        BY <1>4, <4>1 DEF Recursive
      <4>3. g[i] = With(g[i - 1], list[i].name, Entry(uid, url, range, i, g[i - 1]))
        BY <4>1, <4>2
      <4> QED BY <3>2, <4>3 DEF Entry
    <3> QED BY <3>1, <3>2
  <2> QED BY <2>1, <2>2
<1> DEFINE h == CHOOSE f : f = Step_(f)
<1>6. h = Step_(h)
  BY <1>5
<1>7. Selection(uid, url, range) = h[n]
  BY DEF Selection, Filled
<1> HIDE DEF h, Step_
<1>8. h[0] = <<>>
  BY <1>1, <1>6 DEF Step_
<1>9. ASSUME NEW i \in 1..n
      PROVE  h[i] = With(h[i - 1], list[i].name, Entry(uid, url, range, i, h[i - 1]))
  <2>1. i \in 0..n /\ i # 0
    BY <1>1
  <2> QED BY <1>6, <2>1 DEF Step_, Entry
<1>10. h \in [0..n -> Selections(uid)]
  <2> DEFINE B == {i \in Nat : i <= n => h[i] \in Selections(uid)}
  <2>1. 0 \in B
    BY <1>3, <1>8
  <2>2. ASSUME NEW i \in Nat, i \in B PROVE i + 1 \in B
    <3> SUFFICES ASSUME i + 1 <= n PROVE h[i + 1] \in Selections(uid)
      OBVIOUS
    <3>1. i + 1 \in 1..n /\ (i + 1) - 1 = i /\ h[i] \in Selections(uid)
      BY <1>1, <2>2
    <3> QED BY <1>2, <1>9, <3>1
  <2>3. Nat \subseteq B
    <3> HIDE DEF B
    <3> QED BY <2>1, <2>2, NatInd
  <2>4. \A i \in 0..n : h[i] \in Selections(uid)
    BY <1>1, <2>3
  <2>5. h = [i \in 0..n |-> h[i]]
    BY <1>6 DEF Step_
  <2> QED BY <2>4, <2>5
<1> QED BY <1>7, <1>8, <1>9, <1>10 DEF SelectedBy

\* A variable is not among those above it, and those above are of the board.
LEMMA AboveListed ==
  ASSUME Rules, NEW uid \in Uids, NEW i \in 1..Len(Board[uid].vars)
  PROVE  LET b == Board[uid]
         IN /\ b.vars[i].name \in VariablesOf(uid) /\ b.vars[i].name \notin NamesAbove(b, i)
            /\ NamesAbove(b, i) \subseteq VariablesOf(uid)
            /\ NamesAbove(b, i + 1) = NamesAbove(b, i) \cup {b.vars[i].name}
            /\ \A k \in 1..Len(b.vars) : b.vars[k].name = b.vars[i].name => k = i
<1> DEFINE b == Board[uid]
           n == Len(b.vars)
<1>1. /\ n \in Nat /\ DOMAIN b.vars = 1..n /\ VariablesOf(uid) = {b.vars[k].name : k \in 1..n}
      /\ VariableRule(uid, i)
  BY VariablesListed
<1>2. \A k \in 1..n : b.vars[k].name = b.vars[i].name => k = i
  BY <1>1 DEF VariableRule
<1> HIDE DEF b, n
<1>3. i \in 1..n
  BY DEF b, n
<1>4. \A k \in 1..(i - 1) : k \in 1..n /\ k # i
  BY <1>1, <1>3
<1>5. 1..((i + 1) - 1) = (1..(i - 1)) \cup {i}
  BY <1>1, <1>3
<1> QED BY <1>1, <1>2, <1>3, <1>4, <1>5 DEF NamesAbove, b, n

\* A board is opened with a value for each of its variables; every one is
\* chosen with the values of those above it.
LEMMA SelectionIs ==
  ASSUME Rules, facts \in Collections, NEW uid \in Uids, NEW url, UrlRule(uid, url), NEW range
  PROVE  LET list == Board[uid].vars
             sel == Selection(uid, url, range)
         IN /\ sel \in [VariablesOf(uid) -> SUBSET Nat]
            /\ \A i \in 1..Len(list) : \E above :
                 /\ DOMAIN above = NamesAbove(Board[uid], i)
                 /\ \A m \in NamesAbove(Board[uid], i) : above[m] = sel[m]
                 /\ sel[list[i].name] = Entry(uid, url, range, i, above)
<1>0. PICK h : SelectedBy(h, uid, url, range)
  BY SelectionSteps
<1> DEFINE list == Board[uid].vars
           n == Len(list)
           Above(i) == NamesAbove(Board[uid], i)
           C(i, val) == Entry(uid, url, range, i, val)
           sel == Selection(uid, url, range)
<1>1. /\ h \in [0..n -> Selections(uid)] /\ h[0] = <<>>
      /\ \A i \in 1..n : h[i] = With(h[i - 1], list[i].name, C(i, h[i - 1]))
      /\ sel = h[n]
  BY <1>0 DEF SelectedBy
<1>2. /\ n \in Nat /\ VariablesOf(uid) = {list[i].name : i \in 1..n}
  BY VariablesListed
<1>3. \A i \in 1..n : /\ list[i].name \notin Above(i) /\ Above(i + 1) = Above(i) \cup {list[i].name}
                      /\ \A k \in 1..n : list[k].name = list[i].name => k = i
  BY AboveListed
<1>4. \A i \in 1..n : Above(i) = {list[k].name : k \in 1..(i - 1)}
  BY DEF NamesAbove
<1>5. Above(1) = {} /\ Above(n + 1) = VariablesOf(uid)
  <2>1. 1..(1 - 1) = {} /\ 1..((n + 1) - 1) = 1..n
    BY <1>2
  <2> QED BY <1>2, <2>1 DEF NamesAbove
<1> HIDE DEF list, n, Above, C, sel
<1> DEFINE B == {i \in Nat : i <= n => /\ DOMAIN h[i] = Above(i + 1)
                                       /\ \A k \in 1..i : h[i][list[k].name] = C(k, h[k - 1])}
<1>6. 0 \in B
  <2>1. DOMAIN <<>> = {} /\ 0 + 1 = 1 /\ 1..0 = {}
    OBVIOUS
  <2> QED BY <1>1, <1>5, <2>1
<1>7. ASSUME NEW i \in Nat, i \in B PROVE i + 1 \in B
  <2> SUFFICES ASSUME i + 1 <= n
               PROVE  /\ DOMAIN h[i + 1] = Above((i + 1) + 1)
                      /\ \A k \in 1..(i + 1) : h[i + 1][list[k].name] = C(k, h[k - 1])
    OBVIOUS
  <2>1. i + 1 \in 1..n /\ (i + 1) - 1 = i /\ i <= n
    BY <1>2
  <2>2. /\ DOMAIN h[i] = Above(i + 1)
        /\ \A k \in 1..i : h[i][list[k].name] = C(k, h[k - 1])
    BY <1>7, <2>1
  <2>3. h[i + 1] = With(h[i], list[i + 1].name, C(i + 1, h[i]))
    BY <1>1, <2>1
  <2>4. DOMAIN h[i + 1] = Above((i + 1) + 1)
    BY <1>3, <2>1, <2>2, <2>3 DEF With
  <2>5. ASSUME NEW k \in 1..(i + 1) PROVE h[i + 1][list[k].name] = C(k, h[k - 1])
    <3>1. CASE k = i + 1
      BY <2>1, <2>3, <3>1 DEF With
    <3>2. CASE k # i + 1
      <4>1. k \in 1..i /\ k \in 1..n
        BY <1>2, <2>1, <3>2
      <4>2. list[k].name # list[i + 1].name
        BY <1>3, <2>1, <3>2, <4>1
      <4>3. list[k].name \in DOMAIN h[i]
        <5>1. i = (i + 1) - 1
          OBVIOUS
        <5> QED BY <1>4, <2>1, <2>2, <4>1, <5>1
      <4> QED BY <2>2, <2>3, <4>1, <4>2, <4>3 DEF With
    <3> QED BY <3>1, <3>2
  <2> QED BY <2>4, <2>5
<1>8. Nat \subseteq B
  <2> HIDE DEF B
  <2> QED BY <1>6, <1>7, NatInd
<1>9. \A i \in 0..n : /\ DOMAIN h[i] = Above(i + 1)
                      /\ \A k \in 1..i : h[i][list[k].name] = C(k, h[k - 1])
  BY <1>2, <1>8
<1>10. sel \in [VariablesOf(uid) -> SUBSET Nat]
  <2>1. h[n] \in Selections(uid) /\ DOMAIN h[n] = VariablesOf(uid)
    BY <1>1, <1>2, <1>5, <1>9
  <2> QED BY <1>1, <2>1 DEF Selections
<1>11. ASSUME NEW i \in 1..n
       PROVE  /\ DOMAIN h[i - 1] = Above(i) /\ \A m \in Above(i) : h[i - 1][m] = sel[m]
              /\ sel[list[i].name] = C(i, h[i - 1])
  <2>1. i - 1 \in 0..n /\ n \in 0..n /\ (i - 1) + 1 = i
    BY <1>2
  <2>2. ASSUME NEW k \in 1..(i - 1) PROVE h[i - 1][list[k].name] = sel[list[k].name]
    <3>1. k \in 1..n
      BY <1>2
    <3> QED BY <1>1, <1>9, <2>1, <3>1
  <2> QED BY <1>1, <1>4, <1>9, <2>1, <2>2
<1> QED BY <1>10, <1>11 DEF list, n, Above, C, sel

\* The query of a variable only sees the values of those above it.
SameAbove(uid, i, val, above) ==
  LET names == NamesAbove(Board[uid], i)
  IN /\ names \subseteq DOMAIN val /\ DOMAIN val \subseteq VariablesOf(uid)
     /\ names \subseteq DOMAIN above /\ DOMAIN above \subseteq VariablesOf(uid)
     /\ \A m \in names : above[m] = val[m]

SameRead(uid, v, val, above, range) ==
  /\ \A r \in v.refs : above[r] = val[r]
  /\ OptionRows(uid, v, val, range) = OptionRows(uid, v, above, range)
  /\ Options(uid, v, val, range) = Options(uid, v, above, range)
  /\ FirstOptions(uid, v, val, range) = FirstOptions(uid, v, above, range)

LEMMA ReadAbove ==
  ASSUME Rules, NEW uid \in Uids, NEW i \in Positions(uid),
         NEW v, v = Board[uid].vars[i], v.type = "query",
         NEW val, NEW above, NEW range, SameAbove(uid, i, val, above)
  PROVE  SameRead(uid, v, val, above, range)
<1>1. /\ v.refs \subseteq NamesAbove(Board[uid], i)
      /\ "rp" \in VariablesOf(uid) => "rp" \in v.refs
      /\ v.first = "shared" => "env_a" \in v.refs
  BY VariablesListed DEF VariableRule, Positions
<1>2. \A r \in v.refs : above[r] = val[r]
  BY <1>1 DEF SameAbove
<1>3. /\ "rp" \in DOMAIN val <=> "rp" \in DOMAIN above
      /\ "rp" \in DOMAIN above => "rp" \in v.refs
  BY <1>1 DEF SameAbove
<1>4. /\ OptionRows(uid, v, val, range) = OptionRows(uid, v, above, range)
      /\ Options(uid, v, val, range) = Options(uid, v, above, range)
      /\ FirstOptions(uid, v, val, range) = FirstOptions(uid, v, above, range)
  BY <1>1, <1>2, <1>3, SameOptions
<1> QED BY <1>2, <1>4 DEF SameRead

\* The selection of a board just opened: every variable has its value of the
\* URL, or the default with the others as they are.
LEMMA SelectionFixed ==
  ASSUME Rules, facts \in Collections, NEW uid \in Uids, NEW url, UrlRule(uid, url), NEW range
  PROVE  LET sel == Selection(uid, url, range)
         IN /\ sel \in [VariablesOf(uid) -> SUBSET Nat]
            /\ \A i \in 1..Len(Board[uid].vars) :
                 sel[Board[uid].vars[i].name] = Entry(uid, url, range, i, sel)
<1> DEFINE sel == Selection(uid, url, range)
<1>1. sel \in [VariablesOf(uid) -> SUBSET Nat]
  BY SelectionIs
<1>2. ASSUME NEW i \in 1..Len(Board[uid].vars)
      PROVE  sel[Board[uid].vars[i].name] = Entry(uid, url, range, i, sel)
  <2> DEFINE v == Board[uid].vars[i]
  <2>1. PICK above : /\ DOMAIN above = NamesAbove(Board[uid], i)
                     /\ \A m \in NamesAbove(Board[uid], i) : above[m] = sel[m]
                     /\ sel[v.name] = Entry(uid, url, range, i, above)
    BY SelectionIs
  <2>2. v.type = "query" =>
          FirstOptions(uid, v, sel, range) = FirstOptions(uid, v, above, range)
    <3>1. Board[uid].vars[i] = v /\ i \in Positions(uid)
      BY DEF Positions
    <3>2. SameAbove(uid, i, sel, above)
      <4>1. NamesAbove(Board[uid], i) \subseteq VariablesOf(uid)
        BY AboveListed
      <4> HIDE DEF sel
      <4> QED BY <1>1, <2>1, <4>1 DEF SameAbove
    <3> HIDE DEF sel, v
    <3>3. v.type = "query" => SameRead(uid, v, sel, above, range)
      BY <3>1, <3>2, ReadAbove
    <3> QED BY <3>3 DEF SameRead
  <2>3. v.type \in {"query", "textbox", "custom"}
    BY VariablesListed DEF VariableRule
  <2>4. Default(uid, v, sel, range) = Default(uid, v, above, range)
    <3> HIDE DEF sel, v
    <3> QED BY <2>2, <2>3 DEF Default
  <2> QED BY <2>1, <2>4 DEF Entry
<1> QED BY <1>1, <1>2

-----------------------------------------------------------------------------
(* What is refreshed after a pick or a change of the range                 *)

Stale(uid, val, changed, everything, i, above) ==
  LET v == Board[uid].vars[i]
  IN /\ v.type = "query" /\ v.name \notin changed
     /\ everything \/ \E r \in v.refs : r \in changed \/ above[r] # val[r]

\* What becomes of a variable.
Reread(uid, val, changed, everything, range, i, above) ==
  LET v == Board[uid].vars[i]
  IN IF Stale(uid, val, changed, everything, i, above)
     THEN Refreshed(uid, v, val[v.name], above, range) ELSE val[v.name]

\* The steps that Reselected takes.
ReselectedBy(h, uid, val, changed, everything, range) ==
  LET list == Board[uid].vars
  IN /\ h \in [0..Len(list) -> [VariablesOf(uid) -> SUBSET Nat]] /\ h[0] = val
     /\ \A i \in 1..Len(list) :
          h[i] = IF Stale(uid, val, changed, everything, i, h[i - 1])
                 THEN With(h[i - 1], list[i].name,
                           Refreshed(uid, list[i], val[list[i].name], h[i - 1], range))
                 ELSE h[i - 1]
     /\ Reselected(uid, val, changed, everything, range) = h[Len(list)]

LEMMA ReselectedSteps ==
  ASSUME Rules, facts \in Collections, NEW uid \in Uids,
         NEW val \in [VariablesOf(uid) -> SUBSET Nat], NEW changed,
         NEW everything \in BOOLEAN, NEW range
  PROVE  \E h : ReselectedBy(h, uid, val, changed, everything, range)
<1> DEFINE list == Board[uid].vars
           n == Len(list)
           V == [VariablesOf(uid) -> SUBSET Nat]
           Next_(i, above) ==
             IF Stale(uid, val, changed, everything, i, above)
             THEN With(above, list[i].name, Refreshed(uid, list[i], val[list[i].name], above, range))
             ELSE above
           G == [i \in 1..n |-> [above \in V |-> Next_(i, above)]]
<1>1. n \in Nat /\ \A i \in 1..n : list[i].name \in VariablesOf(uid)
  <2>1. n \in Nat /\ VariablesOf(uid) = {list[i].name : i \in 1..n}
    BY VariablesListed
  <2> QED BY <2>1
<1>2. ASSUME NEW i \in 1..n, NEW above \in V
      PROVE  Next_(i, above) \in V
  <2>1. Default(uid, list[i], above, range) \in SUBSET Nat
    BY DefaultTyped
  <2>2. Refreshed(uid, list[i], val[list[i].name], above, range) \in SUBSET Nat
    BY <1>1, <2>1 DEF Refreshed
  <2>3. With(above, list[i].name, Refreshed(uid, list[i], val[list[i].name], above, range)) \in V
    BY <1>1, <2>2 DEF With
  <2> QED BY <2>3
<1>4. PICK g : Recursive(g, V, val, n, G)
  <2>1. G \in [1..n -> [V -> V]]
    BY <1>2
  <2>2. val \in V
    OBVIOUS
  <2> HIDE DEF G, n, V
  <2> QED BY <1>1, <2>1, <2>2, Recursion
<1> DEFINE Step_(f) == [i \in 0..n |->
             IF i = 0 THEN val
             ELSE LET v == list[i]
                      above == f[i - 1]
                      stale == \/ everything
                               \/ \E r \in v.refs : r \in changed \/ above[r] # val[r]
                  IN IF v.type = "query" /\ v.name \notin changed /\ stale
                     THEN With(above, v.name, Refreshed(uid, v, val[v.name], above, range))
                     ELSE above]
<1>5. ASSUME NEW f, NEW i \in 0..n, i # 0
      PROVE  Step_(f)[i] = Next_(i, f[i - 1])
  BY <1>5 DEF Stale
<1>6. g = Step_(g)
  <2>1. g \in [0..n -> V] /\ g[0] = val
    BY <1>4 DEF Recursive
  <2>2. ASSUME NEW i \in 0..n PROVE g[i] = Step_(g)[i]
    <3>1. CASE i = 0
      BY <2>1, <3>1
    <3>2. CASE i # 0
      <4>1. i \in 1..n /\ i - 1 \in 0..n
        BY <1>1, <3>2
      <4>2. g[i] = G[i][g[i - 1]] /\ g[i - 1] \in V
        <5> HIDE DEF G, V
        <5> QED BY <1>4, <4>1 DEF Recursive
      <4>3. g[i] = Next_(i, g[i - 1])
        <5> HIDE DEF Next_
        <5> QED BY <4>1, <4>2
      <4> HIDE DEF Next_, Step_
      <4> QED BY <1>5, <3>2, <4>3
    <3> QED BY <3>1, <3>2
  <2> QED BY <2>1, <2>2
<1> DEFINE h == CHOOSE f : f = Step_(f)
<1>7. h = Step_(h)
  BY <1>6
<1>8. Reselected(uid, val, changed, everything, range) = h[n]
  BY DEF Reselected, Refilled
<1> HIDE DEF h
<1>9. h[0] = val
  BY <1>1, <1>7
<1>10. ASSUME NEW i \in 1..n PROVE h[i] = Next_(i, h[i - 1])
  <2>1. i \in 0..n /\ i # 0
    BY <1>1
  <2> HIDE DEF Step_, Next_
  <2> QED BY <1>5, <1>7, <2>1
<1>11. h \in [0..n -> V]
  <2> DEFINE B == {i \in Nat : i <= n => h[i] \in V}
  <2>1. 0 \in B
    BY <1>9
  <2>2. ASSUME NEW i \in Nat, i \in B PROVE i + 1 \in B
    <3> SUFFICES ASSUME i + 1 <= n PROVE h[i + 1] \in V
      OBVIOUS
    <3>1. i + 1 \in 1..n /\ (i + 1) - 1 = i /\ h[i] \in V
      BY <1>1, <2>2
    <3> HIDE DEF Next_, V
    <3> QED BY <1>2, <1>10, <3>1
  <2>3. Nat \subseteq B
    <3> HIDE DEF B
    <3> QED BY <2>1, <2>2, NatInd
  <2>4. \A i \in 0..n : h[i] \in V
    BY <1>1, <2>3
  <2>5. h = [i \in 0..n |-> h[i]]
    BY <1>7
  <2> HIDE DEF V, Step_
  <2> QED BY <2>4, <2>5
<1> QED BY <1>8, <1>9, <1>10, <1>11 DEF ReselectedBy

\* After a pick or a change of the range: every variable is as it was or read
\* again with the others as they are now.
LEMMA ReselectedFixed ==
  ASSUME Rules, facts \in Collections, NEW uid \in Uids,
         NEW val \in [VariablesOf(uid) -> SUBSET Nat], NEW changed,
         NEW everything \in BOOLEAN, NEW range
  PROVE  LET new == Reselected(uid, val, changed, everything, range)
         IN /\ new \in [VariablesOf(uid) -> SUBSET Nat]
            /\ \A i \in 1..Len(Board[uid].vars) :
                 new[Board[uid].vars[i].name]
                   = Reread(uid, val, changed, everything, range, i, new)
<1>0. PICK h : ReselectedBy(h, uid, val, changed, everything, range)
  BY ReselectedSteps
<1> DEFINE list == Board[uid].vars
           n == Len(list)
           V == [VariablesOf(uid) -> SUBSET Nat]
           Above(i) == NamesAbove(Board[uid], i)
           C(i, above) == Reread(uid, val, changed, everything, range, i, above)
           new == Reselected(uid, val, changed, everything, range)
<1>1. /\ h \in [0..n -> V] /\ h[0] = val
      /\ new = h[n]
  BY <1>0 DEF ReselectedBy
<1>2. /\ n \in Nat /\ VariablesOf(uid) = {list[i].name : i \in 1..n}
  BY VariablesListed
<1>3. \A i \in 1..n : /\ list[i].name \in VariablesOf(uid)
                      /\ \A k \in 1..n : list[k].name = list[i].name => k = i
  BY AboveListed
<1>4. \A i \in 1..n : Above(i) = {list[k].name : k \in 1..(i - 1)}
  BY DEF NamesAbove
<1>5. ASSUME NEW i \in 1..n, h[i - 1] \in V, h[i - 1][list[i].name] = val[list[i].name]
      PROVE  /\ h[i][list[i].name] = C(i, h[i - 1])
             /\ \A m \in VariablesOf(uid) : m # list[i].name => h[i][m] = h[i - 1][m]
  <2>1. CASE Stale(uid, val, changed, everything, i, h[i - 1])
    BY <1>0, <1>3, <1>5, <2>1 DEF ReselectedBy, Reread, With
  <2>2. CASE ~ Stale(uid, val, changed, everything, i, h[i - 1])
    BY <1>0, <1>5, <2>2 DEF ReselectedBy, Reread
  <2> QED BY <2>1, <2>2
<1> HIDE DEF list, n, V, Above, C, new
<1> DEFINE B == {i \in Nat : i <= n => \A k \in 1..n :
                   h[i][list[k].name] = IF k <= i THEN C(k, h[k - 1]) ELSE val[list[k].name]}
<1>6. 0 \in B
  <2>1. \A k \in 1..n : ~ (k <= 0)
    BY <1>2
  <2> QED BY <1>1, <2>1
<1>7. ASSUME NEW i \in Nat, i \in B PROVE i + 1 \in B
  <2> SUFFICES ASSUME i + 1 <= n, NEW k \in 1..n
               PROVE  h[i + 1][list[k].name]
                        = IF k <= i + 1 THEN C(k, h[k - 1]) ELSE val[list[k].name]
    OBVIOUS
  <2>1. /\ i + 1 \in 1..n /\ (i + 1) - 1 = i /\ i <= n /\ i \in 0..n /\ ~ (i + 1 <= i)
    BY <1>2
  <2>2. \A j \in 1..n : h[i][list[j].name] = IF j <= i THEN C(j, h[j - 1]) ELSE val[list[j].name]
    BY <1>7, <2>1
  <2>3. /\ h[i + 1][list[i + 1].name] = C(i + 1, h[i])
        /\ \A m \in VariablesOf(uid) : m # list[i + 1].name => h[i + 1][m] = h[i][m]
    <3>1. h[i] \in V /\ h[i][list[i + 1].name] = val[list[i + 1].name]
      BY <1>1, <2>1, <2>2
    <3> QED BY <1>5, <2>1, <3>1
  <2>4. CASE k = i + 1
    BY <2>1, <2>3, <2>4
  <2>5. CASE k # i + 1
    <3>1. k <= i <=> k <= i + 1
      BY <1>2, <2>5
    <3>2. list[k].name # list[i + 1].name /\ list[k].name \in VariablesOf(uid)
      BY <1>3, <2>1, <2>5
    <3> QED BY <2>2, <2>3, <3>1, <3>2
  <2> QED BY <2>4, <2>5
<1>8. Nat \subseteq B
  <2> HIDE DEF B
  <2> QED BY <1>6, <1>7, NatInd
<1>9. \A i \in 0..n : \A k \in 1..n :
        h[i][list[k].name] = IF k <= i THEN C(k, h[k - 1]) ELSE val[list[k].name]
  BY <1>2, <1>8
<1>10. new \in V
  BY <1>1, <1>2
<1>11. ASSUME NEW i \in 1..n PROVE new[list[i].name] = C(i, new)
  <2>1. i - 1 \in 0..n /\ n \in 0..n /\ i <= n
    BY <1>2
  <2>2. new[list[i].name] = C(i, h[i - 1]) /\ h[i - 1] \in V
    BY <1>1, <1>9, <2>1
  <2>3. ASSUME NEW m \in Above(i) PROVE h[i - 1][m] = new[m]
    <3>1. PICK k \in 1..(i - 1) : m = list[k].name
      BY <1>4
    <3>2. k \in 1..n /\ k <= i - 1 /\ k <= n
      BY <1>2
    <3> QED BY <1>1, <1>9, <2>1, <3>1, <3>2
  <2>4. ASSUME list[i].type = "query"
        PROVE  /\ \A r \in list[i].refs : h[i - 1][r] = new[r]
               /\ Options(uid, list[i], new, range) = Options(uid, list[i], h[i - 1], range)
               /\ FirstOptions(uid, list[i], new, range) = FirstOptions(uid, list[i], h[i - 1], range)
    <3>1. i \in Positions(uid) /\ list[i] = Board[uid].vars[i]
      BY DEF list, n, Positions
    <3>2. SameAbove(uid, i, new, h[i - 1])
      <4>1. NamesAbove(Board[uid], i) \subseteq VariablesOf(uid)
        BY AboveListed DEF list, n
      <4> QED BY <1>10, <2>2, <2>3, <4>1 DEF V, Above, SameAbove
    <3> DEFINE v == list[i]
    <3> HIDE DEF v
    <3>3. v = list[i]
      BY DEF v
    <3>4. SameRead(uid, v, new, h[i - 1], range)
      BY <2>4, <3>1, <3>2, <3>3, ReadAbove
    <3> QED BY <3>3, <3>4 DEF SameRead
  <2>5. Stale(uid, val, changed, everything, i, h[i - 1]) <=> Stale(uid, val, changed, everything, i, new)
    BY <2>4 DEF Stale, list
  <2>6. CASE ~ Stale(uid, val, changed, everything, i, new)
    BY <2>2, <2>5, <2>6 DEF C, Reread
  <2>7. CASE Stale(uid, val, changed, everything, i, new)
    <3>1. list[i].type = "query"
      BY <2>7 DEF Stale, list
    <3>2. Default(uid, list[i], new, range) = Default(uid, list[i], h[i - 1], range)
      BY <2>4, <3>1 DEF Default
    <3>3. Refreshed(uid, list[i], val[list[i].name], new, range)
            = Refreshed(uid, list[i], val[list[i].name], h[i - 1], range)
      BY <2>4, <3>1, <3>2 DEF Refreshed
    <3> QED BY <2>2, <2>5, <2>7, <3>3 DEF C, Reread, list
  <2> QED BY <2>6, <2>7
<1> QED BY <1>10, <1>11 DEF list, n, V, C, new

-----------------------------------------------------------------------------
(* The chain of the variables: a row for every one                         *)

\* What the rules say of a variable with a query.
QueryAt(uid, i, v) ==
  /\ v.type = "query" /\ v.name \in VariablesOf(uid) /\ v.name \notin KEEP_RP
  /\ v.col = ColumnOf(v.name) /\ OptionRule(v)
  /\ v.refs \subseteq NamesAbove(Board[uid], i) /\ NamesAbove(Board[uid], i) \subseteq VariablesOf(uid)
  /\ v.name \notin NamesAbove(Board[uid], i)
  /\ "rp" \in VariablesOf(uid) => "rp" \in v.refs
  /\ v.first = "shared" => Clickhouse(uid) /\ "env_a" \in v.refs

LEMMA QueryListed ==
  ASSUME Rules, NEW uid \in Uids, NEW i \in Positions(uid),
         NEW v, v = Board[uid].vars[i], v.type = "query"
  PROVE  QueryAt(uid, i, v)
<1>1. VariableRule(uid, i) /\ i \in 1..Len(Board[uid].vars)
  BY VariablesListed DEF Positions
<1>2. /\ v.name \in VariablesOf(uid) /\ v.name \notin NamesAbove(Board[uid], i)
      /\ NamesAbove(Board[uid], i) \subseteq VariablesOf(uid)
  BY <1>1, AboveListed
<1>3. v.name \notin KEEP_RP
  <2>1. "query" # "custom"
    OBVIOUS
  <2> QED BY <1>1, <2>1 DEF VariableRule, KEEP_RP
<1> QED BY <1>1, <1>2, <1>3 DEF QueryAt, VariableRule, OptionRule

LEMMA QueryPosition ==
  ASSUME Rules, NEW uid \in Uids, NEW v \in QueryVariables(uid)
  PROVE  \E i \in Positions(uid) : v = Board[uid].vars[i] /\ v.type = "query" /\ QueryAt(uid, i, v)
<1>1. PICK i \in {k \in 1..Len(Board[uid].vars) : Board[uid].vars[k].type = "query"} :
        v = Board[uid].vars[i]
  BY VariablesListed
<1>2. i \in Positions(uid) /\ v.type = "query"
  BY <1>1 DEF Positions
<1> QED BY <1>1, <1>2, QueryListed

\* The rows that the options of a board may come from.
Found(uid, val, range) == {f \in facts : Retained(f, val) /\ (Clickhouse(uid) => InRange(f, range))}

\* A variable has a value that one of its rows has.
Live(uid, v, val, range) == \E f \in OptionRows(uid, v, val, range) : Selects(f, v.name, val)

AllLive(uid, val, range) == \A v \in QueryVariables(uid) : Live(uid, v, val, range)

LEMMA CoversRow ==
  ASSUME NEW u, NEW filters, NEW f, NEW val,
         Covers(u, filters), Matches(f, u.refs, val), Selects(f, u.name, val)
  PROVE  Matches(f, filters, val)
<1>1. ASSUME NEW n \in filters \ (KEEP_RP \cup SIDE_VARS) PROVE Selects(f, n, val)
  <2>1. n \in u.refs \ (KEEP_RP \cup SIDE_VARS) \/ n = u.name
    BY DEF Covers
  <2> QED BY <2>1 DEF Matches
<1>2. ASSUME filters \cap SIDE_VARS # {}
      PROVE  \E n \in filters \cap SIDE_VARS : Selects(f, n, val)
  <2>1. /\ (u.refs \cup {u.name}) \cap SIDE_VARS # {}
        /\ (u.refs \cup {u.name}) \cap SIDE_VARS \subseteq filters
    BY <1>2 DEF Covers
  <2>2. CASE u.name \in SIDE_VARS
    BY <2>1, <2>2
  <2>3. CASE u.refs \cap SIDE_VARS # {}
    <3>1. PICK n \in u.refs \cap SIDE_VARS : Selects(f, n, val)
      BY <2>3 DEF Matches
    <3> QED BY <2>1, <3>1
  <2> QED BY <2>1, <2>2, <2>3
<1> QED BY <1>1, <1>2 DEF Matches

\* There are options for a variable when those above it have a row.
LEMMA Chain ==
  ASSUME Rules, NEW uid \in Uids, NEW i \in Positions(uid),
         NEW v, v = Board[uid].vars[i], v.type = "query",
         NEW val, NEW range, Found(uid, val, range) # {},
         \A u \in QueryVariables(uid) :
           u.name \in NamesAbove(Board[uid], i) => Live(uid, u, val, range)
  PROVE  OptionRows(uid, v, val, range) # {}
<1>1. QueryAt(uid, i, v)
  BY QueryListed
<1>2. \/ v.refs \subseteq KEEP_RP
      \/ \E u \in QueryVariables(uid) :
           /\ u.name \in NamesAbove(Board[uid], i) /\ Covers(u, v.refs)
           /\ v.first = "shared" => u.name = "env_a"
  <2>1. Chained(uid)
    BY DEF Rules, BoardsConsistent
  <2>2. i \in DOMAIN Board[uid].vars
    BY VariablesListed DEF Positions
  <2> QED BY <2>1, <2>2 DEF Chained
<1>3. CASE v.refs \subseteq KEEP_RP
  <2>1. v.refs \cap SIDE_VARS = {} /\ v.refs \ (KEEP_RP \cup SIDE_VARS) = {} /\ v.first # "shared"
    BY <1>1, <1>3 DEF KEEP_RP, SIDE_VARS, QueryAt
  <2>2. PICK f \in facts : Retained(f, val) /\ (Clickhouse(uid) => InRange(f, range))
    BY DEF Found
  <2>3. Matches(f, v.refs, val)
    BY <2>1 DEF Matches
  <2> QED BY <2>1, <2>2, <2>3 DEF OptionRows
<1>4. ASSUME NEW u \in QueryVariables(uid), u.name \in NamesAbove(Board[uid], i), Covers(u, v.refs),
             v.first = "shared" => u.name = "env_a"
      PROVE  OptionRows(uid, v, val, range) # {}
  <2>1. PICK f \in OptionRows(uid, u, val, range) : Selects(f, u.name, val)
    BY <1>4 DEF Live
  <2>2. /\ f \in facts /\ Retained(f, val) /\ (Clickhouse(uid) => InRange(f, range))
        /\ Matches(f, u.refs, val)
    BY DEF OptionRows
  <2>3. Matches(f, v.refs, val)
    BY <1>4, <2>1, <2>2, CoversRow
  <2>4. ASSUME v.first = "shared"
        PROVE  \E g \in facts : InRange(g, range) /\ g[v.col] = f[v.col] /\ Selects(g, "env_a", val)
    BY <1>1, <1>4, <2>1, <2>2, <2>4 DEF QueryAt
  <2> QED BY <2>2, <2>3, <2>4 DEF OptionRows
<1> QED BY <1>2, <1>3, <1>4

\* All, or the first option, is a value that a row has.
LEMMA FirstLive ==
  ASSUME Rules, facts \in Collections, NEW uid \in Uids, NEW i \in Positions(uid),
         NEW v, v = Board[uid].vars[i], v.type = "query",
         NEW val, NEW range, OptionRows(uid, v, val, range) # {},
         val[v.name] = All \/ val[v.name] = FirstOptions(uid, v, val, range)
  PROVE  Live(uid, v, val, range)
<1>1. QueryAt(uid, i, v)
  BY QueryListed
<1>2. CASE val[v.name] = All
  BY <1>2 DEF Live, Selects
<1>3. CASE val[v.name] = FirstOptions(uid, v, val, range)
  <2>1. Options(uid, v, val, range) # {}
    BY DEF Options
  <2>2. PICK o \in Options(uid, v, val, range) : FirstOptions(uid, v, val, range) = {o}
    BY <1>1, <2>1, FirstOptionsOne DEF QueryAt
  <2>3. PICK f \in OptionRows(uid, v, val, range) : f[v.col] = o
    BY DEF Options
  <2> QED BY <1>1, <1>3, <2>2, <2>3 DEF Live, Selects, QueryAt
<1> QED BY <1>2, <1>3

LEMMA DefaultLive ==
  ASSUME Rules, facts \in Collections, NEW uid \in Uids, NEW i \in Positions(uid),
         NEW v, v = Board[uid].vars[i], v.type = "query",
         NEW val, NEW range, OptionRows(uid, v, val, range) # {},
         val[v.name] = Default(uid, v, val, range)
  PROVE  Live(uid, v, val, range)
<1>1. Default(uid, v, val, range) = All \/ Default(uid, v, val, range) = FirstOptions(uid, v, val, range)
  BY DEF Default
<1> QED BY <1>1, FirstLive

\* When a variable has a row as soon as those above it have, all have.
LEMMA LiveInOrder ==
  ASSUME Rules, NEW uid \in Uids, NEW val, NEW range,
         \A i \in Positions(uid) :
           LET v == Board[uid].vars[i]
           IN /\ v.type = "query"
              /\ \A u \in QueryVariables(uid) :
                   u.name \in NamesAbove(Board[uid], i) => Live(uid, u, val, range)
              => Live(uid, v, val, range)
  PROVE  AllLive(uid, val, range)
<1> DEFINE list == Board[uid].vars
           n == Len(list)
           L(k) == list[k].type = "query" => Live(uid, list[k], val, range)
           B == {i \in Nat : \A k \in 1..n : k <= i => L(k)}
<1>1. n \in Nat
  BY VariablesListed
<1>2. 0 \in B
  BY <1>1
<1>3. ASSUME NEW i \in Nat, i \in B PROVE i + 1 \in B
  <2> SUFFICES ASSUME i + 1 \in 1..n, list[i + 1].type = "query"
               PROVE  Live(uid, list[i + 1], val, range)
    <3>1. \A k \in 1..n : k <= i + 1 => k <= i \/ k = i + 1
      BY <1>1
    <3> QED BY <1>3, <3>1
  <2>1. ASSUME NEW u \in QueryVariables(uid), u.name \in NamesAbove(Board[uid], i + 1)
        PROVE  Live(uid, u, val, range)
    <3>1. PICK k \in 1..((i + 1) - 1) : u.name = list[k].name
      BY <2>1 DEF NamesAbove
    <3>2. PICK j \in Positions(uid) : u = list[j] /\ u.type = "query"
      BY QueryPosition
    <3>3. k \in 1..n /\ k <= i /\ j \in 1..n
      BY <1>1 DEF Positions
    <3>4. k = j
      BY <3>1, <3>2, <3>3, AboveListed
    <3> QED BY <1>3, <3>2, <3>3, <3>4
  <2>2. i + 1 \in Positions(uid)
    BY DEF Positions
  <2> QED BY <2>1, <2>2
<1>4. Nat \subseteq B
  <2> HIDE DEF B
  <2> QED BY <1>2, <1>3, NatInd
<1>5. ASSUME NEW u \in QueryVariables(uid) PROVE Live(uid, u, val, range)
  <2>1. PICK j \in Positions(uid) : u = list[j] /\ u.type = "query"
    BY QueryPosition
  <2>2. j \in 1..n /\ j \in Nat /\ j \in B
    BY <1>1, <1>4 DEF Positions
  <2>3. L(j)
    BY <2>2
  <2> QED BY <2>1, <2>3
<1> QED BY <1>5 DEF AllLive

\* A board opened with values that rows have has a row for every variable.
LEMMA SelectionLive ==
  ASSUME Rules, facts \in Collections, NEW uid \in Uids, NEW url, UrlRule(uid, url), NEW range,
         NEW sel, sel = Selection(uid, url, range), Found(uid, sel, range) # {},
         \A v \in QueryVariables(uid) : v.name \in DOMAIN url => Live(uid, v, sel, range)
  PROVE  AllLive(uid, sel, range)
<1>1. ASSUME NEW i \in Positions(uid), NEW v, v = Board[uid].vars[i], v.type = "query",
             \A u \in QueryVariables(uid) :
               u.name \in NamesAbove(Board[uid], i) => Live(uid, u, sel, range)
      PROVE  Live(uid, v, sel, range)
  <2>1. sel[v.name] = Entry(uid, url, range, i, sel)
    BY <1>1, SelectionFixed DEF Positions
  <2>2. CASE v.name \in DOMAIN url
    <3>1. v \in QueryVariables(uid)
      BY <1>1, VariablesListed DEF Positions
    <3> QED BY <2>2, <3>1
  <2>3. CASE v.name \notin DOMAIN url
    <3>1. sel[v.name] = Default(uid, v, sel, range)
      BY <1>1, <2>1, <2>3 DEF Entry
    <3>2. OptionRows(uid, v, sel, range) # {}
      BY <1>1, Chain
    <3> QED BY <1>1, <3>1, <3>2, DefaultLive
  <2> QED BY <2>2, <2>3
<1> QED BY <1>1, LiveInOrder

\* A variable that two boards of one store share keeps its row when it and the
\* variables its query uses keep their values.
LEMMA LiveKept ==
  ASSUME Rules, NEW uid \in Uids, NEW to \in Uids, Clickhouse(to) = Clickhouse(uid),
         "rp" \in VariablesOf(to) <=> "rp" \in VariablesOf(uid),
         NEW v \in QueryVariables(uid), v \in QueryVariables(to),
         NEW val, NEW new, NEW range, DOMAIN val = VariablesOf(uid), DOMAIN new = VariablesOf(to),
         \A r \in v.refs \cup {v.name} : new[r] = val[r],
         Found(uid, val, range) # {} => AllLive(uid, val, range),
         Found(to, new, range) # {}
  PROVE  Live(to, v, new, range)
<1>1. PICK i \in Positions(uid) : QueryAt(uid, i, v)
  BY QueryPosition
<1>2. /\ "rp" \in DOMAIN new <=> "rp" \in DOMAIN val
      /\ "rp" \in DOMAIN val => new["rp"] = val["rp"]
  BY <1>1 DEF QueryAt
<1>3. \A f \in facts : Retained(f, new) <=> Retained(f, val)
  BY <1>2 DEF Retained
<1>4. \A f \in facts : Matches(f, v.refs, new) <=> Matches(f, v.refs, val)
  BY DEF Matches, Selects
<1>5. v.first = "shared" =>
        \A g \in facts : Selects(g, "env_a", new) <=> Selects(g, "env_a", val)
  BY <1>1 DEF Selects, QueryAt
<1>6. OptionRows(to, v, new, range) = OptionRows(uid, v, val, range)
  BY <1>3, <1>4, <1>5 DEF OptionRows
<1>7. Found(uid, val, range) # {}
  BY <1>3 DEF Found
<1>8. PICK f \in OptionRows(uid, v, val, range) : Selects(f, v.name, val)
  BY <1>7 DEF AllLive, Live
<1> QED BY <1>6, <1>8 DEF Live, Selects

\* A value that was refreshed is one that a row has.
LEMMA RefreshedLive ==
  ASSUME Rules, facts \in Collections, NEW uid \in Uids, NEW i \in Positions(uid),
         NEW v, v = Board[uid].vars[i], v.type = "query",
         NEW val, NEW range, OptionRows(uid, v, val, range) # {},
         NEW old, val[v.name] = Refreshed(uid, v, old, val, range)
  PROVE  Live(uid, v, val, range)
<1> DEFINE kept == old \cap Options(uid, v, val, range)
<1>1. CASE old = All
  <2>1. val[v.name] = All
    BY <1>1 DEF Refreshed, All
  <2> QED BY <2>1, FirstLive
<1>2. CASE kept # {}
  <2>1. val[v.name] = kept
    BY <1>2 DEF Refreshed
  <2>2. PICK f \in OptionRows(uid, v, val, range) : f[v.col] \in kept
    BY <1>2 DEF Options
  <2>3. v.col = ColumnOf(v.name)
    BY QueryListed DEF QueryAt
  <2> QED BY <2>1, <2>2, <2>3 DEF Live, Selects
<1>3. CASE ~ (old = All \/ kept # {})
  <2>1. val[v.name] = Default(uid, v, val, range)
    BY <1>3 DEF Refreshed
  <2> QED BY <2>1, DefaultLive
<1> QED BY <1>1, <1>2, <1>3

\* After a pick or a change of the range only the variables that were not read
\* again are left to look at.
LEMMA ReselectedLive ==
  ASSUME Rules, facts \in Collections, NEW uid \in Uids,
         NEW val \in [VariablesOf(uid) -> SUBSET Nat], NEW changed,
         NEW everything \in BOOLEAN, NEW range,
         NEW new, new = Reselected(uid, val, changed, everything, range),
         Found(uid, new, range) # {},
         \A i \in Positions(uid) :
           LET v == Board[uid].vars[i]
           IN /\ v.type = "query" /\ ~ Stale(uid, val, changed, everything, i, new)
              /\ OptionRows(uid, v, new, range) # {}
              => Live(uid, v, new, range)
  PROVE  AllLive(uid, new, range)
<1>1. ASSUME NEW i \in Positions(uid), NEW v, v = Board[uid].vars[i], v.type = "query",
             \A u \in QueryVariables(uid) :
               u.name \in NamesAbove(Board[uid], i) => Live(uid, u, new, range)
      PROVE  Live(uid, v, new, range)
  <2>1. new[v.name] = Reread(uid, val, changed, everything, range, i, new)
    BY <1>1, ReselectedFixed DEF Positions
  <2>2. OptionRows(uid, v, new, range) # {}
    BY <1>1, Chain
  <2>3. CASE ~ Stale(uid, val, changed, everything, i, new)
    BY <1>1, <2>2, <2>3
  <2>4. CASE Stale(uid, val, changed, everything, i, new)
    <3>1. new[v.name] = Refreshed(uid, v, val[v.name], new, range)
      BY <1>1, <2>1, <2>4 DEF Reread
    <3> QED BY <1>1, <2>2, <3>1, RefreshedLive
  <2> QED BY <2>3, <2>4
<1> QED BY <1>1, LiveInOrder

IsReread(uid, val, changed, everything, range, i, v, new) ==
  new[v.name] = Reread(uid, val, changed, everything, range, i, new)

LEMMA RereadOf ==
  ASSUME Rules, facts \in Collections, NEW uid \in Uids,
         NEW val \in [VariablesOf(uid) -> SUBSET Nat], NEW changed,
         NEW everything \in BOOLEAN, NEW range,
         NEW new, new = Reselected(uid, val, changed, everything, range),
         NEW i \in Positions(uid), NEW v, v = Board[uid].vars[i]
  PROVE  IsReread(uid, val, changed, everything, range, i, v, new)
BY ReselectedFixed DEF Positions, IsReread

\* A pick leaves the variables above it as they are.
SameAt(uid, j, v, val, new) ==
  (\A m \in NamesAbove(Board[uid], j) : new[m] = val[m]) /\ new[v.name] = val[v.name]

LEMMA PickedAbove ==
  ASSUME Rules, facts \in Collections, NEW uid \in Uids,
         NEW val \in [VariablesOf(uid) -> SUBSET Nat], NEW j \in Positions(uid), NEW range,
         NEW picked, picked = Board[uid].vars[j],
         NEW new, new = Reselected(uid, val, {picked.name}, FALSE, range)
  PROVE  SameAt(uid, j, picked, val, new)
<1> DEFINE list == Board[uid].vars
           n == Len(list)
           w == list[j].name
           C(k) == new[list[k].name] = val[list[k].name]
           B == {i \in Nat : \A k \in 1..n : k <= i /\ k < j => C(k)}
<1>1. n \in Nat /\ j \in 1..n
  BY VariablesListed DEF Positions
<1>2. ASSUME NEW k \in 1..n, ~ Stale(uid, val, {w}, FALSE, k, new) PROVE C(k)
  <2>1. new[list[k].name] = Reread(uid, val, {w}, FALSE, range, k, new)
    BY ReselectedFixed
  <2> QED BY <1>2, <2>1 DEF Reread
<1>3. 0 \in B
  <2>1. \A k \in 1..n : ~ (k <= 0)
    BY <1>1
  <2> HIDE DEF C, n
  <2> QED BY <2>1
<1>4. ASSUME NEW i \in Nat, i \in B PROVE i + 1 \in B
  <2> SUFFICES ASSUME i + 1 \in 1..n, i + 1 < j PROVE C(i + 1)
    <3>1. \A k \in 1..n : k <= i + 1 /\ k < j => (k <= i /\ k < j) \/ k = i + 1
      BY <1>1
    <3> HIDE DEF C
    <3> QED BY <1>4, <3>1
  <2>1. ASSUME list[i + 1].type = "query", NEW r \in list[i + 1].refs
        PROVE  r # w /\ new[r] = val[r]
    <3>1. r \in NamesAbove(Board[uid], i + 1)
      <4>1. i + 1 \in Positions(uid)
        BY DEF Positions
      <4> QED BY <2>1, <4>1, QueryListed DEF QueryAt
    <3>2. PICK k \in 1..((i + 1) - 1) : r = list[k].name
      BY <3>1 DEF NamesAbove
    <3>3. k \in 1..n /\ k <= i /\ k < j /\ k # j
      BY <1>1
    <3>4. list[k].name # w
      BY <1>1, <3>3, AboveListed
    <3> QED BY <1>4, <3>2, <3>3, <3>4
  <2>2. ~ Stale(uid, val, {w}, FALSE, i + 1, new)
    BY <2>1 DEF Stale
  <2> QED BY <1>2, <2>2
<1>5. Nat \subseteq B
  <2> HIDE DEF B
  <2> QED BY <1>3, <1>4, NatInd
<1>6. \A k \in 1..n : k < j => C(k)
  <2> SUFFICES ASSUME NEW k \in 1..n, k < j PROVE C(k)
    OBVIOUS
  <2>1. k \in Nat /\ k <= k
    BY <1>1
  <2>2. k \in B
    <3> HIDE DEF B
    <3> QED BY <1>5, <2>1
  <2> HIDE DEF C
  <2> QED BY <2>1, <2>2
<1>7. \A m \in NamesAbove(Board[uid], j) : new[m] = val[m]
  <2> SUFFICES ASSUME NEW m \in NamesAbove(Board[uid], j) PROVE new[m] = val[m]
    OBVIOUS
  <2>1. PICK k \in 1..(j - 1) : m = list[k].name
    BY DEF NamesAbove
  <2>2. k \in 1..n /\ k < j
    BY <1>1
  <2> QED BY <1>6, <2>1, <2>2
<1>8. C(j)
  <2>1. ~ Stale(uid, val, {w}, FALSE, j, new)
    BY DEF Stale
  <2> QED BY <1>1, <1>2, <2>1
<1> QED BY <1>7, <1>8 DEF SameAt

-----------------------------------------------------------------------------
(* The page: the inductive invariant                                       *)

OneValue(uid, val) == \A v \in QueryVariables(uid) : ~ v.multi => IsOne(val[v.name])

PageTyped(pg) ==
  /\ pg = [uid |-> pg.uid, val |-> pg.val, range |-> pg.range]
  /\ pg.uid \in Uids /\ pg.range \in Ranges
  /\ pg.val \in [VariablesOf(pg.uid) -> SUBSET Nat]
  /\ OneValue(pg.uid, pg.val)

\* The values left of a statement text older than the range that was clicked.
OldText(uid, val, range) ==
  /\ Board[uid].tag = "ch-runbooks"
  /\ \E f \in facts : /\ ~ InRange(f, range)
                      /\ val["env"] = {f.env} /\ val["db_instance"] \in {All, {f.db_instance}}
  /\ \A v \in QueryVariables(uid) : v.name \notin INST => val[v.name] = All

\* If any row can be found, every variable has a value of a row that matches
\* the variables its query uses, or an older text was clicked.
PageLive(pg) ==
  Found(pg.uid, pg.val, pg.range) # {} =>
    AllLive(pg.uid, pg.val, pg.range) \/ OldText(pg.uid, pg.val, pg.range)

NavigationInv == facts \in Collections /\ (Shown => PageTyped(page) /\ PageLive(page))

\* A step that shows a page of which this holds.
LEMMA ShownNext ==
  ASSUME NEW pg, page' = pg, facts' = facts, facts \in Collections, PageTyped(pg), PageLive(pg)
  PROVE  NavigationInv'
<1>1. PageTyped(page)'
  BY DEF PageTyped
<1>2. PageLive(page)'
  BY DEF PageLive, Found, AllLive, Live, OptionRows, OldText
<1>3. (facts \in Collections)'
  OBVIOUS
<1> QED BY <1>1, <1>2, <1>3 DEF NavigationInv

LEMMA OpenedTyped ==
  ASSUME Rules, facts \in Collections, NEW uid \in Uids, NEW url, UrlRule(uid, url),
         NEW range \in Ranges,
         \A v \in QueryVariables(uid) :
           ~ v.multi /\ v.name \in DOMAIN url => IsOne(url[v.name])
  PROVE  PageTyped(Page(uid, url, range))
<1> DEFINE sel == Selection(uid, url, range)
<1>1. sel \in [VariablesOf(uid) -> SUBSET Nat]
  BY SelectionFixed
<1>2. ASSUME NEW v \in QueryVariables(uid), ~ v.multi PROVE IsOne(sel[v.name])
  <2>1. PICK i \in Positions(uid) : v = Board[uid].vars[i] /\ v.type = "query"
    BY QueryPosition
  <2>2. sel[v.name] = Entry(uid, url, range, i, sel)
    BY <2>1, SelectionFixed DEF Positions
  <2>3. CASE v.name \in DOMAIN url
    BY <1>2, <2>1, <2>2, <2>3 DEF Entry
  <2>4. CASE v.name \notin DOMAIN url
    <3>1. sel[v.name] = Default(uid, v, sel, range)
      BY <2>1, <2>2, <2>4 DEF Entry
    <3>2. IsOne(Default(uid, v, sel, range))
      <4> HIDE DEF sel
      <4> QED BY <1>2, <2>1, DefaultOne
    <3> QED BY <3>1, <3>2
  <2> QED BY <2>3, <2>4
<1>3. OneValue(uid, sel)
  BY <1>2 DEF OneValue
<1> QED BY <1>1, <1>3 DEF PageTyped, Page

LEMMA OpenedLive ==
  ASSUME Rules, facts \in Collections, NEW uid \in Uids, NEW url, UrlRule(uid, url), NEW range,
         NEW sel, sel = Selection(uid, url, range),
         \A v \in QueryVariables(uid) :
           v.name \in DOMAIN url /\ Found(uid, sel, range) # {} => Live(uid, v, sel, range)
  PROVE  PageLive(Page(uid, url, range))
<1>1. Found(uid, sel, range) # {} => AllLive(uid, sel, range)
  BY SelectionLive
<1> QED BY <1>1 DEF PageLive, Page

\* A board opened without values.
LEMMA Afresh ==
  ASSUME Rules, facts \in Collections, NEW uid \in Uids, NEW range \in Ranges
  PROVE  PageTyped(Page(uid, <<>>, range)) /\ PageLive(Page(uid, <<>>, range))
<1> DEFINE url == <<>>
<1>1. DOMAIN url = {}
  OBVIOUS
<1> HIDE DEF url
<1>2. UrlRule(uid, url)
  BY <1>1 DEF UrlRule
<1>3. PageTyped(Page(uid, url, range))
  BY <1>1, <1>2, OpenedTyped
<1>4. PageLive(Page(uid, url, range))
  BY <1>1, <1>2, OpenedLive
<1> QED BY <1>3, <1>4 DEF url

\* Refreshing keeps single values single.
LEMMA ReselectedOne ==
  ASSUME Rules, facts \in Collections, NEW uid \in Uids,
         NEW val \in [VariablesOf(uid) -> SUBSET Nat], NEW changed,
         NEW everything \in BOOLEAN, NEW range, OneValue(uid, val),
         NEW new, new = Reselected(uid, val, changed, everything, range)
  PROVE  OneValue(uid, new)
<1> SUFFICES ASSUME NEW v \in QueryVariables(uid), ~ v.multi
             PROVE  IsOne(new[v.name])
  BY DEF OneValue
<1>1. PICK i \in Positions(uid) : v = Board[uid].vars[i] /\ v.type = "query"
  BY QueryPosition
<1>2. new[v.name] = Reread(uid, val, changed, everything, range, i, new)
  BY <1>1, ReselectedFixed DEF Positions
<1>3. PICK o \in Nat : val[v.name] = {o}
  BY DEF OneValue, IsOne
<1>4. CASE ~ Stale(uid, val, changed, everything, i, new)
  BY <1>1, <1>2, <1>3, <1>4 DEF Reread, IsOne
<1>5. CASE Stale(uid, val, changed, everything, i, new)
  <2>1. new[v.name] = Refreshed(uid, v, {o}, new, range)
    BY <1>1, <1>2, <1>3, <1>5 DEF Reread
  <2>2. IsOne(Default(uid, v, new, range))
    BY <1>1, DefaultOne
  <2>3. {o} \cap Options(uid, v, new, range) \in {{}, {o}} /\ {o} # All
    BY DEF All
  <2> QED BY <2>1, <2>2, <2>3 DEF Refreshed, IsOne
<1> QED BY <1>4, <1>5

\* A change of the range reads every variable again.
LEMMA RangeStep ==
  ASSUME Rules, NavigationInv, ChangeRange, facts' = facts
  PROVE  NavigationInv'
<1>1. /\ facts \in Collections /\ PageTyped(page) /\ page.uid \in Uids
      /\ page.val \in [VariablesOf(page.uid) -> SUBSET Nat] /\ OneValue(page.uid, page.val)
  BY DEF NavigationInv, ChangeRange, PageTyped
<1>2. PICK range \in Ranges :
        page' = [page EXCEPT !.range = range, !.val = Reselected(page.uid, @, {}, TRUE, range)]
  BY DEF ChangeRange
<1> DEFINE uid == page.uid
           val == page.val
           new == Reselected(uid, val, {}, TRUE, range)
           pg == [uid |-> uid, val |-> new, range |-> range]
<1>3. page' = pg
  BY <1>1, <1>2 DEF PageTyped
<1>4. new \in [VariablesOf(uid) -> SUBSET Nat]
  BY <1>1, ReselectedFixed
<1> HIDE DEF new, uid, val
<1>5. new = Reselected(uid, val, {}, TRUE, range) /\ uid \in Uids
      /\ val \in [VariablesOf(uid) -> SUBSET Nat] /\ OneValue(uid, val)
  BY <1>1 DEF new, uid, val
<1>6. OneValue(uid, new)
  BY <1>1, <1>5, ReselectedOne
<1>7. ASSUME Found(uid, new, range) # {} PROVE AllLive(uid, new, range)
  <2>1. ASSUME NEW i \in Positions(uid), Board[uid].vars[i].type = "query"
        PROVE  Stale(uid, val, {}, TRUE, i, new)
    BY <2>1 DEF Stale
  <2> QED BY <1>1, <1>5, <1>7, <2>1, ReselectedLive
<1>8. PageTyped(pg) /\ PageLive(pg)
  BY <1>4, <1>5, <1>6, <1>7 DEF PageTyped, PageLive
<1> QED
  <2> HIDE DEF pg
  <2> QED BY <1>1, <1>3, <1>8, ShownNext

LEMMA OptionsTyped ==
  ASSUME facts \in Collections, NEW v, OptionRule(v), NEW uid, NEW val, NEW range
  PROVE  Options(uid, v, val, range) \in SUBSET Nat
<1>1. OptionRows(uid, v, val, range) \subseteq facts
  BY DEF OptionRows
<1> QED BY <1>1, FactTyped DEF Options, OptionRule

\* On a runbook board of ClickHouse no query is about one side of a comparison.
OneSided(v) == v.first # "shared" /\ v.name \notin SIDE_VARS /\ v.refs \cap SIDE_VARS = {}

LEMMA RunbookBoard ==
  ASSUME Rules, NEW uid \in Uids, Board[uid].tag = "ch-runbooks"
  PROVE  /\ Clickhouse(uid) /\ RunbookRule(uid) /\ INST \subseteq VariablesOf(uid)
         /\ \A v \in QueryVariables(uid) : OneSided(v)
<1>1. Clickhouse(uid) /\ RunbookRule(uid)
  BY DEF Rules, BoardsConsistent
<1>2. ASSUME NEW v \in QueryVariables(uid) PROVE v.name \notin SIDE_VARS
  <2>1. PICK i \in Positions(uid) : v = Board[uid].vars[i]
    BY QueryPosition
  <2>2. VariableRule(uid, i)
    BY VariablesListed DEF Positions
  <2> QED BY <1>1, <2>1, <2>2 DEF VariableRule, RunbookRule
<1>3. ASSUME NEW v \in QueryVariables(uid) PROVE OneSided(v)
  <2>1. v.refs \cap SIDE_VARS = {}
    BY <1>1, <1>2 DEF RunbookRule
  <2>2. v.first = "shared" => "env_a" \in v.refs
    BY QueryPosition DEF QueryAt
  <2> QED BY <1>2, <2>1, <2>2 DEF OneSided, SIDE_VARS
<1>4. INST \subseteq VariablesOf(uid)
  BY <1>1 DEF RunbookRule, QueryVariables, VariablesOf
<1> QED BY <1>1, <1>3, <1>4

\* A pick sets the variable and leaves those above it as they are.
PickedFrom(old, w, choice, val) == val = [old EXCEPT ![w.name] = choice]

PickedTo(uid, j, w, old, choice, val, new) ==
  /\ val \in [VariablesOf(uid) -> SUBSET Nat] /\ new \in [VariablesOf(uid) -> SUBSET Nat]
  /\ \A n \in VariablesOf(uid) : n # w.name => val[n] = old[n]
  /\ w.name \in VariablesOf(uid) /\ val[w.name] = choice /\ new[w.name] = choice
  /\ \A m \in NamesAbove(Board[uid], j) : new[m] = old[m]

LEMMA PickedVariable ==
  ASSUME Rules, facts \in Collections, NEW uid \in Uids, NEW old \in [VariablesOf(uid) -> SUBSET Nat],
         NEW range, NEW j \in Positions(uid), NEW w, w = Board[uid].vars[j], NEW choice \in SUBSET Nat,
         NEW val, PickedFrom(old, w, choice, val),
         NEW new, new = Reselected(uid, val, {w.name}, FALSE, range)
  PROVE  PickedTo(uid, j, w, old, choice, val, new)
<1>1. /\ w.name \in VariablesOf(uid) /\ w.name \notin NamesAbove(Board[uid], j)
      /\ NamesAbove(Board[uid], j) \subseteq VariablesOf(uid)
  BY AboveListed DEF Positions
<1>2. /\ val \in [VariablesOf(uid) -> SUBSET Nat] /\ val[w.name] = choice
      /\ \A n \in VariablesOf(uid) : n # w.name => val[n] = old[n]
  BY <1>1 DEF PickedFrom
<1>3. new \in [VariablesOf(uid) -> SUBSET Nat]
  BY <1>2, ReselectedFixed
<1>4. SameAt(uid, j, w, val, new)
  BY <1>2, PickedAbove, Zenon
<1> QED BY <1>1, <1>2, <1>3, <1>4 DEF SameAt, PickedTo

\* The one picked has a row of its options.
LEMMA PickedLive ==
  ASSUME Rules, facts \in Collections, NEW uid \in Uids, NEW old \in [VariablesOf(uid) -> SUBSET Nat],
         NEW range, NEW j \in Positions(uid), NEW w, w = Board[uid].vars[j], w.type = "query",
         NEW choice, choice \subseteq Options(uid, w, old, range),
         NEW val, NEW new, PickedTo(uid, j, w, old, choice, val, new),
         choice = {} => OptionRows(uid, w, new, range) # {}
  PROVE  \E f \in OptionRows(uid, w, new, range) : Selects(f, w.name, new)
<1>1. QueryAt(uid, j, w)
  BY QueryListed
<1>2. SameAbove(uid, j, new, old)
  BY <1>1 DEF PickedTo, SameAbove, QueryAt
<1>3. SameRead(uid, w, new, old, range)
  BY <1>2, ReadAbove
<1>4. CASE choice = {}
  BY <1>4 DEF PickedTo, Selects, All
<1>5. CASE choice # {}
  <2>1. PICK o \in choice : o \in Options(uid, w, new, range)
    BY <1>3, <1>5 DEF SameRead
  <2>2. PICK f \in OptionRows(uid, w, new, range) : f[w.col] = o
    BY <2>1 DEF Options
  <2> QED BY <1>1, <2>2 DEF PickedTo, Selects, QueryAt
<1> QED BY <1>4, <1>5

\* Another one is read again or left as it is.
Repicked(uid, w, val, range, new) == new = Reselected(uid, val, {w.name}, FALSE, range)

StaleBy(uid, w, val, i, new) == Stale(uid, val, {w.name}, FALSE, i, new)

KeptOrRead(uid, w, old, val, range, i, v, new) ==
  new[v.name] = IF StaleBy(uid, w, val, i, new)
                THEN Refreshed(uid, v, old[v.name], new, range) ELSE old[v.name]

LEMMA NotPicked ==
  ASSUME Rules, facts \in Collections, NEW uid \in Uids, NEW old, NEW range,
         NEW j, NEW w, NEW choice, NEW val, NEW new, PickedTo(uid, j, w, old, choice, val, new),
         Repicked(uid, w, val, range, new),
         NEW i \in Positions(uid), NEW v, v = Board[uid].vars[i], v.name # w.name
  PROVE  KeptOrRead(uid, w, old, val, range, i, v, new)
<1> DEFINE all == FALSE
<1>1. all \in BOOLEAN /\ all = FALSE /\ new = Reselected(uid, val, {w.name}, all, range)
  BY DEF Repicked
<1>2. val \in [VariablesOf(uid) -> SUBSET Nat]
  BY DEF PickedTo
<1> HIDE DEF all
<1>3. IsReread(uid, val, {w.name}, all, range, i, v, new)
  BY <1>1, <1>2, RereadOf, Zenon
<1>4. val[v.name] = old[v.name]
  BY AboveListed DEF PickedTo, Positions
<1> QED BY <1>1, <1>3, <1>4 DEF Reread, IsReread, StaleBy, KeptOrRead

\* A variable that was not read again has its row still.

LEMMA PickLive ==
  ASSUME Rules, facts \in Collections, NEW uid \in Uids, NEW old \in [VariablesOf(uid) -> SUBSET Nat],
         NEW range, Found(uid, old, range) # {} => AllLive(uid, old, range),
         NEW j \in Positions(uid), NEW w, w = Board[uid].vars[j],
         NEW choice \in SUBSET Nat, w.type = "query" => choice \subseteq Options(uid, w, old, range),
         NEW val, PickedFrom(old, w, choice, val),
         NEW new, new = Reselected(uid, val, {w.name}, FALSE, range),
         Found(uid, new, range) # {}
  PROVE  AllLive(uid, new, range)
<1>1. j \in 1..Len(Board[uid].vars)
  BY DEF Positions
<1>2. PickedTo(uid, j, w, old, choice, val, new)
  BY PickedVariable, Zenon
<1>3. /\ val \in [VariablesOf(uid) -> SUBSET Nat] /\ new \in [VariablesOf(uid) -> SUBSET Nat]
      /\ \A n \in VariablesOf(uid) : n # w.name => val[n] = old[n]
  BY <1>2 DEF PickedTo
<1>5. ASSUME NEW i \in Positions(uid), NEW v, v = Board[uid].vars[i], v.type = "query",
             ~ Stale(uid, val, {w.name}, FALSE, i, new), OptionRows(uid, v, new, range) # {}
      PROVE  Live(uid, v, new, range)
  <2>1. QueryAt(uid, i, v)
    BY <1>5, QueryListed
  <2>2. CASE v.name = w.name
    <3>1. i = j
      BY <1>1, <1>5, <2>2, AboveListed DEF Positions
    <3>2. v = w
      BY <1>5, <3>1
    <3> QED BY <1>2, <1>5, <3>2, PickedLive DEF Live
  <2>3. CASE v.name # w.name
    <3>1. \A r \in v.refs : r # w.name /\ new[r] = val[r]
      BY <1>5, <2>3 DEF Stale
    <3>2. new[v.name] = old[v.name]
      <4>1. Repicked(uid, w, val, range, new) /\ ~ StaleBy(uid, w, val, i, new)
        BY <1>5 DEF Repicked, StaleBy
      <4>2. KeptOrRead(uid, w, old, val, range, i, v, new)
        BY <1>2, <1>5, <2>3, <4>1, NotPicked, Zenon
      <4> QED BY <4>1, <4>2 DEF KeptOrRead
    <3>3. \A r \in v.refs \cup {v.name} : new[r] = old[r]
      <4>1. v.refs \cup {v.name} \subseteq VariablesOf(uid)
        BY <2>1 DEF QueryAt
      <4> QED BY <1>3, <2>3, <3>1, <3>2, <4>1
    <3>4. v \in QueryVariables(uid)
      BY <1>5, VariablesListed DEF Positions
    <3> QED BY <1>3, <3>3, <3>4, LiveKept
  <2> QED BY <2>2, <2>3
<1> QED BY <1>3, <1>5, ReselectedLive

\* After the click on an older text: a pick of another instance, or of values
\* below it, is one of rows in the range; without one the text stays selected.
LEMMA PickOld ==
  ASSUME Rules, facts \in Collections, NEW uid \in Uids, NEW old \in [VariablesOf(uid) -> SUBSET Nat],
         NEW range, OldText(uid, old, range),
         NEW j \in Positions(uid), NEW w, w = Board[uid].vars[j],
         NEW choice \in SUBSET Nat, w.type = "query" => choice \subseteq Options(uid, w, old, range),
         NEW val, PickedFrom(old, w, choice, val),
         NEW new, new = Reselected(uid, val, {w.name}, FALSE, range),
         Found(uid, new, range) # {}
  PROVE  AllLive(uid, new, range) \/ OldText(uid, new, range)
<1>1. PickedTo(uid, j, w, old, choice, val, new)
  BY PickedVariable, Zenon
<1>2. /\ val \in [VariablesOf(uid) -> SUBSET Nat] /\ new[w.name] = choice
      /\ \A n \in VariablesOf(uid) : n # w.name => val[n] = old[n]
  BY <1>1 DEF PickedTo
<1>3. /\ Clickhouse(uid) /\ RunbookRule(uid) /\ INST \subseteq VariablesOf(uid)
      /\ \A v \in QueryVariables(uid) : OneSided(v)
  BY RunbookBoard DEF OldText
<1>4. ASSUME NEW i \in Positions(uid), NEW v, v = Board[uid].vars[i], v.type = "query"
      PROVE  /\ v \in QueryVariables(uid) /\ v.name \in VariablesOf(uid)
             /\ v.name = w.name => v = w
             /\ v.name # w.name => KeptOrRead(uid, w, old, val, range, i, v, new)
  <2>1. v \in QueryVariables(uid) /\ v.name \in VariablesOf(uid)
    BY <1>4, VariablesListed, QueryListed DEF Positions, QueryAt
  <2>2. v.name = w.name => i = j
    BY <1>4, AboveListed DEF Positions
  <2>3. Repicked(uid, w, val, range, new)
    BY DEF Repicked
  <2>4. v.name # w.name => KeptOrRead(uid, w, old, val, range, i, v, new)
    BY <1>1, <1>4, <2>3, NotPicked, Zenon
  <2> QED BY <1>4, <2>1, <2>2, <2>4
<1>5. ASSUME w.type = "query", choice # {} \/ OptionRows(uid, w, new, range) # {}
      PROVE  \E f \in OptionRows(uid, w, new, range) : Selects(f, w.name, new)
  BY <1>1, <1>5, PickedLive
<1>6. CASE w.type # "query" \/ (w.name # "env" /\ choice = {})
  <2>1. PICK e \in QueryVariables(uid) : e.name = "env" /\ e.refs = {}
    BY <1>3 DEF RunbookRule, INST
  <2>2. PICK k \in Positions(uid) : e = Board[uid].vars[k] /\ e.type = "query"
    BY QueryPosition
  <2>3. w.name # "env"
    BY <1>4, <1>6, <2>1, <2>2
  <2>4. new["env"] = old["env"] /\ val["env"] = old["env"]
    <3>1. ~ StaleBy(uid, w, val, k, new)
      BY <2>1, <2>2 DEF Stale, StaleBy
    <3>2. KeptOrRead(uid, w, old, val, range, k, e, new)
      BY <1>4, <2>1, <2>2, <2>3
    <3>3. "env" \in VariablesOf(uid)
      BY <1>4, <2>1, <2>2
    <3> QED BY <1>2, <2>1, <2>3, <3>1, <3>2, <3>3 DEF KeptOrRead
  <2>5. PICK o \in QueryVariables(uid) : o.name = "db_instance" /\ o.refs = {"env"}
    BY <1>3 DEF RunbookRule, INST
  <2>6. PICK m \in Positions(uid) : o = Board[uid].vars[m] /\ o.type = "query"
    BY QueryPosition
  <2>7. new["db_instance"] \in {old["db_instance"], All}
    <3>1. CASE w.name = "db_instance"
      <4>1. choice = {}
        BY <1>4, <1>6, <2>5, <2>6, <3>1
      <4> QED BY <1>2, <3>1, <4>1 DEF All
    <3>2. CASE w.name # "db_instance"
      <4>1. ~ StaleBy(uid, w, val, m, new)
        BY <2>3, <2>4, <2>5, <2>6 DEF Stale, StaleBy
      <4>2. KeptOrRead(uid, w, old, val, range, m, o, new)
        BY <1>4, <2>5, <2>6, <3>2
      <4> QED BY <2>5, <4>1, <4>2 DEF KeptOrRead
    <3> QED BY <3>1, <3>2
  <2>8. ASSUME NEW v \in QueryVariables(uid), v.name \notin INST PROVE new[v.name] = All
    <3>1. PICK i \in Positions(uid) : v = Board[uid].vars[i] /\ v.type = "query"
      BY QueryPosition
    <3>2. CASE v.name = w.name
      <4>1. choice = {}
        BY <1>4, <1>6, <3>1, <3>2
      <4> QED BY <1>2, <3>2, <4>1 DEF All
    <3>3. CASE v.name # w.name
      <4>1. old[v.name] = All
        BY <2>8 DEF OldText
      <4>2. Refreshed(uid, v, All, new, range) = All
        BY DEF Refreshed, All
      <4>3. KeptOrRead(uid, w, old, val, range, i, v, new)
        BY <1>4, <3>1, <3>3
      <4> QED BY <4>1, <4>2, <4>3 DEF KeptOrRead
    <3> QED BY <3>2, <3>3
  <2> QED BY <2>4, <2>7, <2>8 DEF OldText
<1>7. CASE w.type = "query" /\ w.name = "env"
  <2>1. ASSUME NEW i \in Positions(uid), NEW v, v = Board[uid].vars[i], v.type = "query",
               ~ Stale(uid, val, {w.name}, FALSE, i, new), OptionRows(uid, v, new, range) # {}
        PROVE  Live(uid, v, new, range)
    <3>1. v.name = "env"
      <4>1. v \in QueryVariables(uid)
        BY <1>4, <2>1
      <4>2. v.name = "env" \/ "env" \notin v.refs
        BY <1>7, <2>1 DEF Stale
      <4>3. v.name # "env" => "env" \in v.refs
        BY <1>3, <4>1 DEF RunbookRule, INST
      <4> QED BY <4>2, <4>3
    <3> QED BY <1>4, <1>5, <1>7, <2>1, <3>1 DEF Live
  <2> QED BY <1>2, <2>1, ReselectedLive
<1>8. CASE w.type = "query" /\ w.name # "env" /\ choice # {}
  <2>1. PICK f \in OptionRows(uid, w, new, range) : Selects(f, w.name, new)
    BY <1>5, <1>8
  <2>2. /\ f \in facts /\ Retained(f, new) /\ (Clickhouse(uid) => InRange(f, range))
        /\ Matches(f, w.refs, new)
    BY DEF OptionRows
  <2>3. w \in QueryVariables(uid)
    BY <1>4, <1>8
  <2>4. \A n \in INST : n \in w.refs \/ n = w.name
    BY <1>3, <1>8, <2>3 DEF RunbookRule, INST
  <2>5. \A n \in INST : Selects(f, n, new)
    BY <2>1, <2>2, <2>4 DEF Matches, INST, KEEP_RP, SIDE_VARS
  <2>6. ASSUME NEW i \in Positions(uid), NEW v, v = Board[uid].vars[i], v.type = "query",
               ~ Stale(uid, val, {w.name}, FALSE, i, new), OptionRows(uid, v, new, range) # {}
        PROVE  Live(uid, v, new, range)
    <3>1. v \in QueryVariables(uid)
      BY <1>4, <2>6
    <3>2. CASE v.name = w.name
      BY <1>4, <1>5, <1>8, <2>6, <3>2 DEF Live
    <3>3. CASE v.name \in INST
      <4>1. v.refs \subseteq INST /\ v.first # "shared"
        BY <1>3, <3>1, <3>3 DEF RunbookRule, INST, OneSided
      <4>2. Matches(f, v.refs, new)
        BY <2>5, <4>1 DEF Matches, INST, SIDE_VARS
      <4>3. f \in OptionRows(uid, v, new, range)
        BY <2>2, <4>1, <4>2 DEF OptionRows
      <4> QED BY <2>5, <3>3, <4>3 DEF Live
    <3>4. CASE v.name # w.name /\ v.name \notin INST
      <4>1. KeptOrRead(uid, w, old, val, range, i, v, new)
        BY <1>4, <2>6, <3>4
      <4>2. old[v.name] = All
        BY <3>1, <3>4 DEF OldText
      <4>3. new[v.name] = All
        BY <2>6, <4>1, <4>2 DEF KeptOrRead, StaleBy
      <4> QED BY <2>6, <4>3 DEF Live, Selects
    <3> QED BY <3>2, <3>3, <3>4
  <2> QED BY <1>2, <2>6, ReselectedLive
<1> QED BY <1>6, <1>7, <1>8

\* What a user can pick.
LEMMA OfferedTyped ==
  ASSUME Rules, facts \in Collections, page.uid \in Uids,
         NEW w \in ToSet(Board[page.uid].vars), w.type # "textbox", NEW choice \in Offered(w)
  PROVE  /\ choice \in SUBSET Nat
         /\ w.type = "query" => choice \subseteq Options(page.uid, w, page.val, page.range)
         /\ w.type = "query" /\ ~ w.multi => IsOne(choice)
<1> DEFINE uid == page.uid
<1>1. PICK j \in Positions(uid) : w = Board[uid].vars[j]
  <2>1. ToSet(Board[uid].vars) = {Board[uid].vars[i] : i \in 1..Len(Board[uid].vars)}
    BY VariablesListed, BoardTyped DEF Rules, ToSet
  <2> QED BY <2>1 DEF Positions
<1>2. VariableRule(uid, j)
  BY VariablesListed DEF Positions
<1>3. CASE w.type = "custom"
  <2>1. PICK r \in ToSet(RETENTION_POLICIES) : choice = {r}
    BY <1>3 DEF Offered
  <2>2. RETENTION_POLICIES \in [1..2 -> Nat]
    BY DEF RETENTION_POLICIES
  <2>3. r \in Nat
    BY <2>2 DEF ToSet
  <2> QED BY <1>3, <2>1, <2>3
<1>4. CASE w.type = "query"
  <2> DEFINE options == Options(uid, w, page.val, page.range)
  <2>1. OptionRule(w)
    BY <1>1, <1>2, <1>4 DEF VariableRule, OptionRule
  <2>2. options \in SUBSET Nat
    BY <2>1, OptionsTyped
  <2>3. IF w.multi THEN choice \in SUBSET options ELSE choice \in {{o} : o \in options}
    BY <1>4 DEF Offered
  <2> HIDE DEF options
  <2>4. CASE w.multi
    BY <2>2, <2>3, <2>4 DEF options
  <2>5. CASE ~ w.multi
    <3>1. PICK o \in options : choice = {o}
      BY <2>3, <2>5
    <3> QED BY <2>2, <3>1 DEF options, IsOne
  <2> QED BY <2>4, <2>5
<1> QED BY <1>1, <1>2, <1>3, <1>4 DEF VariableRule

LEMMA PickStep ==
  ASSUME Rules, NavigationInv, PickVariable, facts' = facts
  PROVE  NavigationInv'
<1> DEFINE uid == page.uid
           old == page.val
           range == page.range
<1>1. /\ facts \in Collections /\ PageTyped(page) /\ uid \in Uids /\ PageLive(page)
      /\ old \in [VariablesOf(uid) -> SUBSET Nat] /\ OneValue(uid, old) /\ range \in Ranges
  BY DEF NavigationInv, PickVariable, PageTyped
<1> DEFINE Picked(w, choice) ==
             page' = [page EXCEPT !.val = Reselected(uid, [old EXCEPT ![w.name] = choice],
                                                     {w.name}, FALSE, range)]
<1>15. PICK w \in ToSet(Board[uid].vars) :
         w.type # "textbox" /\ \E choice \in Offered(w) : Picked(w, choice)
  BY <1>1 DEF PickVariable, PageTyped
<1>2. PICK choice \in Offered(w) : Picked(w, choice)
  BY <1>15
<1>3. PICK j \in Positions(uid) : w = Board[uid].vars[j]
  <2>1. ToSet(Board[uid].vars) = {Board[uid].vars[i] : i \in 1..Len(Board[uid].vars)}
    BY <1>1, VariablesListed, BoardTyped DEF Rules, ToSet
  <2> QED BY <2>1 DEF Positions
<1>4. /\ choice \in SUBSET Nat
      /\ w.type = "query" => choice \subseteq Options(uid, w, old, range)
      /\ w.type = "query" /\ ~ w.multi => IsOne(choice)
  BY <1>1, <1>15, OfferedTyped
<1>5. w.name \in VariablesOf(uid)
  BY <1>1, <1>3, AboveListed DEF Positions
<1> DEFINE val == [old EXCEPT ![w.name] = choice]
           new == Reselected(uid, val, {w.name}, FALSE, range)
           pg == [uid |-> uid, val |-> new, range |-> range]
<1>6. page' = pg
  BY <1>1, <1>2 DEF PageTyped
<1>7. Found(uid, old, range) # {} => AllLive(uid, old, range) \/ OldText(uid, old, range)
  BY <1>1 DEF PageLive
<1> HIDE DEF uid, old, range
<1>8. val \in [VariablesOf(uid) -> SUBSET Nat]
  BY <1>1, <1>4, <1>5
<1>9. OneValue(uid, val)
  <2> SUFFICES ASSUME NEW v \in QueryVariables(uid), ~ v.multi PROVE IsOne(val[v.name])
    BY DEF OneValue
  <2>1. PICK i \in Positions(uid) : v = Board[uid].vars[i] /\ v.type = "query" /\ QueryAt(uid, i, v)
    BY <1>1, QueryPosition
  <2>2. CASE v.name = w.name
    <3>1. i = j
      BY <1>1, <1>3, <2>1, <2>2, AboveListed DEF Positions
    <3> QED BY <1>1, <1>3, <1>4, <1>5, <2>1, <2>2, <3>1
  <2>3. CASE v.name # w.name
    BY <1>1, <2>1, <2>3 DEF OneValue, QueryAt
  <2> QED BY <2>2, <2>3
<1> HIDE DEF val, new
<1>10. PickedFrom(old, w, choice, val) /\ new = Reselected(uid, val, {w.name}, FALSE, range)
  BY DEF val, new, PickedFrom
<1>11. new \in [VariablesOf(uid) -> SUBSET Nat]
  BY <1>1, <1>8, <1>10, ReselectedFixed
<1>12. OneValue(uid, new)
  BY <1>1, <1>8, <1>9, <1>10, ReselectedOne
<1>13. Found(uid, new, range) # {} => AllLive(uid, new, range) \/ OldText(uid, new, range)
  <2>1. CASE OldText(uid, old, range)
    BY <1>1, <1>3, <1>4, <1>10, <2>1, PickOld
  <2>2. CASE Found(uid, old, range) # {} => AllLive(uid, old, range)
    BY <1>1, <1>3, <1>4, <1>10, <2>2, PickLive
  <2> QED BY <1>7, <2>1, <2>2
<1>14. PageTyped(pg) /\ PageLive(pg)
  BY <1>1, <1>11, <1>12, <1>13 DEF PageTyped, PageLive
<1> QED
  <2> HIDE DEF pg
  <2> QED BY <1>1, <1>6, <1>14, ShownNext

\* A dropdown leads to boards of the same store with the same variables.
LEMMA DropdownStep ==
  ASSUME Rules, NavigationInv, UseDropdown, facts' = facts
  PROVE  NavigationInv'
<1> DEFINE uid == page.uid
           val == page.val
           range == page.range
<1>1. /\ facts \in Collections /\ PageTyped(page) /\ uid \in Uids /\ PageLive(page)
      /\ val \in [VariablesOf(uid) -> SUBSET Nat] /\ OneValue(uid, val) /\ range \in Ranges
  BY DEF NavigationInv, UseDropdown, PageTyped
<1>5. PICK d \in Board[uid].dropdowns : \E to \in {u \in Uids : Board[u].tag = d.tag} :
        page' = Page(to, IF d.vars THEN val ELSE <<>>, range)
  BY DEF UseDropdown
<1>2. PICK to \in {u \in Uids : Board[u].tag = d.tag} :
        page' = Page(to, IF d.vars THEN val ELSE <<>>, range)
  BY <1>5
<1>3. CASE ~ d.vars
  <2>1. PageTyped(Page(to, <<>>, range)) /\ PageLive(Page(to, <<>>, range))
    BY <1>1, Afresh
  <2>2. page' = Page(to, <<>>, range)
    BY <1>2, <1>3
  <2> QED BY <1>1, <2>1, <2>2, ShownNext
<1>4. CASE d.vars
  <2>1. DropdownRule(uid, to)
    BY <1>1, <1>2, <1>4 DEF Rules, BoardsConsistent
  <2>2. UrlRule(to, val)
    BY <1>1 DEF UrlRule
  <2>3. Found(uid, val, range) # {} => AllLive(uid, val, range) \/ OldText(uid, val, range)
    BY <1>1 DEF PageLive
  <2> DEFINE sel == Selection(to, val, range)
  <2> HIDE DEF uid, val, range, sel
  <2>4. to \in Uids /\ sel = Selection(to, val, range) /\ DOMAIN val = VariablesOf(uid)
    BY <1>1 DEF sel
  <2>5. ASSUME NEW v \in QueryVariables(to), v.name \in DOMAIN val
        PROVE  v \in QueryVariables(uid)
    BY <2>1, <2>4, <2>5 DEF DropdownRule
  <2>6. PageTyped(Page(to, val, range))
    <3>1. \A v \in QueryVariables(to) : ~ v.multi /\ v.name \in DOMAIN val => IsOne(val[v.name])
      BY <1>1, <2>5 DEF OneValue
    <3> QED BY <1>1, <2>2, <2>4, <3>1, OpenedTyped
  <2>10. ASSUME NEW r \in VariablesOf(to)
         PROVE  \E m \in Positions(to) : /\ Board[to].vars[m].name = r
                                         /\ sel[r] = Entry(to, val, range, m, sel)
    <3>1. PICK m \in Positions(to) : Board[to].vars[m].name = r
      BY <2>4, VariablesListed DEF Positions
    <3> QED BY <1>1, <2>2, <2>4, <3>1, SelectionFixed DEF Positions
  <2>11. ASSUME NEW r \in VariablesOf(to), r \in DOMAIN val PROVE sel[r] = val[r]
    BY <2>10, <2>11 DEF Entry
  <2>7. ASSUME Found(uid, val, range) # {} => AllLive(uid, val, range),
               NEW v \in QueryVariables(to), v.name \in DOMAIN val, Found(to, sel, range) # {}
        PROVE  Live(to, v, sel, range)
    <3>1. v \in QueryVariables(uid)
      BY <2>5, <2>7
    <3>2. PICK i \in Positions(uid) : QueryAt(uid, i, v)
      BY <1>1, <3>1, QueryPosition
    <3>3. PICK k \in Positions(to) : QueryAt(to, k, v)
      BY <2>4, QueryPosition
    <3>4. sel \in [VariablesOf(to) -> SUBSET Nat]
      BY <1>1, <2>2, <2>4, SelectionFixed
    <3>5. ASSUME NEW r \in v.refs \cup {v.name} PROVE sel[r] = val[r]
      <4>1. r \in VariablesOf(to) /\ r \in DOMAIN val
        BY <2>4, <3>2, <3>3 DEF QueryAt
      <4> QED BY <2>11, <4>1
    <3>6. /\ Clickhouse(to) = Clickhouse(uid)
          /\ "rp" \in VariablesOf(to) <=> "rp" \in VariablesOf(uid)
      BY <2>1 DEF DropdownRule
    <3> QED BY <1>1, <2>4, <2>7, <3>1, <3>4, <3>5, <3>6, LiveKept
  <2>12. ASSUME OldText(uid, val, range) PROVE PageLive(Page(to, val, range))
    <3>1. Board[to].tag = "ch-runbooks" /\ Board[uid].tag = "ch-runbooks"
      BY <2>1, <2>12 DEF DropdownRule, OldText
    <3>2. /\ RunbookRule(to) /\ INST \subseteq VariablesOf(to) /\ INST \subseteq DOMAIN val
      BY <1>1, <2>4, <3>1, RunbookBoard
    <3>3. \A n \in INST : sel[n] = val[n]
      BY <2>11, <3>2
    <3>4. ASSUME NEW v \in QueryVariables(to), v.name \notin INST PROVE sel[v.name] = All
      <4>1. CASE v.name \in DOMAIN val
        <5>1. v.name \in VariablesOf(to) /\ v \in QueryVariables(uid)
          BY <2>5, <4>1 DEF VariablesOf, QueryVariables
        <5> QED BY <2>11, <2>12, <3>4, <4>1, <5>1 DEF OldText
      <4>2. CASE v.name \notin DOMAIN val
        <5>1. PICK k \in Positions(to) : v = Board[to].vars[k] /\ v.type = "query" /\ QueryAt(to, k, v)
          BY <2>4, QueryPosition
        <5>2. sel[v.name] = Entry(to, val, range, k, sel)
          BY <1>1, <2>2, <2>4, <5>1, SelectionFixed DEF Positions
        <5> QED BY <3>2, <4>2, <5>1, <5>2 DEF Entry, Default, RunbookRule
      <4> QED BY <4>1, <4>2
    <3>5. OldText(to, sel, range)
      BY <2>12, <3>1, <3>3, <3>4 DEF OldText, INST
    <3> QED BY <2>4, <3>5 DEF PageLive, Page
  <2>13. ASSUME Found(uid, val, range) # {} => AllLive(uid, val, range)
         PROVE  PageLive(Page(to, val, range))
    BY <1>1, <2>2, <2>4, <2>7, <2>13, OpenedLive
  <2>8. PageLive(Page(to, val, range))
    BY <2>3, <2>12, <2>13
  <2>9. page' = Page(to, val, range)
    BY <1>2, <1>4
  <2> QED BY <1>1, <2>6, <2>8, <2>9, ShownNext
<1> QED BY <1>3, <1>4

-----------------------------------------------------------------------------
(* A click: the row clicked is found on the board that the link leads to   *)

\* What a row of a panel says of the selection.
RowOf(p, f, val, range) ==
  /\ f \in facts /\ Retained(f, val) /\ (p.timed => InRange(f, range))
  /\ \A n \in Queried(p) \ (KEEP_RP \cup SIDE_VARS) : Selects(f, n, val)
  /\ p.scope \in {"a", "only_a"} => Selects(f, "env_a", val)
  /\ p.scope \in {"b", "only_b"} => Selects(f, "env_b", val)
  /\ p.scope # "all" \/ Queried(p) \cap SIDE_VARS # {} => \E n \in SIDE_VARS : Selects(f, n, val)

LEMMA SideRow ==
  ASSUME NEW p, NEW f, NEW val, NEW side \in {"a", "b"}, Matches(f, SideFilters(p, side), val)
  PROVE  /\ \A n \in Queried(p) \ (KEEP_RP \cup SIDE_VARS) : Selects(f, n, val)
         /\ side = "a" => Selects(f, "env_a", val)
         /\ side = "b" => Selects(f, "env_b", val)
<1>1. F_SIDE["a"] = {"env_a"} /\ F_SIDE["b"] = {"env_b"}
  BY DEF F_SIDE
<1>2. SideFilters(p, side) \cap SIDE_VARS = F_SIDE[side]
  BY <1>1 DEF SideFilters, SIDE_VARS
<1>3. \A n \in Queried(p) \ (KEEP_RP \cup SIDE_VARS) : n \in SideFilters(p, side) \ (KEEP_RP \cup SIDE_VARS)
  BY DEF SideFilters
<1>4. \E n \in F_SIDE[side] : Selects(f, n, val)
  BY <1>1, <1>2 DEF Matches
<1>5. \A n \in Queried(p) \ (KEEP_RP \cup SIDE_VARS) : Selects(f, n, val)
  BY <1>3 DEF Matches
<1> QED BY <1>1, <1>4, <1>5

LEMMA RowAgrees ==
  ASSUME NEW p, p.scope \in {"all", "a", "b", "only_a", "only_b", "both"},
         NEW val, NEW range, NEW f \in Answer(p, val, range)
  PROVE  RowOf(p, f, val, range)
<1> DEFINE at_ == {g \in facts : Retained(g, val) /\ (p.timed => InRange(g, range))}
           rows(filters) == {g \in at_ : Matches(g, filters, val)}
           a == rows(SideFilters(p, "a"))
           b == rows(SideFilters(p, "b"))
<1>1. ASSUME f \in a PROVE /\ f \in at_ /\ Selects(f, "env_a", val)
                           /\ \A n \in Queried(p) \ (KEEP_RP \cup SIDE_VARS) : Selects(f, n, val)
  BY <1>1, SideRow
<1>2. ASSUME f \in b PROVE /\ f \in at_ /\ Selects(f, "env_b", val)
                           /\ \A n \in Queried(p) \ (KEEP_RP \cup SIDE_VARS) : Selects(f, n, val)
  BY <1>2, SideRow
<1>3. /\ p.scope = "all" => f \in rows(Queried(p))
      /\ p.scope \in {"a", "only_a"} => f \in a
      /\ p.scope \in {"b", "only_b"} => f \in b
      /\ p.scope = "both" => f \in a \cup b
  BY DEF Answer
<1>4. ASSUME p.scope = "all"
      PROVE  /\ f \in at_
             /\ \A n \in Queried(p) \ (KEEP_RP \cup SIDE_VARS) : Selects(f, n, val)
             /\ Queried(p) \cap SIDE_VARS # {} => \E n \in SIDE_VARS : Selects(f, n, val)
  BY <1>3, <1>4 DEF Matches
<1> HIDE DEF a, b, rows
<1>5. f \in at_ => f \in facts /\ Retained(f, val) /\ (p.timed => InRange(f, range))
  OBVIOUS
<1> HIDE DEF at_
<1>6. CASE p.scope = "all"
  BY <1>4, <1>5, <1>6 DEF RowOf
<1>7. CASE p.scope \in {"a", "only_a"}
  BY <1>1, <1>3, <1>5, <1>7 DEF RowOf, SIDE_VARS
<1>8. CASE p.scope \in {"b", "only_b"}
  BY <1>2, <1>3, <1>5, <1>8 DEF RowOf, SIDE_VARS
<1>9. CASE p.scope = "both"
  BY <1>1, <1>2, <1>3, <1>5, <1>9 DEF RowOf, SIDE_VARS
<1> QED BY <1>6, <1>7, <1>8, <1>9

\* A click that a page offers.
Clicked(pg, p, l, f) ==
  /\ PageTyped(pg) /\ PageLive(pg)
  /\ p \in QueryPanels(pg.uid) /\ l \in p.links /\ f \in Answer(p, pg.val, pg.range)

\* The parameters of the URL of a link.
LinkUrl(pg, l, f) ==
  LET carried == {n \in DOMAIN l.carry : l.carry[n] \in DOMAIN pg.val}
  IN [n \in DOMAIN l.fields \cup carried |->
        IF n \in DOMAIN l.fields THEN {f[l.fields[n]]} ELSE pg.val[l.carry[n]]]

\* What the rules say of a click.
ClickRules(pg, p, l, f) ==
  /\ PanelRule(pg.uid, p) /\ LinkRule(pg.uid, p, l) /\ ClickRule(pg.uid, p, l)
  /\ RowOf(p, f, pg.val, pg.range)
  /\ pg.uid \in Uids /\ l.to \in Uids /\ pg.val \in [VariablesOf(pg.uid) -> SUBSET Nat]
  /\ OneValue(pg.uid, pg.val) /\ pg.range \in Ranges

LEMMA ClickRuled ==
  ASSUME Rules, NEW pg, NEW p, NEW l, NEW f, Clicked(pg, p, l, f)
  PROVE  ClickRules(pg, p, l, f)
<1>1. /\ pg.uid \in Uids /\ pg.val \in [VariablesOf(pg.uid) -> SUBSET Nat]
      /\ OneValue(pg.uid, pg.val) /\ pg.range \in Ranges
  BY DEF Clicked, PageTyped
<1>2. PanelRule(pg.uid, p) /\ LinkRule(pg.uid, p, l) /\ ClickRule(pg.uid, p, l)
  BY <1>1 DEF Rules, BoardsConsistent, Clicked
<1>3. RowOf(p, f, pg.val, pg.range)
  BY <1>2, RowAgrees DEF PanelRule, Clicked
<1>4. l.to \in Uids
  BY <1>2 DEF LinkRule
<1> QED BY <1>1, <1>2, <1>3, <1>4 DEF ClickRules

LEMMA LinkUrlTyped ==
  ASSUME Rules, facts \in Collections, NEW pg, NEW p, NEW l, NEW f, ClickRules(pg, p, l, f)
  PROVE  /\ UrlRule(l.to, LinkUrl(pg, l, f))
         /\ \A v \in QueryVariables(l.to) :
              ~ v.multi /\ v.name \in DOMAIN LinkUrl(pg, l, f)
                => IsOne(LinkUrl(pg, l, f)[v.name])
<1> DEFINE url == LinkUrl(pg, l, f)
<1>1. /\ DOMAIN url = DOMAIN l.fields \cup Carried(pg.uid, l)
      /\ \A n \in DOMAIN l.fields : url[n] = {f[n]} /\ f[n] \in Nat
      /\ \A n \in Carried(pg.uid, l) : url[n] = pg.val[l.carry[n]] /\ pg.val[l.carry[n]] \in SUBSET Nat
  <2>1. DOMAIN url = DOMAIN l.fields \cup Carried(pg.uid, l)
    BY DEF LinkUrl, Carried, ClickRules
  <2>2. \A n \in DOMAIN l.fields : url[n] = {f[n]}
    BY DEF LinkUrl, ClickRules, LinkRule
  <2>3. \A n \in DOMAIN l.fields : f[n] \in Nat
    BY FactTyped DEF ClickRules, LinkRule, RowOf
  <2>4. \A n \in Carried(pg.uid, l) : url[n] = pg.val[l.carry[n]] /\ pg.val[l.carry[n]] \in SUBSET Nat
    BY DEF LinkUrl, Carried, ClickRules
  <2> QED BY <2>1, <2>2, <2>3, <2>4
<1> HIDE DEF url
<1>2. UrlRule(l.to, url)
  BY <1>1 DEF UrlRule
<1>3. ASSUME NEW v \in QueryVariables(l.to), ~ v.multi, v.name \in DOMAIN url
      PROVE  IsOne(url[v.name])
  <2>1. CASE v.name \in DOMAIN l.fields
    BY <1>1, <2>1 DEF IsOne
  <2>2. CASE v.name \in Carried(pg.uid, l)
    <3>1. v \in QueryVariables(pg.uid) /\ l.carry[v.name] = v.name
      BY <1>3, <2>2 DEF ClickRules, LinkRule, KeptBy
    <3> QED BY <1>1, <1>3, <2>2, <3>1 DEF ClickRules, OneValue
  <2> QED BY <1>1, <1>3, <2>1, <2>2
<1> QED BY <1>2, <1>3 DEF url

\* The board a click leads to: the values of the URL, the retention kept, and
\* every variable but those of one side selects the row clicked.
Landed(pg, l, f, new) ==
  /\ new \in [VariablesOf(l.to) -> SUBSET Nat]
  /\ \A n \in DOMAIN l.fields : new[n] = {f[n]}
  /\ \A n \in Carried(pg.uid, l) \cap VariablesOf(l.to) : new[n] = pg.val[l.carry[n]]
  /\ \A v \in ToSet(Board[l.to].vars) :
       /\ v.name \notin DOMAIN l.fields \cup Carried(pg.uid, l)
       /\ v.type = "textbox" \/ v.multi
       => new[v.name] = All
  /\ "rp" \in VariablesOf(l.to) <=> "rp" \in VariablesOf(pg.uid)
  /\ "rp" \in VariablesOf(l.to) => new["rp"] = pg.val["rp"]
  /\ Retained(f, new)
  /\ \A n \in VariablesOf(l.to) \ (SIDE_VARS \cup KEEP_RP) : Selects(f, n, new)
  /\ SIDE_VARS \cap VariablesOf(l.to) # {} => \E n \in SIDE_VARS : Selects(f, n, new)

LEMMA ListedAt ==
  ASSUME Rules, NEW uid \in Uids, NEW n \in VariablesOf(uid)
  PROVE  \E i \in Positions(uid) : /\ Board[uid].vars[i].name = n
                                   /\ Board[uid].vars[i] \in ToSet(Board[uid].vars)
                                   /\ VariableRule(uid, i)
<1>1. PICK i \in 1..Len(Board[uid].vars) : Board[uid].vars[i].name = n
  BY VariablesListed
<1>2. i \in DOMAIN Board[uid].vars /\ VariableRule(uid, i)
  BY VariablesListed
<1> QED BY <1>1, <1>2 DEF Positions, ToSet

LEMMA VariableAt ==
  ASSUME Rules, NEW uid \in Uids, NEW v \in ToSet(Board[uid].vars)
  PROVE  \E i \in Positions(uid) : v = Board[uid].vars[i] /\ VariableRule(uid, i)
<1>1. PICK i \in DOMAIN Board[uid].vars : v = Board[uid].vars[i]
  BY DEF ToSet
<1>2. i \in 1..Len(Board[uid].vars) /\ VariableRule(uid, i)
  BY VariablesListed
<1> QED BY <1>1, <1>2 DEF Positions

LEMMA ClickLanded ==
  ASSUME Rules, facts \in Collections, NEW pg, NEW p, NEW l, NEW f, ClickRules(pg, p, l, f),
         NEW new, new = Selection(l.to, LinkUrl(pg, l, f), pg.range)
  PROVE  Landed(pg, l, f, new)
<1> DEFINE url == LinkUrl(pg, l, f)
           uid == pg.uid
           to == l.to
           val == pg.val
<1>1. to \in Uids /\ uid \in Uids /\ UrlRule(to, url) /\ val \in [VariablesOf(uid) -> SUBSET Nat]
      /\ LinkRule(uid, p, l) /\ RowOf(p, f, val, pg.range)
  BY LinkUrlTyped DEF ClickRules
<1>2. new \in [VariablesOf(to) -> SUBSET Nat]
  BY <1>1, SelectionFixed
<1>3. /\ DOMAIN url = DOMAIN l.fields \cup Carried(uid, l)
      /\ \A n \in DOMAIN l.fields : url[n] = {f[n]}
      /\ \A n \in Carried(uid, l) : url[n] = val[l.carry[n]] /\ l.carry[n] \in VariablesOf(uid)
  <2>1. DOMAIN url = DOMAIN l.fields \cup Carried(uid, l)
    BY <1>1 DEF LinkUrl, Carried
  <2>2. \A n \in DOMAIN l.fields : url[n] = {f[n]}
    BY <1>1 DEF LinkUrl, LinkRule
  <2>3. \A n \in Carried(uid, l) : url[n] = val[l.carry[n]] /\ l.carry[n] \in VariablesOf(uid)
    BY <1>1 DEF LinkUrl, Carried
  <2> QED BY <2>1, <2>2, <2>3
<1>4. ASSUME NEW i \in Positions(to), NEW v, v = Board[to].vars[i]
      PROVE  new[v.name] = Entry(to, url, pg.range, i, new)
  BY <1>1, <1>4, SelectionFixed DEF Positions
<1> HIDE DEF url, uid, to, val
<1>5. ASSUME NEW n \in VariablesOf(to) \cap DOMAIN url PROVE new[n] = url[n]
  <2>1. PICK i \in Positions(to) : Board[to].vars[i].name = n
    BY <1>1, ListedAt
  <2>2. new[n] = Entry(to, url, pg.range, i, new)
    BY <1>4, <2>1
  <2> QED BY <2>1, <2>2 DEF Entry
<1>6. \A n \in DOMAIN l.fields : /\ new[n] = {f[n]} /\ n \notin SIDE_VARS \cup KEEP_RP
                                 /\ n \in VariablesOf(to)
  BY <1>1, <1>3, <1>5 DEF LinkRule, to
<1>7. \A n \in Carried(uid, l) \cap VariablesOf(to) : new[n] = val[l.carry[n]]
  BY <1>3, <1>5
<1>8. ASSUME NEW v \in ToSet(Board[to].vars),
             v.name \notin DOMAIN l.fields \cup Carried(uid, l), v.type = "textbox" \/ v.multi
      PROVE  new[v.name] = All
  <2>1. PICK i \in Positions(to) : v = Board[to].vars[i] /\ VariableRule(to, i)
    BY <1>1, VariableAt
  <2>2. new[v.name] = Entry(to, url, pg.range, i, new)
    BY <1>4, <2>1
  <2>3. new[v.name] = Default(to, v, new, pg.range)
    BY <1>3, <1>8, <2>1, <2>2 DEF Entry
  <2>4. v.type # "custom"
    BY <1>8, <2>1 DEF VariableRule
  <2> QED BY <1>8, <2>3, <2>4 DEF Default
<1>9. "rp" \in VariablesOf(to) <=> "rp" \in VariablesOf(uid)
  BY <1>1 DEF LinkRule, KeptBy, Carried, KEEP_RP, to
<1>10. "rp" \in VariablesOf(to) => new["rp"] = val["rp"]
  <2>1. "rp" \in VariablesOf(to) => "rp" \in Carried(uid, l) /\ l.carry["rp"] = "rp"
    BY <1>1 DEF LinkRule, KeptBy, KEEP_RP, to
  <2> QED BY <1>7, <2>1
<1>11. Retained(f, new)
  BY <1>1, <1>2, <1>9, <1>10 DEF Retained, RowOf
<1>12. ASSUME NEW n \in VariablesOf(to) \ (SIDE_VARS \cup KEEP_RP) PROVE Selects(f, n, new)
  <2>1. PICK i \in Positions(to) : /\ Board[to].vars[i].name = n
                                   /\ Board[to].vars[i] \in ToSet(Board[to].vars)
    BY <1>1, ListedAt
  <2> DEFINE v == Board[to].vars[i]
  <2>2. RowSelects(uid, p, l, v) /\ v.name = n
    BY <1>1, <2>1 DEF LinkRule, to
  <2>3. v \in ToSet(Board[to].vars)
    BY <2>1
  <2> HIDE DEF v
  <2>4. ColumnOf(n) = n
    BY DEF ColumnOf
  <2>5. CASE n \in DOMAIN l.fields
    BY <1>6, <2>4, <2>5 DEF Selects
  <2>6. CASE n \in Carried(uid, l) /\ Shows(p, l.carry[n]) /\ ColumnOf(l.carry[n]) = n
    <3> DEFINE c == l.carry[n]
    <3>1. Selects(f, c, val)
      <4>1. CASE c \notin SIDE_VARS /\ c \in Queried(p)
        <5>1. c = n
          BY <2>6, <4>1 DEF ColumnOf
        <5> QED BY <1>1, <4>1, <5>1 DEF RowOf
      <4>2. CASE c = "env_a" /\ p.scope \in {"a", "only_a"}
        BY <1>1, <4>2 DEF RowOf
      <4>3. CASE c = "env_b" /\ p.scope \in {"b", "only_b"}
        BY <1>1, <4>3 DEF RowOf
      <4> QED BY <2>6, <4>1, <4>2, <4>3 DEF Shows
    <3>2. new[n] = val[c]
      BY <1>7, <2>6
    <3> QED BY <2>4, <2>6, <3>1, <3>2 DEF Selects
  <2>7. CASE n \notin DOMAIN l.fields \cup Carried(uid, l) /\ (v.type = "textbox" \/ v.multi)
    BY <1>8, <2>2, <2>3, <2>7 DEF Selects
  <2> QED BY <2>2, <2>5, <2>6, <2>7 DEF RowSelects
<1>13. ASSUME SIDE_VARS \cap VariablesOf(to) # {} PROVE \E n \in SIDE_VARS : Selects(f, n, new)
  <2>1. /\ \A n \in SIDE_VARS : n \in Carried(uid, l) /\ l.carry[n] = n
        /\ p.scope # "all" \/ Queried(p) \cap SIDE_VARS # {}
    BY <1>1, <1>13 DEF LinkRule, KeptBy, to
  <2>2. PICK n \in SIDE_VARS : Selects(f, n, val)
    BY <1>1, <2>1 DEF RowOf
  <2>3. \A m \in SIDE_VARS : m \notin DOMAIN l.fields
    BY <1>6
  <2>4. n \in VariablesOf(to)
    BY <1>1, <1>13 DEF LinkRule, to
  <2> QED BY <1>7, <2>1, <2>2, <2>4 DEF Selects
<1> QED BY <1>2, <1>6, <1>7, <1>8, <1>9, <1>10, <1>11, <1>12, <1>13 DEF Landed, uid, to, val

\* A row that agrees with every variable of a query is matched by it.
LEMMA LandedMatches ==
  ASSUME NEW pg, NEW l, NEW f, NEW new, Landed(pg, l, f, new),
         NEW filters \in SUBSET VariablesOf(l.to), filters \cap SIDE_VARS \in {{}, SIDE_VARS}
  PROVE  Matches(f, filters, new)
<1>1. \A n \in filters \ (KEEP_RP \cup SIDE_VARS) : Selects(f, n, new)
  BY DEF Landed
<1>2. filters \cap SIDE_VARS # {} => \E n \in filters \cap SIDE_VARS : Selects(f, n, new)
  <2>1. filters \cap SIDE_VARS # {} => filters \cap SIDE_VARS = SIDE_VARS /\ SIDE_VARS \cap VariablesOf(l.to) # {}
    OBVIOUS
  <2> QED BY <2>1 DEF Landed
<1> QED BY <1>1, <1>2 DEF Matches

LEMMA LinkUrlDomain ==
  ASSUME NEW pg, NEW p, NEW l, NEW f, ClickRules(pg, p, l, f)
  PROVE  DOMAIN LinkUrl(pg, l, f) = DOMAIN l.fields \cup Carried(pg.uid, l)
BY DEF LinkUrl, Carried, ClickRules

\* The values that a link carries are ones that rows have: those of variables
\* of this board, or those of the row clicked if it is in the range.
LEMMA ClickLive ==
  ASSUME Rules, facts \in Collections, NEW pg, NEW p, NEW l, NEW f,
         Clicked(pg, p, l, f), ClickRules(pg, p, l, f), InRange(f, pg.range),
         NEW new, Landed(pg, l, f, new), Found(l.to, new, pg.range) # {},
         NEW v \in QueryVariables(l.to), v.name \in DOMAIN LinkUrl(pg, l, f)
  PROVE  Live(l.to, v, new, pg.range)
<1> DEFINE uid == pg.uid
           to == l.to
           own == v.refs \cup {v.name}
<1>1. LinkRule(uid, p, l) /\ uid \in Uids /\ to \in Uids /\ RowOf(p, f, pg.val, pg.range)
      /\ Clickhouse(to) = Clickhouse(uid)
  BY DEF ClickRules, LinkRule
<1>2. PICK k \in Positions(to) : QueryAt(to, k, v)
  BY <1>1, QueryPosition
<1>3. own \subseteq VariablesOf(to)
  BY <1>2 DEF QueryAt
<1>4. CASE /\ v \in QueryVariables(uid) /\ KeptBy(uid, l, own)
           /\ Found(uid, pg.val, pg.range) # {} => AllLive(uid, pg.val, pg.range)
  <2>1. \A r \in own : new[r] = pg.val[r]
    BY <1>3, <1>4 DEF KeptBy, Landed
  <2>2. Found(uid, pg.val, pg.range) # {} => AllLive(uid, pg.val, pg.range)
    BY <1>4
  <2>3. /\ DOMAIN pg.val = VariablesOf(uid) /\ DOMAIN new = VariablesOf(to)
        /\ "rp" \in VariablesOf(to) <=> "rp" \in VariablesOf(uid)
    BY DEF ClickRules, Landed
  <2> QED BY <1>1, <1>4, <2>1, <2>2, <2>3, LiveKept
<1>5. CASE /\ v.first # "shared" /\ v.name \notin SIDE_VARS
           /\ v.refs \cap SIDE_VARS \in {{}, SIDE_VARS}
  <2>1. Matches(f, v.refs, new)
    BY <1>3, <1>5, LandedMatches
  <2>2. f \in facts /\ Retained(f, new) /\ InRange(f, pg.range)
    BY <1>1 DEF RowOf, Landed
  <2>3. f \in OptionRows(to, v, new, pg.range)
    BY <1>5, <2>1, <2>2 DEF OptionRows
  <2>4. Selects(f, v.name, new)
    BY <1>2, <1>3, <1>5 DEF Landed, QueryAt
  <2> QED BY <2>3, <2>4 DEF Live
<1>6. \/ v \in QueryVariables(uid) /\ KeptBy(uid, l, own)
      \/ /\ v.first # "shared" /\ v.name \notin SIDE_VARS
         /\ v.refs \cap SIDE_VARS \in {{}, SIDE_VARS}
  BY <1>1 DEF LinkRule
<1>7. CASE v \in QueryVariables(uid) /\ OldText(uid, pg.val, pg.range)
  <2>1. OneSided(v)
    BY <1>1, <1>7, RunbookBoard DEF OldText
  <2> QED BY <1>5, <2>1 DEF OneSided
<1>8. \/ Found(uid, pg.val, pg.range) # {} => AllLive(uid, pg.val, pg.range)
      \/ OldText(uid, pg.val, pg.range)
  BY DEF Clicked, PageLive
<1> QED BY <1>4, <1>5, <1>6, <1>7, <1>8

\* A click on an older text leaves it selected.
LEMMA ClickOld ==
  ASSUME Rules, NEW pg, NEW p, NEW l, NEW f, ClickRules(pg, p, l, f), ~ InRange(f, pg.range),
         NEW new, Landed(pg, l, f, new)
  PROVE  ~ p.timed /\ OldText(l.to, new, pg.range)
<1>1. f \in facts /\ ~ p.timed /\ OldTextRule(pg.uid, l)
  BY DEF ClickRules, RowOf, LinkRule
<1>2. \A n \in INST : new[n] = {f[n]}
  BY <1>1 DEF OldTextRule, Landed
<1>3. ASSUME NEW v \in QueryVariables(l.to), v.name \notin INST PROVE new[v.name] = All
  <2>1. v \in ToSet(Board[l.to].vars) /\ v.multi /\ v.name \notin DOMAIN l.fields \cup Carried(pg.uid, l)
    BY <1>1, <1>3 DEF OldTextRule, QueryVariables
  <2> QED BY <2>1 DEF Landed
<1> QED BY <1>1, <1>2, <1>3 DEF OldText, OldTextRule, INST

LEMMA ClickedPage ==
  ASSUME Rules, facts \in Collections, NEW pg, NEW p, NEW l, NEW f, Clicked(pg, p, l, f)
  PROVE  LET next == Page(l.to, LinkUrl(pg, l, f), pg.range)
         IN PageTyped(next) /\ PageLive(next)
<1> DEFINE url == LinkUrl(pg, l, f)
           to == l.to
           range == pg.range
           new == Selection(to, url, range)
<1>1. ClickRules(pg, p, l, f)
  BY ClickRuled
<1>2. /\ UrlRule(to, url) /\ to \in Uids /\ range \in Ranges
      /\ \A v \in QueryVariables(to) : ~ v.multi /\ v.name \in DOMAIN url => IsOne(url[v.name])
  BY <1>1, LinkUrlTyped DEF ClickRules
<1>3. Landed(pg, l, f, new)
  BY <1>1, ClickLanded
<1>4. ASSUME InRange(f, range),
             NEW v \in QueryVariables(to), v.name \in DOMAIN url, Found(to, new, range) # {}
      PROVE  Live(to, v, new, range)
  <2> HIDE DEF new
  <2> QED BY <1>1, <1>3, <1>4, ClickLive
<1>7. ~ InRange(f, range) => OldText(to, new, range)
  <2> HIDE DEF new
  <2> QED BY <1>1, <1>3, ClickOld
<1> HIDE DEF url, to, range
<1>5. PageTyped(Page(to, url, range))
  BY <1>2, OpenedTyped
<1>6. PageLive(Page(to, url, range))
  <2>1. new = Selection(to, url, range)
    BY DEF new
  <2> HIDE DEF new
  <2>2. CASE InRange(f, range)
    BY <1>2, <1>4, <2>1, <2>2, OpenedLive
  <2>3. CASE ~ InRange(f, range)
    BY <1>7, <2>1, <2>3 DEF PageLive, Page
  <2> QED BY <2>2, <2>3
<1> QED BY <1>5, <1>6 DEF url, to, range

LEMMA FollowsLink ==
  ASSUME NEW l, NEW f
  PROVE  Follow(l, f) = Page(l.to, LinkUrl(page, l, f), page.range)
BY DEF Follow, LinkUrl

\* A click is one of a panel of the board shown, in one of its rows.
LEMMA ClickOf ==
  ASSUME NEW c \in Clicks, NavigationInv
  PROVE  \E p : Clicked(page, p, c.link, c.row)
<1>1. Shown /\ c \in UNION {{[link |-> l, row |-> f] : l \in p.links, f \in PanelAnswer(p)} :
                            p \in {q \in QueryPanels(page.uid) : q.links # {}}}
  BY DEF Clicks
<1>2. PICK p \in QueryPanels(page.uid) :
        c \in {[link |-> l, row |-> f] : l \in p.links, f \in PanelAnswer(p)}
  BY <1>1
<1>3. PICK l \in p.links, f \in PanelAnswer(p) : c = [link |-> l, row |-> f]
  BY <1>2
<1>4. c.link = l /\ c.row = f
  BY <1>3
<1> QED BY <1>1, <1>4 DEF Clicked, NavigationInv, PanelAnswer

LEMMA ClickStep ==
  ASSUME Rules, NavigationInv, ClickCell, facts' = facts
  PROVE  NavigationInv'
<1>1. PICK c \in Clicks : page' = Follow(c.link, c.row)
  BY DEF ClickCell, After
<1>2. PICK p : Clicked(page, p, c.link, c.row)
  BY ClickOf
<1> DEFINE next == Page(c.link.to, LinkUrl(page, c.link, c.row), page.range)
<1>3. facts \in Collections
  BY DEF NavigationInv
<1>4. PageTyped(next) /\ PageLive(next)
  BY <1>2, <1>3, ClickedPage
<1>5. page' = next
  BY <1>1, FollowsLink
<1> HIDE DEF next
<1> QED BY <1>3, <1>4, <1>5, ShownNext

-----------------------------------------------------------------------------
(* The theorems about the pages                                            *)

LEMMA NavigationStep ==
  ASSUME Rules, NavigationInv, [Next]_vars
  PROVE  NavigationInv'
<1>1. CASE OpenBoard /\ facts' = facts
  <2>1. PICK uid \in Uids : page' = Page(uid, <<>>, "short")
    BY <1>1 DEF OpenBoard
  <2>2. facts \in Collections /\ "short" \in Ranges
    BY DEF NavigationInv, Ranges
  <2>3. PageTyped(Page(uid, <<>>, "short")) /\ PageLive(Page(uid, <<>>, "short"))
    BY <2>2, Afresh
  <2> QED BY <1>1, <2>1, <2>2, <2>3, ShownNext
<1>2. CASE ClickCell /\ facts' = facts
  BY <1>2, ClickStep
<1>3. CASE UseDropdown /\ facts' = facts
  BY <1>3, DropdownStep
<1>4. CASE PickVariable /\ facts' = facts
  BY <1>4, PickStep
<1>5. CASE ChangeRange /\ facts' = facts
  BY <1>5, RangeStep
<1>6. CASE UNCHANGED <<facts, page>>
  BY <1>6 DEF NavigationInv, Shown, PageTyped, PageLive, OneValue, Found, AllLive, Live, OptionRows,
              OldText
<1>7. Next => \/ (OpenBoard \/ ClickCell \/ UseDropdown \/ PickVariable \/ ChangeRange) /\ facts' = facts
              \/ UNCHANGED <<facts, page>>
  BY DEF Next, Generate, Check, Browse, NavigationNext, CheckNext
<1>8. UNCHANGED vars => UNCHANGED <<facts, page>>
  BY DEF vars
<1> QED BY <1>1, <1>2, <1>3, <1>4, <1>5, <1>6, <1>7, <1>8

\* If the boards keep the rules, the page has a value for each of its variables
\* and every one is that of a row, after any clicks, picks and refreshes, or all
\* that is left selected is the instance of an older statement text that was
\* clicked (builder/common.py, boards/ch_statement_detail.py, Grafana).
THEOREM NavigationInvariant == Rules => (Spec => []NavigationInv)
<1> SUFFICES ASSUME Rules PROVE Spec => []NavigationInv
  OBVIOUS
<1>1. Init => NavigationInv
  BY DEF Init, CheckInit, NavigationInit, NavigationInv, Shown
<1>2. NavigationInv /\ [Next]_vars => NavigationInv'
  BY NavigationStep
<1> QED BY <1>1, <1>2, PTL DEF Spec

LEMMA ShownPage ==
  ASSUME Rules, NavigationInv, Shown
  PROVE  /\ facts \in Collections /\ PageTyped(page) /\ PageLive(page) /\ page.uid \in Uids
         /\ DOMAIN page.val = VariablesOf(page.uid)
BY DEF NavigationInv, PageTyped

LEMMA PanelRuled ==
  ASSUME Rules, NEW uid \in Uids, NEW p \in QueryPanels(uid)
  PROVE  PanelRule(uid, p)
BY DEF Rules, BoardsConsistent

\* The chain of the variables holds (BoardNavigation.SelectionExists): if any
\* row is found there is one with all that is selected, but after a click on a
\* statement text older than the range.
THEOREM SelectionFound == Rules => (Spec => []SelectionExists)
<1> SUFFICES ASSUME Rules PROVE Spec => []SelectionExists
  OBVIOUS
<1>1. ASSUME NavigationInv PROVE SelectionExists
  <2> DEFINE found == {f \in facts : /\ Retained(f, page.val)
                                     /\ Clickhouse(page.uid) => InRange(f, page.range)}
             queried == {v.name : v \in {w \in ToSet(Board[page.uid].vars) : w.type = "query"}}
  <2> SUFFICES ASSUME Shown, found # {}, ~ OldTextSelected(page)
               PROVE  \E f \in found : Matches(f, queried, page.val)
    BY DEF SelectionExists
  <2>8. ~ OldText(page.uid, page.val, page.range)
    BY DEF OldText, OldTextSelected, QueryVariables
  <2>1. PageLive(page) /\ page.uid \in Uids
    BY <1>1, ShownPage
  <2>2. found = Found(page.uid, page.val, page.range)
    BY DEF Found
  <2>3. queried = {v.name : v \in QueryVariables(page.uid)}
    BY DEF QueryVariables
  <2> HIDE DEF queried
  <2>4. PICK u \in QueryVariables(page.uid) : Covers(u, queried)
    BY <2>1, <2>3 DEF Rules, BoardsConsistent, Chained
  <2>5. PICK f \in OptionRows(page.uid, u, page.val, page.range) : Selects(f, u.name, page.val)
    BY <2>1, <2>2, <2>8 DEF PageLive, AllLive, Live
  <2>6. f \in found /\ Matches(f, u.refs, page.val)
    BY DEF OptionRows
  <2>7. Matches(f, queried, page.val)
    BY <2>4, <2>5, <2>6, CoversRow
  <2> QED BY <2>6, <2>7
<1>2. NavigationInv => SelectionExists
  BY <1>1
<1> QED BY <1>2, NavigationInvariant, PTL

\* No panel forgets a filter or sums rows of two envs
\* (BoardNavigation.PanelsRespectSelection; where() of builder/common.py).
LEMMA RespectsSelection ==
  ASSUME Rules, NavigationInv
  PROVE  PanelsRespectSelection
<1>1. ASSUME Shown, NEW p \in QueryPanels(page.uid), ~ MaskText(p), NEW f \in PanelAnswer(p),
             NEW n \in DOMAIN page.val, ColumnOf(n) \in Tags[p.from]
      PROVE  Agrees(f, n)
  <2>1. PageTyped(page) /\ page.uid \in Uids /\ DOMAIN page.val = VariablesOf(page.uid)
    BY <1>1, ShownPage
  <2>2. PanelRule(page.uid, p)
    BY <2>1, PanelRuled
  <2>3. RowOf(p, f, page.val, page.range)
    BY <2>2, RowAgrees DEF PanelRule, PanelAnswer
  <2>4. CASE n \notin SIDE_VARS \cup KEEP_RP /\ n \in Queried(p)
    BY <2>3, <2>4 DEF Agrees, RowOf
  <2>5. CASE n \in SIDE_VARS /\ (p.scope # "all" \/ Queried(p) \cap SIDE_VARS # {})
    <3>1. SIDE_VARS \subseteq VariablesOf(page.uid)
      BY <2>2, <2>5 DEF PanelRule
    <3>2. PICK m \in SIDE_VARS : Selects(f, m, page.val)
      BY <2>3, <2>5 DEF RowOf
    <3>3. PICK i \in Positions(page.uid) : /\ Board[page.uid].vars[i].name = m
                                           /\ Board[page.uid].vars[i] \in ToSet(Board[page.uid].vars)
                                           /\ VariableRule(page.uid, i)
      BY <2>1, <3>1, ListedAt
    <3>4. IsOne(page.val[m])
      BY <2>1, <3>3 DEF VariableRule, QueryVariables, PageTyped, OneValue
    <3>5. f.env \in page.val[m]
      BY <3>2, <3>4 DEF Selects, IsOne, All, ColumnOf
    <3>6. m = "env_a" \/ m = "env_b"
      BY DEF SIDE_VARS
    <3> QED BY <2>5, <3>5, <3>6 DEF Agrees
  <2> QED BY <1>1, <2>1, <2>2, <2>4, <2>5 DEF PanelRule
<1>2. SelectionRespected
  BY <1>1 DEF SelectionRespected
<1>3. ASSUME Shown, NEW p \in QueryPanels(page.uid), p.type # "stat", p.scope = "all",
             NEW f \in PanelAnswer(p), NEW g \in PanelAnswer(p), SameObject(p, f, g)
      PROVE  f.env = g.env
  <2>1. PanelRule(page.uid, p)
    BY <1>3, ShownPage, PanelRuled
  <2> QED BY <1>3, <2>1 DEF PanelRule, SameObject
<1>4. RowsOfOneEnv
  BY <1>3 DEF RowsOfOneEnv
<1> QED BY <1>2, <1>4 DEF PanelsRespectSelection

\* The panels show what is selected, after anything a user does
\* (BoardNavigation.PanelsRespectSelection).
THEOREM SelectionShown == Rules => (Spec => []PanelsRespectSelection)
<1> SUFFICES ASSUME Rules PROVE Spec => []PanelsRespectSelection
  OBVIOUS
<1>1. NavigationInv => PanelsRespectSelection
  BY RespectsSelection
<1> QED BY <1>1, NavigationInvariant, PTL

\* Where a click leads to.
LEMMA ClickFacts ==
  ASSUME Rules, NavigationInv, NEW c \in Clicks
  PROVE  \E p : /\ ClickRules(page, p, c.link, c.row)
                /\ Landed(page, c.link, c.row, After(c).val)
                /\ After(c).range = page.range
                /\ DOMAIN After(c).val = VariablesOf(c.link.to)
<1>1. PICK p : Clicked(page, p, c.link, c.row)
  BY ClickOf
<1>2. ClickRules(page, p, c.link, c.row)
  BY <1>1, ClickRuled
<1> DEFINE new == Selection(c.link.to, LinkUrl(page, c.link, c.row), page.range)
<1>3. After(c).val = new /\ After(c).range = page.range
  BY FollowsLink DEF After, Page
<1>4. facts \in Collections
  BY DEF NavigationInv
<1>5. Landed(page, c.link, c.row, new)
  BY <1>2, <1>4, ClickLanded
<1> HIDE DEF new
<1> QED BY <1>2, <1>3, <1>5 DEF Landed

LEMMA WidePanel ==
  ASSUME NEW uid, NEW q \in WidePanels(uid)
  PROVE  q \in QueryPanels(uid) /\ Queried(q) \cap SIDE_VARS \in {{}, SIDE_VARS}
<1>1. q \in QueryPanels(uid) /\ Cardinality(Queried(q) \cap SIDE_VARS) # 1
  BY DEF WidePanels
<1>2. Cardinality({"env_a"}) = 1 /\ Cardinality({"env_b"}) = 1
  BY FS_Singleton
<1>3. Queried(q) \cap SIDE_VARS \in {{}, {"env_a"}, {"env_b"}, SIDE_VARS}
  BY DEF SIDE_VARS
<1> QED BY <1>1, <1>2, <1>3

\* A row of a wide panel without side variables.
LEMMA AllRows ==
  ASSUME NEW q, q.scope = "all", Queried(q) \cap SIDE_VARS = {}, NEW val, NEW range, NEW f
  PROVE  f \in Answer(q, val, range) <=>
           /\ f \in facts /\ Retained(f, val) /\ (q.timed => InRange(f, range))
           /\ \A n \in Queried(q) \ (KEEP_RP \cup SIDE_VARS) : Selects(f, n, val)
BY DEF Answer, Matches

LEMMA LandsOnRow ==
  ASSUME Rules, NavigationInv
  PROVE  ClickLandsOnRow
<1> SUFFICES ASSUME NEW c \in Clicks
             PROVE  /\ \A q \in WidePanels(c.link.to) : Matches(c.row, Queried(q), After(c).val)
                    /\ \/ c.row \in Visible(After(c))
                       \/ /\ ~ InRange(c.row, page.range)
                          /\ \E q \in QueryPanels(c.link.to) :
                               ~ q.timed /\ c.row \in AnswerOn(After(c), q)
  BY DEF ClickLandsOnRow
<1>1. PICK p : /\ ClickRules(page, p, c.link, c.row)
               /\ Landed(page, c.link, c.row, After(c).val)
               /\ After(c).range = page.range
  BY ClickFacts
<1>2. c.row \in facts /\ Retained(c.row, After(c).val) /\ c.link.to \in Uids
  BY <1>1 DEF Landed, ClickRules, RowOf
<1>4. InRange(c.row, page.range) => c.row \in Visible(After(c))
  BY <1>1, <1>2 DEF Visible
<1>5. ASSUME ~ InRange(c.row, page.range)
      PROVE  \E q \in QueryPanels(c.link.to) : ~ q.timed /\ c.row \in AnswerOn(After(c), q)
  <2>1. OldTextRule(page.uid, c.link)
    BY <1>1, <1>5 DEF ClickRules, RowOf, LinkRule
  <2>2. PICK q \in QueryPanels(c.link.to) :
          ~ q.timed /\ q.scope = "all" /\ Queried(q) \cap SIDE_VARS = {}
    BY <2>1 DEF OldTextRule
  <2>3. Queried(q) \subseteq VariablesOf(c.link.to)
    BY <1>2, PanelRuled DEF PanelRule
  <2>4. \A n \in Queried(q) \ (KEEP_RP \cup SIDE_VARS) : Selects(c.row, n, After(c).val)
    BY <1>1, <2>3 DEF Landed
  <2>5. c.row \in Answer(q, After(c).val, After(c).range)
    BY <1>2, <2>2, <2>4, AllRows
  <2> QED BY <2>2, <2>5 DEF AnswerOn
<1>3. ASSUME NEW q \in WidePanels(c.link.to)
      PROVE  Matches(c.row, Queried(q), After(c).val)
  <2>1. q \in QueryPanels(c.link.to) /\ Queried(q) \cap SIDE_VARS \in {{}, SIDE_VARS}
    BY WidePanel
  <2>2. c.link.to \in Uids
    BY <1>1 DEF ClickRules
  <2>3. Queried(q) \in SUBSET VariablesOf(c.link.to)
    BY <2>1, <2>2, PanelRuled DEF PanelRule
  <2> QED BY <1>1, <2>1, <2>3, LandedMatches
<1> QED BY <1>3, <1>4, <1>5

\* No click loses the row that was clicked, be it a statement text older than
\* the range (BoardNavigation.ClickLandsOnRow; drill_url() and the links of
\* builder/common.py).
THEOREM RowIsFound == Rules => (Spec => []ClickLandsOnRow)
<1> SUFFICES ASSUME Rules PROVE Spec => []ClickLandsOnRow
  OBVIOUS
<1>1. NavigationInv => ClickLandsOnRow
  BY LandsOnRow
<1> QED BY <1>1, NavigationInvariant, PTL

LEMMA ShowsTheRow ==
  ASSUME Rules, NavigationInv
  PROVE  ShowsOnlyTheRow
<1> SUFFICES ASSUME NEW c \in Clicks, NEW q \in WidePanels(c.link.to), ~ MaskText(q),
                    NEW g \in AnswerOn(After(c), q), NEW n \in Tags[q.from],
                    \/ n \in DOMAIN c.link.fields
                    \/ /\ n \in INST /\ c.link.to # page.uid
                       /\ "env" \in DOMAIN After(c).val
             PROVE  g[n] = c.row[n]
  BY DEF ShowsOnlyTheRow
<1> DEFINE new == After(c).val
           l == c.link
           f == c.row
<1>1. PICK p : /\ ClickRules(page, p, l, f) /\ Landed(page, l, f, new)
               /\ After(c).range = page.range /\ DOMAIN new = VariablesOf(l.to)
  BY ClickFacts
<1> HIDE DEF new, l, f
<1>2. l.to \in Uids /\ LinkRule(page.uid, p, l) /\ ClickRule(page.uid, p, l)
      /\ OneValue(page.uid, page.val)
  BY <1>1 DEF ClickRules
<1>3. PanelRule(l.to, q)
  BY <1>2, WidePanel, PanelRuled DEF l
<1>4. RowOf(q, g, new, page.range)
  BY <1>1, <1>3, RowAgrees DEF PanelRule, AnswerOn, new
<1>5. n \notin SIDE_VARS \cup KEEP_RP /\ n \in VariablesOf(l.to)
  <2>1. CASE n \in DOMAIN l.fields
    BY <1>2, <2>1 DEF LinkRule
  <2>2. CASE n \in INST /\ l.to # page.uid /\ "env" \in DOMAIN new
    BY <1>1, <1>2, <2>2 DEF ClickRule, INST, SIDE_VARS, KEEP_RP
  <2> QED BY <2>1, <2>2 DEF l, new
<1>6. ColumnOf(n) = n
  BY <1>5 DEF ColumnOf
<1>7. n \in Queried(q)
  BY <1>3, <1>5, <1>6 DEF PanelRule
<1>8. Selects(g, n, new)
  BY <1>4, <1>5, <1>7 DEF RowOf
<1>9. Selects(f, n, new)
  BY <1>1, <1>5 DEF Landed
<1>10. \E o : new[n] = {o}
  <2>1. CASE n \in DOMAIN l.fields
    BY <1>1, <2>1 DEF Landed
  <2>2. CASE /\ n \in Carried(page.uid, l)
             /\ \E w \in QueryVariables(page.uid) : ~ w.multi /\ w.name = l.carry[n]
    <3>1. new[n] = page.val[l.carry[n]]
      BY <1>1, <1>5, <2>2 DEF Landed
    <3> QED BY <1>2, <2>2, <3>1 DEF OneValue, IsOne
  <2>3. n \in DOMAIN l.fields \/ (n \in INST /\ l.to # page.uid /\ "env" \in DOMAIN new)
    BY DEF l, new
  <2> QED BY <1>1, <1>2, <2>1, <2>2, <2>3 DEF ClickRule
<1> QED BY <1>6, <1>8, <1>9, <1>10 DEF Selects, All, f

LEMMA ShowsAllVariants ==
  ASSUME Rules, NavigationInv
  PROVE  MaskShowsAllVariants
<1> SUFFICES ASSUME NEW c \in Clicks, c.link.on = "query_mask_md5",
                    "queryid" \in DOMAIN After(c).val,
                    NEW q \in WidePanels(c.link.to), q.from = "pg_stmt",
                    NEW g \in Visible(page), \A n \in MASK : g[n] = c.row[n]
             PROVE  g \in AnswerOn(After(c), q)
  BY DEF MaskShowsAllVariants
<1> DEFINE new == After(c).val
           l == c.link
           f == c.row
<1>1. PICK p : /\ ClickRules(page, p, l, f) /\ Landed(page, l, f, new)
               /\ After(c).range = page.range /\ DOMAIN new = VariablesOf(l.to)
  BY ClickFacts
<1>2. l.to \in Uids /\ LinkRule(page.uid, p, l) /\ ClickRule(page.uid, p, l)
  BY <1>1 DEF ClickRules
<1>3. PanelRule(l.to, q)
  BY <1>2, WidePanel, PanelRuled
<1>4. /\ q.scope = "all" /\ Queried(q) \cap SIDE_VARS = {}
      /\ Queried(q) \cap (DOMAIN l.fields \cup Carried(page.uid, l)) \subseteq MASK \cup KEEP_RP
  BY <1>1, <1>2 DEF ClickRule
<1>5. g \in facts /\ Retained(g, page.val) /\ InRange(g, page.range)
  BY DEF Visible
<1>6. \A n \in MASK : g[n] = f[n]
  OBVIOUS
<1>7. AnswerOn(After(c), q) = Answer(q, new, page.range)
  BY <1>1 DEF AnswerOn
<1> HIDE DEF new, l, f
<1>8. Retained(g, new)
  BY <1>1, <1>5 DEF Retained, Landed, ClickRules
<1>9. ASSUME NEW n \in Queried(q) \ (KEEP_RP \cup SIDE_VARS) PROVE Selects(g, n, new)
  <2>1. n \in VariablesOf(l.to) /\ ColumnOf(n) = n
    BY <1>3 DEF PanelRule, ColumnOf
  <2>2. CASE n \in DOMAIN l.fields \cup Carried(page.uid, l)
    <3>1. n \in MASK
      BY <1>4, <2>2
    <3>2. Selects(f, n, new)
      BY <1>1, <2>1 DEF Landed
    <3> QED BY <1>6, <2>1, <3>1, <3>2 DEF Selects
  <2>3. CASE n \notin DOMAIN l.fields \cup Carried(page.uid, l)
    <3>1. PICK v \in ToSet(Board[l.to].vars) : v.name = n
      BY <2>1 DEF VariablesOf
    <3>2. RowSelects(page.uid, p, l, v)
      BY <1>2, <3>1 DEF LinkRule
    <3>3. v.type = "textbox" \/ v.multi
      BY <2>3, <3>1, <3>2 DEF RowSelects
    <3>4. new[n] = All
      BY <1>1, <2>3, <3>1, <3>3 DEF Landed
    <3> QED BY <3>4 DEF Selects
  <2> QED BY <2>2, <2>3
<1>10. g \in Answer(q, new, page.range)
  BY <1>4, <1>5, <1>8, <1>9, AllRows
<1> QED BY <1>7, <1>10

LEMMA FilterNarrows ==
  ASSUME Rules, NavigationInv
  PROVE  SelfFilterNarrows
<1> SUFFICES ASSUME NEW c \in Clicks, c.link.to = page.uid, "usename" \in DOMAIN page.val,
                    NEW q \in WidePanels(page.uid), NEW g \in AnswerOn(After(c), q)
             PROVE  g \in AnswerOn(page, q)
  BY DEF SelfFilterNarrows
<1> DEFINE new == After(c).val
           l == c.link
           f == c.row
           uid == page.uid
<1>1. PICK p : /\ ClickRules(page, p, l, f) /\ Landed(page, l, f, new)
               /\ After(c).range = page.range
  BY ClickFacts
<1>2. /\ uid \in Uids /\ LinkRule(uid, p, l) /\ ClickRule(uid, p, l)
      /\ RowOf(p, f, page.val, page.range) /\ DOMAIN page.val = VariablesOf(uid)
  BY <1>1 DEF ClickRules
<1>3. PanelRule(uid, q)
  BY <1>2, WidePanel, PanelRuled
<1>4. /\ q.scope = "all" /\ Queried(q) \cap SIDE_VARS = {}
      /\ \A n \in Queried(q) : KeptBy(uid, l, {n}) \/ (n \in DOMAIN l.fields /\ n \in Queried(p))
  BY <1>2 DEF ClickRule
<1>5. g \in Answer(q, new, page.range)
  BY <1>1 DEF AnswerOn
<1>6. l.to = uid
  OBVIOUS
<1> HIDE DEF new, l, f, uid
<1>7. /\ g \in facts /\ Retained(g, new) /\ (q.timed => InRange(g, page.range))
      /\ \A n \in Queried(q) \ (KEEP_RP \cup SIDE_VARS) : Selects(g, n, new)
  BY <1>4, <1>5, AllRows
<1>8. Retained(g, page.val)
  BY <1>1, <1>2, <1>6, <1>7 DEF Retained, Landed, uid
<1>9. ASSUME NEW n \in Queried(q) \ (KEEP_RP \cup SIDE_VARS) PROVE Selects(g, n, page.val)
  <2>1. n \in VariablesOf(uid) /\ ColumnOf(n) = n /\ Selects(g, n, new)
    BY <1>3, <1>7 DEF PanelRule, ColumnOf
  <2>2. CASE KeptBy(uid, l, {n})
    <3>1. new[n] = page.val[n]
      BY <1>1, <1>6, <2>1, <2>2 DEF KeptBy, Landed, uid
    <3> QED BY <2>1, <3>1 DEF Selects
  <2>3. CASE n \in DOMAIN l.fields /\ n \in Queried(p)
    <3>1. new[n] = {f[n]}
      BY <1>1, <2>3 DEF Landed
    <3>2. Selects(f, n, page.val)
      BY <1>2, <2>3 DEF RowOf
    <3>3. g[n] = f[n]
      BY <2>1, <3>1 DEF Selects, All
    <3> QED BY <2>1, <3>2, <3>3 DEF Selects
  <2> QED BY <1>4, <2>2, <2>3
<1>10. g \in Answer(q, page.val, page.range)
  BY <1>4, <1>7, <1>8, <1>9, AllRows
<1> QED BY <1>10 DEF AnswerOn

\* No click shows more, or less, than it says (BoardNavigation.ClickShowsExactly;
\* the data links and click-to-filter of builder/common.py).
THEOREM ClickIsExact == Rules => (Spec => []ClickShowsExactly)
<1> SUFFICES ASSUME Rules PROVE Spec => []ClickShowsExactly
  OBVIOUS
<1>1. NavigationInv => ClickShowsExactly
  BY ShowsTheRow, ShowsAllVariants, FilterNarrows DEF ClickShowsExactly
<1> QED BY <1>1, NavigationInvariant, PTL

\* What the rules say of a panel and its twin.
TwinPanels(uid, here, there) ==
  /\ PanelRule(uid, here) /\ here.timed
  /\ there.scope = here.scope /\ there.by = here.by
  /\ Queried(there) = Queried(here) \ KEEP_RP
  /\ there.timed \/ (there.scope = "all" /\ here.from = "pg_stmt_text")

TwinValues(val) == [n \in DOMAIN val \ KEEP_RP |-> val[n]]

\* The filters select the same rows without rp.
LEMMA TwinFilters ==
  ASSUME NEW val, NEW filters, NEW f, filters \ KEEP_RP \subseteq DOMAIN val
  PROVE  Matches(f, filters \ KEEP_RP, TwinValues(val)) <=> Matches(f, filters, val)
<1>1. \A n \in filters \ KEEP_RP : Selects(f, n, TwinValues(val)) <=> Selects(f, n, val)
  BY DEF Selects, TwinValues
<1> QED BY <1>1 DEF Matches, KEEP_RP, SIDE_VARS

\* The answers do not depend on rp if it reaches as far back as the range.
LEMMA TwinRows ==
  ASSUME NEW uid, NEW here, NEW there, TwinPanels(uid, here, there),
         NEW val, DOMAIN val = VariablesOf(uid), NEW range,
         \A f \in facts : InRange(f, range) => Retained(f, val)
  PROVE  LET twin == Answer(there, TwinValues(val), range)
         IN /\ Answer(here, val, range) = {f \in twin : InRange(f, range)}
            /\ here.from # "pg_stmt_text" => Answer(here, val, range) = twin
<1> DEFINE new == TwinValues(val)
           held(p, sel) == {f \in facts : Retained(f, sel) /\ (p.timed => InRange(f, range))}
           rows(p, sel, filters) == {f \in held(p, sel) : Matches(f, filters, sel)}
<1>1. \A f \in facts : Retained(f, new)
  BY DEF Retained, TwinValues, KEEP_RP
<1>2. held(here, val) = {f \in facts : InRange(f, range)}
  BY DEF TwinPanels
<1>3. there.timed => held(there, new) = held(here, val)
  BY <1>1, <1>2
<1>4. \A f \in facts : Matches(f, Queried(there), new) <=> Matches(f, Queried(here), val)
  BY TwinFilters DEF TwinPanels, PanelRule
<1>5. CASE ~ there.timed
  <2>1. there.scope = "all" /\ here.scope = "all" /\ here.from = "pg_stmt_text"
    BY <1>5 DEF TwinPanels
  <2>2. Answer(here, val, range) = rows(here, val, Queried(here))
    BY <2>1 DEF Answer
  <2>3. Answer(there, new, range) = {f \in facts : Matches(f, Queried(there), new)}
    BY <1>1, <1>5, <2>1 DEF Answer
  <2> HIDE DEF new, held
  <2> QED BY <1>2, <1>4, <2>1, <2>2, <2>3 DEF new
<1>6. CASE there.timed /\ here.scope = "all"
  <2>1. Answer(here, val, range) = rows(here, val, Queried(here))
    BY <1>6 DEF Answer
  <2>2. Answer(there, new, range) = rows(there, new, Queried(there))
    BY <1>6 DEF Answer, TwinPanels
  <2> HIDE DEF new, held
  <2> QED BY <1>2, <1>3, <1>4, <1>6, <2>1, <2>2 DEF new
<1>7. CASE there.timed /\ here.scope # "all"
  <2>1. SIDE_VARS \subseteq DOMAIN val /\ Queried(here) \subseteq DOMAIN val
    BY <1>7 DEF TwinPanels, PanelRule
  <2>2. ASSUME NEW side \in {"a", "b"}, NEW f \in facts
        PROVE  Matches(f, SideFilters(there, side), new) <=> Matches(f, SideFilters(here, side), val)
    <3>1. F_SIDE["a"] = {"env_a"} /\ F_SIDE["b"] = {"env_b"}
      BY DEF F_SIDE
    <3>2. SideFilters(there, side) = SideFilters(here, side) \ KEEP_RP
      BY <3>1 DEF SideFilters, KEEP_RP, TwinPanels
    <3>3. SideFilters(here, side) \subseteq DOMAIN val
      BY <2>1, <3>1 DEF SideFilters, SIDE_VARS
    <3> QED BY <3>2, <3>3, TwinFilters
  <2>3. /\ rows(there, new, SideFilters(there, "a")) = rows(here, val, SideFilters(here, "a"))
        /\ rows(there, new, SideFilters(there, "b")) = rows(here, val, SideFilters(here, "b"))
    BY <1>3, <1>7, <2>2
  <2>4. \A f, g : SameObject(there, f, g) <=> SameObject(here, f, g)
    BY DEF SameObject, TwinPanels
  <2>5. here.scope = there.scope /\ here.scope \in {"a", "b", "only_a", "only_b", "both"}
    BY <1>7 DEF TwinPanels, PanelRule
  <2> DEFINE a == rows(here, val, SideFilters(here, "a"))
             b == rows(here, val, SideFilters(here, "b"))
             also(f, S) == \E g \in S : SameObject(here, f, g)
             c == rows(there, new, SideFilters(there, "a"))
             d == rows(there, new, SideFilters(there, "b"))
             too(f, S) == \E g \in S : SameObject(there, f, g)
  <2>8. /\ here.scope = "a" => Answer(here, val, range) = a
        /\ here.scope = "b" => Answer(here, val, range) = b
        /\ here.scope = "only_a" => Answer(here, val, range) = {f \in a : ~ also(f, b)}
        /\ here.scope = "only_b" => Answer(here, val, range) = {f \in b : ~ also(f, a)}
        /\ here.scope = "both" =>
             Answer(here, val, range) = {f \in a \cup b : also(f, a) /\ also(f, b)}
    BY DEF Answer
  <2>9. /\ there.scope = "a" => Answer(there, new, range) = c
        /\ there.scope = "b" => Answer(there, new, range) = d
        /\ there.scope = "only_a" => Answer(there, new, range) = {f \in c : ~ too(f, d)}
        /\ there.scope = "only_b" => Answer(there, new, range) = {f \in d : ~ too(f, c)}
        /\ there.scope = "both" =>
             Answer(there, new, range) = {f \in c \cup d : too(f, c) /\ too(f, d)}
    BY DEF Answer
  <2>6. Answer(there, new, range) = Answer(here, val, range)
    <3>1. a = c /\ b = d
      BY <2>3
    <3> HIDE DEF a, b, c, d, new
    <3> QED BY <2>4, <2>5, <2>8, <2>9, <3>1
  <2>7. \A f \in Answer(here, val, range) : InRange(f, range)
    BY RowAgrees DEF TwinPanels, PanelRule, RowOf
  <2> HIDE DEF new, held
  <2> QED BY <2>6, <2>7 DEF new
<1> QED BY <1>5, <1>6, <1>7

\* The ch-* boards show what the pg-* boards show, and older statement texts
\* (BoardNavigation.TwinsAgree; twin() of builder/clickhouse.py).
THEOREM TwinsShowTheSame == Rules => (Spec => []TwinsAgree)
<1> SUFFICES ASSUME Rules PROVE Spec => []TwinsAgree
  OBVIOUS
<1>1. ASSUME NavigationInv PROVE TwinsAgree
  <2> DEFINE here == Board[page.uid].panels
             there == Board[Twin(page.uid)].panels
  <2> SUFFICES ASSUME Shown, ~ Clickhouse(page.uid),
                      \A f \in facts : InRange(f, page.range) => Retained(f, page.val)
               PROVE  Alike(here, there)
    BY DEF TwinsAgree
  <2>1. page.uid \in Uids /\ DOMAIN page.val = VariablesOf(page.uid)
    BY <1>1, ShownPage
  <2>2. TwinRule(page.uid)
    BY <2>1 DEF Rules, BoardsConsistent
  <2>3. ASSUME NEW i \in {k \in 1..Len(here) : here[k].targets # <<>>}
        PROVE  /\ PanelAnswer(here[i]) = {f \in TwinAnswer(there[i]) : InRange(f, page.range)}
               /\ here[i].from # "pg_stmt_text" => PanelAnswer(here[i]) = TwinAnswer(there[i])
               /\ there[i].by = here[i].by
               /\ there[i].links = {TwinLink(l) : l \in here[i].links}
    <3>1. /\ there[i].by = here[i].by
          /\ there[i].links = {TwinLink(l) : l \in here[i].links}
      BY <2>2 DEF TwinRule
    <3>2. here[i] \in QueryPanels(page.uid)
      <4>1. DOMAIN here = 1..Len(here)
        BY <2>1, BoardTyped DEF Rules
      <4> QED BY <4>1 DEF QueryPanels, ToSet
    <3>3. TwinPanels(page.uid, here[i], there[i])
      <4>1. PanelRule(page.uid, here[i])
        BY <2>1, <3>2, PanelRuled
      <4> QED BY <2>2, <4>1 DEF TwinRule, TwinPanels
    <3> DEFINE val == page.val
               range == page.range
               twin == Answer(there[i], TwinValues(val), range)
    <3>5. TwinAnswer(there[i]) = twin /\ PanelAnswer(here[i]) = Answer(here[i], val, range)
      BY DEF PanelAnswer, TwinAnswer, TwinValues
    <3>4. /\ Answer(here[i], val, range) = {f \in twin : InRange(f, range)}
          /\ here[i].from # "pg_stmt_text" => Answer(here[i], val, range) = twin
      <4>1. \A f \in facts : InRange(f, range) => Retained(f, val)
        OBVIOUS
      <4> HIDE DEF here, there, val, range
      <4> QED BY <2>1, <3>3, <4>1, TwinRows DEF val, range
    <3> HIDE DEF twin, val, here, there
    <3> QED BY <3>1, <3>4, <3>5
  <2>4. Len(here) = Len(there)
    BY <2>2 DEF TwinRule
  <2> HIDE DEF here, there
  <2> QED BY <2>3, <2>4 DEF Alike
<1>2. NavigationInv => TwinsAgree
  BY <1>1
<1> QED BY <1>2, NavigationInvariant, PTL

-----------------------------------------------------------------------------
(* The check: its values                                                   *)

LEMMA EnvTyped ==
  ASSUME facts \in Collections
  PROVE  \A f \in facts : f.env \in Nat
<1>1. "env" \in Tags.pg_settings_limits /\ "pg_settings_limits" \in DOMAIN Tags
  BY DEF Tags, INST
<1>2. "env" \in TagColumns
  BY <1>1 DEF TagColumns
<1> QED BY <1>2, FactTyped

ValuesTyped(val) == \A n \in DOMAIN val : val[n] \subseteq Nat

LEMMA WithNumbers ==
  ASSUME NEW val, ValuesTyped(val), NEW n, NEW set \in SUBSET Nat
  PROVE  ValuesTyped(With(val, n, set))
BY DEF ValuesTyped, With

LEMMA BoardsCounted ==
  ASSUME BoardsAskable, setting \in Settings \cup {NoSetting}
  PROVE  Len(Jobs) \in Nat
<1> DEFINE files == Checked(setting)
<1>1. files \in Seq(Uids)
  BY DEF BoardsAskable
<1>2. Jobs = [i \in 1..2 * Len(files) |-> [uid |-> files[(i + 1) \div 2], pass |-> 2 - (i % 2)]]
  BY DEF Jobs
<1> HIDE DEF files
<1>3. Len(files) \in Nat
  BY <1>1, LenProperties
<1> QED BY <1>2, <1>3

CheckTyped == CheckTypeOK /\ facts \in Collections

LEMMA CursorTyped ==
  ASSUME Rules, CheckTyped, CheckInv', [Next]_vars
  PROVE  /\ exit' # "idle" => setting' \in Settings
         /\ job' \in 1..Len(Jobs') + 1
         /\ at' \in Nat /\ (job' > Len(Jobs') => at' = 0)
         /\ exit' \in {"idle", "running", "0", "1"}
<1>1. exit' \in {"idle", "running", "0", "1"} /\ (exit' # "idle" => setting' \in Settings)
  BY DEF CheckInv
<1>2. CASE exit' = "running"
  <2>1. job' \in 1..Len(Jobs') + 1 /\ at' \in Nat /\ (at' # 0 => job' <= Len(Jobs'))
    BY <1>2 DEF CheckInv, AtQueryOf, AtBoard
  <2>2. Len(Jobs') \in Nat
    <3>1. setting' \in Settings
      BY <1>1, <1>2
    <3> DEFINE files == Checked(setting')
    <3>2. files \in Seq(Uids)
      BY <3>1 DEF BoardsAskable, Rules
    <3>3. Jobs' = [i \in 1..2 * Len(files) |-> [uid |-> files[(i + 1) \div 2], pass |-> 2 - (i % 2)]]
      BY DEF Jobs
    <3> HIDE DEF files
    <3>4. Len(files) \in Nat
      BY <3>2, LenProperties
    <3> QED BY <3>3, <3>4
  <2> DEFINE n == Len(Jobs')
             j == job'
             a == at'
  <2>3. n \in Nat /\ j \in 1..n + 1 /\ a \in Nat /\ (a # 0 => j <= n)
    BY <2>1, <2>2
  <2> HIDE DEF n, j, a
  <2>4. j > n => a = 0
    BY <2>3
  <2> QED BY <1>1, <2>1, <2>4 DEF n, j, a
<1>3. CASE exit' # "running"
  <2>1. UNCHANGED <<setting, job, at>>
    <3>1. CheckNext \/ UNCHANGED checkVars
      BY DEF Next, Generate, Check, Browse, vars
    <3>2. CASE UNCHANGED checkVars
      BY <3>2 DEF checkVars
    <3>3. CASE CheckNext
      BY <1>3, <3>3 DEF CheckNext, StartCheck, AskEnvs, BeginBoard, PassVariable, AskVariable,
           AskVariableCh, AskTarget, EndBoard, Abort, Finish, Running, Step
    <3> QED BY <3>1, <3>2, <3>3
  <2>2. Jobs' = Jobs
    BY <2>1, SameJobs
  <2>3. job \in 1..Len(Jobs) + 1 /\ at \in Nat /\ (job > Len(Jobs) => at = 0)
    BY DEF CheckTyped, CheckTypeOK
  <2>4. job' = job /\ at' = at
    BY <2>1
  <2>5. job' \in 1..Len(Jobs') + 1 /\ at' \in Nat /\ (job' > Len(Jobs') => at' = 0)
    BY <2>2, <2>3, <2>4
  <2> QED BY <1>1, <2>5
<1> QED BY <1>1, <1>2, <1>3

LEMMA EnvsTyped ==
  ASSUME CheckTyped, [Next]_vars
  PROVE  envs' \in Nat \X Nat
<1>0. envs \in Nat \X Nat
  BY DEF CheckTyped, CheckTypeOK
<1>1. CASE AskEnvs
  <2> DEFINE found == {f.env : f \in {g \in facts : Retained(g, [rp |-> {RetentionOfPass}])}}
  <2>1. envs' = <<0, 0>> \/ (found # {} /\ envs' = <<Lowest(found), Highest(found)>>)
    BY <1>1 DEF AskEnvs
  <2>2. found \in SUBSET Nat /\ IsFiniteSet(found)
    <3> DEFINE kept == {g \in facts : Retained(g, [rp |-> {RetentionOfPass}])}
               h == [f \in kept |-> f.env]
    <3>1. kept \in SUBSET facts /\ IsFiniteSet(kept)
      BY FactTyped, FS_Subset DEF CheckTyped
    <3>2. found = {h[f] : f \in kept} /\ \A f \in kept : f.env \in Nat
      BY <3>1, EnvTyped DEF CheckTyped
    <3>3. IsFiniteSet({h[f] : f \in kept})
      <4> HIDE DEF h, kept
      <4> QED BY <3>1, ImageFinite
    <3> QED BY <3>2, <3>3
  <2> HIDE DEF found
  <2>3. found # {} => Lowest(found) \in Nat /\ Highest(found) \in Nat
    BY <2>2, LowestIn, HighestIn
  <2> QED BY <2>1, <2>3
<1>2. CASE EndBoard
  BY <1>2 DEF EndBoard
<1>3. CASE UNCHANGED envs
  BY <1>0, <1>3
<1>4. AskEnvs \/ EndBoard \/ UNCHANGED envs
  BY DEF Next, Generate, Check, Browse, vars, checkVars, CheckNext, StartCheck, BeginBoard,
         PassVariable, AskVariable, AskVariableCh, AskTarget, Abort, Finish
<1> QED BY <1>1, <1>2, <1>3, <1>4

\* The variable asked is one of the board, with options as any.
LEMMA CurrentAt ==
  ASSUME Rules, CheckInv, exit = "running", AtVariable
  PROVE  /\ setting \in Settings /\ Uid \in Uids /\ at \in Positions(Uid)
         /\ CurrentVariable = Board[Uid].vars[at] /\ VariableRule(Uid, at)
         /\ Uid \in ToSet(Checked(setting))
<1>1. at # 0
  BY QueryInBoard
<1>2. /\ setting \in Settings /\ Uid \in ToSet(Checked(setting)) /\ loaded.vars = Board[Uid].vars
      /\ job \in 1..Len(Jobs)
  BY <1>1, InBoard DEF Rules
<1>3. Uid \in Uids
  BY <1>2, JobsTyped DEF Rules, Uid
<1>4. at \in Positions(Uid)
  BY <1>2 DEF AtVariable, Positions
<1>5. VariableRule(Uid, at)
  BY <1>3, <1>4, VariablesListed DEF Positions
<1> QED BY <1>2, <1>3, <1>4, <1>5 DEF CurrentVariable

LEMMA SelectionTyped ==
  ASSUME Rules, CheckTyped, CheckInv, [Next]_vars
  PROVE  ValuesTyped(values)'
<1>0. ValuesTyped(values) /\ facts \in Collections
  BY DEF CheckTyped, CheckTypeOK, ValuesTyped
<1>1. CASE BeginBoard \/ EndBoard
  BY <1>1 DEF BeginBoard, EndBoard, ValuesTyped
<1>2. CASE PassVariable
  <2>1. All \in SUBSET Nat
    BY DEF All
  <2>2. ValuesTyped(With(values, CurrentVariable.name, All))
    BY <1>0, <2>1, WithNumbers
  <2>3. values' = With(values, CurrentVariable.name, All) \/ values' = values
    BY <1>2 DEF PassVariable
  <2> QED BY <1>0, <2>2, <2>3 DEF ValuesTyped
<1>3. CASE AskVariableCh
  <2>1. PICK result \in Results : values' =
          With(values, CurrentVariable.name,
               Selected(CurrentVariable,
                        IF result = "error" THEN NoOption
                        ELSE FirstOptions(Uid, CurrentVariable, Interpolated, "short")))
    BY <1>3 DEF AskVariableCh
  <2> DEFINE first == IF result = "error" THEN NoOption
                      ELSE FirstOptions(Uid, CurrentVariable, Interpolated, "short")
  <2>2. /\ CurrentVariable.type = "query" /\ setting \in Settings
        /\ OptionRule(CurrentVariable)
    <3>1. exit = "running" /\ AtVariable
      BY <1>3 DEF AskVariableCh, Running
    <3>2. /\ setting \in Settings /\ Uid \in Uids /\ at \in Positions(Uid)
          /\ CurrentVariable = Board[Uid].vars[at] /\ VariableRule(Uid, at)
      BY <3>1, CurrentAt
    <3>3. at # 0 /\ loaded.vars = Board[Uid].vars
      BY <3>1, QueryInBoard, InBoard DEF Rules
    <3>4. ~ AtTarget
      <4> DEFINE n == Len(loaded.vars)
                 m == Len(loaded.targets)
      <4>1. n \in Nat /\ m \in Nat /\ at \in 1..n
        BY <3>1, <3>3, InBoard DEF AtVariable, Rules
      <4> HIDE DEF n, m
      <4>2. ~ (at - n \in 1..m)
        BY <4>1
      <4> QED BY <4>2 DEF AtTarget, n, m
    <3>5. CurrentVariable.type = "query"
      BY <1>3, <3>4 DEF AskVariableCh, AtQuery
    <3> QED BY <3>2, <3>5 DEF VariableRule, OptionRule
  <2>3. first \in SUBSET Nat
    <3>1. \E o \in Nat : FirstOptions(Uid, CurrentVariable, Interpolated, "short") = {o}
      BY <1>0, <2>2, FirstOptionsOne
    <3> QED BY <3>1 DEF NoOption
  <2> HIDE DEF first
  <2>4. Selected(CurrentVariable, first) \in SUBSET Nat
    BY <2>2, <2>3, SettingsAssumption DEF Selected, All
  <2>5. ValuesTyped(With(values, CurrentVariable.name, Selected(CurrentVariable, first)))
    BY <1>0, <2>4, WithNumbers
  <2>6. values' = With(values, CurrentVariable.name, Selected(CurrentVariable, first))
    BY <2>1 DEF first
  <2> QED BY <2>5, <2>6 DEF ValuesTyped
<1>4. CASE UNCHANGED values
  BY <1>0, <1>4 DEF ValuesTyped
<1>5. BeginBoard \/ EndBoard \/ PassVariable \/ AskVariableCh \/ UNCHANGED values
  BY DEF Next, Generate, Check, Browse, vars, checkVars, CheckNext, StartCheck, AskEnvs,
         AskVariable, AskTarget, Abort, Finish
<1> QED BY <1>1, <1>2, <1>3, <1>4, <1>5

LEMMA CountsTyped ==
  ASSUME CheckTyped, [Next]_vars
  PROVE  failed' \in BOOLEAN /\ missed' \in BOOLEAN /\ outage' \in BOOLEAN /\ asked' \in Nat
<1>0. failed \in BOOLEAN /\ missed \in BOOLEAN /\ outage \in BOOLEAN /\ asked \in Nat
  BY DEF CheckTyped, CheckTypeOK
<1>1. CASE \E result \in Results : Ask(result)
  <2>1. PICK result \in Results : Ask(result)
    BY <1>1
  <2> DEFINE bad == BadQuery
             error == result = "error"
  <2>2. /\ failed' = (failed \/ error) /\ missed' = (missed \/ error)
        /\ outage' = (outage \/ (error /\ ~ bad)) /\ asked' = asked + 1
    BY <2>1 DEF Ask
  <2> HIDE DEF bad, error
  <2>3. asked' \in Nat
    BY <1>0, <2>2
  <2> QED BY <2>2, <2>3
<1>2. CASE missed' = TRUE /\ outage' = TRUE /\ UNCHANGED <<failed, asked>>
  BY <1>0, <1>2
<1>3. CASE UNCHANGED <<failed, missed, outage, asked>>
  BY <1>0, <1>3
<1>4. \/ \E result \in Results : Ask(result)
      \/ missed' = TRUE /\ outage' = TRUE /\ UNCHANGED <<failed, asked>>
      \/ UNCHANGED <<failed, missed, outage, asked>>
  BY DEF Next, Generate, Check, Browse, vars, checkVars, CheckNext, StartCheck, AskEnvs, BeginBoard,
         PassVariable, AskVariable, AskVariableCh, AskTarget, EndBoard, Abort, Finish, NoneAsked
<1> QED BY <1>1, <1>2, <1>3, <1>4

LEMMA CheckTypedInit ==
  ASSUME Rules, Init
  PROVE  CheckTyped
<1>1. /\ facts \in Collections /\ setting = NoSetting /\ job = 1 /\ at = 0 /\ envs = <<0, 0>>
      /\ values = <<>> /\ failed = FALSE /\ missed = FALSE /\ outage = FALSE
      /\ asked = 0 /\ exit = "idle"
  BY DEF Init, CheckInit
<1>2. Len(Jobs) \in Nat
  BY <1>1, BoardsCounted DEF Rules
<1>3. job \in 1..Len(Jobs) + 1
  BY <1>1, <1>2
<1>4. envs \in Nat \X Nat /\ DOMAIN values = {}
  BY <1>1
<1>5. CheckTypeOK
  BY <1>1, <1>3, <1>4 DEF CheckTypeOK
<1> QED BY <1>1, <1>5 DEF CheckTyped

\* The boards keep the rules, the cursor of the layout is in the grid, the
\* check is at a query of a board and pass, and the page shown has a value for
\* each of its variables (Dashboards.BoardsTypeOK).
THEOREM BoardsTyped == Rules => (Spec => []BoardsTypeOK)
<1> SUFFICES ASSUME Rules PROVE Spec => []BoardsTypeOK
  OBVIOUS
<1>1. Spec => []CheckInv
  BY CheckInvariant DEF Rules
<1>2. Init => CheckTyped
  BY CheckTypedInit
<1>3. CheckTyped /\ CheckInv /\ CheckInv' /\ [Next]_vars => CheckTyped'
  <2> SUFFICES ASSUME CheckTyped, CheckInv, CheckInv', [Next]_vars PROVE CheckTyped'
    OBVIOUS
  <2>1. facts' = facts
    BY DEF Next, Generate, Check, Browse, CheckNext, NavigationNext, vars
  <2>2. CheckTypeOK'
    BY CursorTyped, EnvsTyped, SelectionTyped, CountsTyped DEF CheckTypeOK, ValuesTyped
  <2> QED BY <2>1, <2>2 DEF CheckTyped
<1>4. Spec => []NavigationInv
  BY NavigationInvariant
<1>5. NavigationInv => NavigationTypeOK
  <2> SUFFICES ASSUME NavigationInv, Shown PROVE
         /\ page.uid \in Uids /\ page.range \in Ranges
         /\ DOMAIN page.val = {v.name : v \in ToSet(Board[page.uid].vars)}
         /\ \A v \in DOMAIN page.val : page.val[v] \subseteq Nat
    BY DEF NavigationTypeOK
  <2> QED BY ShownPage DEF PageTyped, VariablesOf
<1>6. Spec => []LayoutTypeOK
  BY BoardsAreLaidOut, LayoutTyped, PTL
<1>7. CheckTyped /\ NavigationTypeOK /\ LayoutTypeOK => BoardsTypeOK
  BY DEF CheckTyped, BoardsTypeOK, Rules
<1> QED BY <1>1, <1>2, <1>3, <1>4, <1>5, <1>6, <1>7, PTL DEF Spec

-----------------------------------------------------------------------------
(* The check: first options that exist together                            *)

\* Of the variables selected so far, those with a query have a value that a
\* recent row has, and the others All.
Coherent(uid, val) ==
  /\ \A u \in QueryVariables(uid) : u.name \in DOMAIN val => Live(uid, u, val, "short")
  /\ \A w \in ToSet(Board[uid].vars) :
       w.type # "query" /\ w.name \in DOMAIN val => val[w.name] = All

\* A pass over a ClickHouse board with nothing overridden and every answer.
Undisturbed ==
  /\ exit = "running" /\ at # 0 /\ setting.clickhouse /\ ~ outage
  /\ DOMAIN setting.overrides = {}
  /\ \E f \in facts : f.age = 0

CoherentInv == Undisturbed => Coherent(Uid, values)

LEMMA CoherentNext ==
  ASSUME NEW uid, NEW val, Coherent(uid, val), Uid' = uid, values' = val, facts' = facts
  PROVE  CoherentInv'
<1>1. Coherent(Uid, values)'
  BY DEF Coherent, Live, OptionRows
<1> QED BY <1>1 DEF CoherentInv

\* The variables before the one asked are those that have a value.
LEMMA SelectedAbove ==
  ASSUME Rules, CheckInv, exit = "running", AtVariable, setting.clickhouse
  PROVE  DOMAIN values = NamesAbove(Board[Uid], at)
<1>1. at # 0
  BY QueryInBoard
<1>2. /\ AtBoard /\ at \in Nat /\ loaded.vars = Board[Uid].vars
      /\ Len(loaded.vars) \in Nat /\ DOMAIN loaded.vars = 1..Len(loaded.vars)
  BY <1>1, InBoard DEF Rules
<1> DEFINE list == loaded.vars
           n == Len(list)
<1>3. DOMAIN values = {list[k].name : k \in {i \in 1..n : i < at}}
  BY <1>2 DEF AtBoard, Before
<1>4. NamesAbove(Board[Uid], at) = {list[k].name : k \in 1..at - 1}
  BY <1>2 DEF NamesAbove
<1>5. {i \in 1..n : i < at} = 1..at - 1
  <2>1. n \in Nat /\ at \in 1..n
    BY <1>2 DEF AtVariable
  <2> HIDE DEF n
  <2> QED BY <2>1
<1> QED BY <1>3, <1>4, <1>5

\* One more variable leaves those above it as they were.
LEMMA CoherentWith ==
  ASSUME Rules, NEW uid \in Uids, NEW i \in Positions(uid), NEW v, v = Board[uid].vars[i],
         NEW val, DOMAIN val = NamesAbove(Board[uid], i), Coherent(uid, val),
         NEW set, NEW new, new = With(val, v.name, set),
         v.type = "query" => Live(uid, v, new, "short"),
         v.type # "query" => set = All
  PROVE  Coherent(uid, new)
<1>1. /\ v.name \notin DOMAIN val /\ v.name \in VariablesOf(uid)
      /\ DOMAIN val \subseteq VariablesOf(uid)
      /\ i \in 1..Len(Board[uid].vars)
      /\ \A k \in Positions(uid) : Board[uid].vars[k].name = v.name => k = i
  BY AboveListed DEF Positions
<1>2. /\ DOMAIN new = DOMAIN val \cup {v.name} /\ new[v.name] = set
      /\ \A n \in DOMAIN val : new[n] = val[n]
  BY <1>1 DEF With
<1>3. ASSUME NEW u \in QueryVariables(uid), u.name \in DOMAIN new
      PROVE  Live(uid, u, new, "short")
  <2>1. PICK k \in Positions(uid) : u = Board[uid].vars[k] /\ u.type = "query" /\ QueryAt(uid, k, u)
    BY QueryPosition
  <2>2. CASE u.name = v.name
    <3>1. u = v
      BY <1>1, <2>1, <2>2
    <3> QED BY <2>1, <3>1
  <2>3. CASE u.name # v.name
    <3>1. u.name \in DOMAIN val
      BY <1>2, <1>3, <2>3
    <3>2. u.refs \subseteq DOMAIN val
      <4>1. PICK m \in 1..(i - 1) : u.name = Board[uid].vars[m].name
        BY <3>1 DEF NamesAbove
      <4>2. Len(Board[uid].vars) \in Nat
        BY VariablesListed
      <4>3. m \in Positions(uid) /\ m < i /\ k \in 1..Len(Board[uid].vars)
        BY <1>1, <4>2 DEF Positions
      <4>4. m = k
        BY <2>1, <4>1, <4>3, AboveListed DEF Positions
      <4>5. k < i /\ k \in Nat /\ i \in Nat
        BY <1>1, <4>2, <4>3, <4>4
      <4>6. \A j \in 1..(k - 1) : j \in 1..(i - 1)
        BY <4>5
      <4>7. NamesAbove(Board[uid], k) \subseteq NamesAbove(Board[uid], i)
        BY <4>6 DEF NamesAbove
      <4> QED BY <2>1, <4>7 DEF QueryAt
    <3>3. \A r \in u.refs \cup {u.name} : new[r] = val[r]
      BY <1>2, <3>1, <3>2
    <3>4. /\ "rp" \in DOMAIN new <=> "rp" \in DOMAIN val
          /\ "rp" \in DOMAIN val => "rp" \in u.refs
          /\ u.first = "shared" => "env_a" \in u.refs
      BY <1>1, <1>2, <2>1, <3>2 DEF QueryAt
    <3>5. OptionRows(uid, u, new, "short") = OptionRows(uid, u, val, "short")
      BY <3>3, <3>4, SameOptions
    <3>6. PICK f \in OptionRows(uid, u, val, "short") : Selects(f, u.name, val)
      BY <3>1 DEF Coherent, Live
    <3> QED BY <3>3, <3>5, <3>6 DEF Live, Selects
  <2> QED BY <2>2, <2>3
<1>4. ASSUME NEW w \in ToSet(Board[uid].vars), w.type # "query", w.name \in DOMAIN new
      PROVE  new[w.name] = All
  <2>1. PICK k \in Positions(uid) : w = Board[uid].vars[k]
    BY VariableAt
  <2>2. CASE w.name = v.name
    <3>1. w = v
      BY <1>1, <2>1, <2>2
    <3> QED BY <1>2, <1>4, <3>1
  <2>3. CASE w.name # v.name
    BY <1>2, <1>4, <2>3 DEF Coherent
  <2> QED BY <2>2, <2>3
<1> QED BY <1>3, <1>4 DEF Coherent

\* All, or the first option, is one that a recent row has with the values above.
LEMMA CoherentFirst ==
  ASSUME Rules, facts \in Collections, \E f \in facts : f.age = 0,
         NEW uid \in Uids, NEW i \in Positions(uid),
         NEW v, v = Board[uid].vars[i], v.type = "query",
         NEW val, DOMAIN val = NamesAbove(Board[uid], i), Coherent(uid, val),
         NEW part, DOMAIN part = v.refs, \A r \in v.refs : part[r] = val[r],
         NEW set, set = All \/ set = FirstOptions(uid, v, part, "short"),
         NEW new, new = With(val, v.name, set)
  PROVE  Live(uid, v, new, "short")
<1>1. QueryAt(uid, i, v)
  BY QueryListed
<1>2. OptionRows(uid, v, val, "short") # {}
  <2>1. Found(uid, val, "short") # {}
    BY DEF Found, Retained, InRange
  <2>2. \A u \in QueryVariables(uid) :
          u.name \in NamesAbove(Board[uid], i) => Live(uid, u, val, "short")
    BY DEF Coherent
  <2> QED BY <2>1, <2>2, Chain
<1>3. /\ \A r \in v.refs : new[r] = val[r]
      /\ "rp" \in DOMAIN new <=> "rp" \in DOMAIN val
      /\ "rp" \in DOMAIN val => "rp" \in v.refs
      /\ "rp" \in DOMAIN part <=> "rp" \in DOMAIN val
      /\ v.first = "shared" => "env_a" \in v.refs
      /\ new[v.name] = set
  BY <1>1 DEF QueryAt, With, KEEP_RP
<1>4. FirstOptions(uid, v, part, "short") = FirstOptions(uid, v, val, "short")
  BY <1>3, SameOptions
<1>5. /\ OptionRows(uid, v, new, "short") = OptionRows(uid, v, val, "short")
      /\ FirstOptions(uid, v, new, "short") = FirstOptions(uid, v, val, "short")
  BY <1>3, SameOptions
<1>6. new[v.name] = All \/ new[v.name] = FirstOptions(uid, v, new, "short")
  BY <1>3, <1>4, <1>5
<1> QED BY <1>2, <1>5, <1>6, FirstLive

LEMMA SameUid ==
  ASSUME setting' = setting, job' = job
  PROVE  Uid' = Uid
<1>1. Jobs' = Jobs
  BY SameJobs
<1> QED BY <1>1 DEF Uid

\* The variable asked has a query, and no query is both of a variable and of a panel.
LEMMA VariableAsked ==
  ASSUME Rules, CheckInv, exit = "running", AtVariable
  PROVE  /\ AtQuery <=> CurrentVariable.type = "query"
         /\ AtQuery => QueryFilters = CurrentVariable.refs
<1>1. ~ AtTarget
  <2>1. at # 0
    BY QueryInBoard
  <2> DEFINE n == Len(loaded.vars)
             m == Len(loaded.targets)
  <2>2. n \in Nat /\ m \in Nat /\ at \in 1..n
    BY <2>1, InBoard DEF AtVariable, Rules
  <2> HIDE DEF n, m
  <2>3. ~ (at - n \in 1..m)
    BY <2>2
  <2> QED BY <2>3 DEF AtTarget, n, m
<1> QED BY <1>1 DEF AtQuery, QueryFilters

LEMMA CoherentPass ==
  ASSUME Rules, CheckInv, CoherentInv, PassVariable, setting.clickhouse,
         facts' = facts, Undisturbed'
  PROVE  CoherentInv'
<1>1. /\ exit = "running" /\ AtVariable /\ ~ AtQuery /\ setting' = setting /\ job' = job
      /\ outage' = outage /\ at # 0
      /\ values' = With(values, CurrentVariable.name, All)
  BY QueryInBoard DEF PassVariable, Running, Step, NoneAsked
<1>2. Coherent(Uid, values)
  BY <1>1 DEF CoherentInv, Undisturbed
<1>3. /\ Uid \in Uids /\ at \in Positions(Uid) /\ CurrentVariable = Board[Uid].vars[at]
      /\ CurrentVariable.type # "query"
  BY <1>1, CurrentAt, VariableAsked
<1>4. DOMAIN values = NamesAbove(Board[Uid], at)
  BY <1>1, SelectedAbove
<1> DEFINE uid == Uid
           v == CurrentVariable
           new == With(values, v.name, All)
<1>5. uid \in Uids /\ at \in Positions(uid) /\ v = Board[uid].vars[at] /\ v.type # "query"
      /\ DOMAIN values = NamesAbove(Board[uid], at) /\ Coherent(uid, values)
      /\ new = With(values, v.name, All)
  BY <1>2, <1>3, <1>4
<1>6. Uid' = uid /\ values' = new
  BY <1>1, SameUid
<1> HIDE DEF uid, v, new
<1>7. Coherent(uid, new)
  BY <1>5, CoherentWith
<1> QED BY <1>6, <1>7, CoherentNext

LEMMA CoherentAsk ==
  ASSUME Rules, facts \in Collections, CheckInv, CoherentInv, AskVariableCh,
         facts' = facts, Undisturbed'
  PROVE  CoherentInv'
<1>1. /\ exit = "running" /\ AtVariable /\ AtQuery /\ setting' = setting /\ job' = job
      /\ at # 0 /\ setting.clickhouse
  BY QueryInBoard DEF AskVariableCh, Running, Step
<1>2. PICK result \in Results :
        /\ Ask(result)
        /\ values' = With(values, CurrentVariable.name,
                          Selected(CurrentVariable,
                                   IF result = "error" THEN NoOption
                                   ELSE FirstOptions(Uid, CurrentVariable, Interpolated, "short")))
  BY DEF AskVariableCh
<1>3. ~ BadQuery
  BY <1>1, NoBadQuery DEF Rules
<1>4. result # "error" /\ ~ outage
  <2>1. outage' = (outage \/ (result = "error" /\ ~ BadQuery))
    BY <1>2 DEF Ask
  <2>2. ~ outage'
    BY DEF Undisturbed
  <2> QED BY <1>3, <2>1, <2>2
<1>5. Coherent(Uid, values) /\ \E f \in facts : f.age = 0
  BY <1>1, <1>4 DEF CoherentInv, Undisturbed
<1>6. /\ Uid \in Uids /\ at \in Positions(Uid) /\ CurrentVariable = Board[Uid].vars[at]
      /\ CurrentVariable.type = "query" /\ QueryFilters = CurrentVariable.refs
  BY <1>1, CurrentAt, VariableAsked
<1>7. DOMAIN values = NamesAbove(Board[Uid], at)
  BY <1>1, SelectedAbove
<1>8. /\ DOMAIN Interpolated = CurrentVariable.refs
      /\ \A r \in CurrentVariable.refs : Interpolated[r] = values[r]
  <2>1. \A r \in QueryFilters : Known(r)
    BY <1>1, AllKnown DEF Rules
  <2> QED BY <1>1, <1>6, <2>1 DEF Interpolated
<1> DEFINE uid == Uid
           v == CurrentVariable
           part == Interpolated
           set == Selected(v, FirstOptions(uid, v, part, "short"))
           new == With(values, v.name, set)
<1>9. set = All \/ set = FirstOptions(uid, v, part, "short")
  <2>1. v.name \notin DOMAIN setting.overrides
    BY <1>1 DEF Undisturbed
  <2> QED BY <2>1 DEF Selected
<1>10. uid \in Uids /\ at \in Positions(uid) /\ v = Board[uid].vars[at] /\ v.type = "query"
       /\ DOMAIN values = NamesAbove(Board[uid], at) /\ Coherent(uid, values)
       /\ DOMAIN part = v.refs /\ (\A r \in v.refs : part[r] = values[r])
       /\ new = With(values, v.name, set)
  BY <1>5, <1>6, <1>7, <1>8
<1>11. Uid' = uid /\ values' = new
  BY <1>1, <1>2, <1>4, SameUid
<1> HIDE DEF uid, v, part, set, new
<1>12. Live(uid, v, new, "short")
  BY <1>5, <1>9, <1>10, CoherentFirst
<1>13. Coherent(uid, new)
  BY <1>10, <1>12, CoherentWith
<1> QED BY <1>11, <1>13, CoherentNext

LEMMA CoherentStep ==
  ASSUME Rules, facts \in Collections, CheckInv, CoherentInv, [Next]_vars
  PROVE  CoherentInv'
<1> SUFFICES ASSUME Undisturbed' PROVE CoherentInv'
  BY DEF CoherentInv
<1>1. facts' = facts
  BY DEF Next, Generate, Check, Browse, CheckNext, NavigationNext, vars
<1>2. exit' = "running" /\ at' # 0 /\ setting'.clickhouse /\ ~ outage'
      /\ DOMAIN setting'.overrides = {} /\ \E f \in facts : f.age = 0
  BY <1>1 DEF Undisturbed
<1>3. CASE BeginBoard
  <2>1. setting' = setting /\ job' = job /\ values' = <<>>
    BY <1>3 DEF BeginBoard, Step
  <2> DEFINE none == <<>>
  <2>2. DOMAIN none = {}
    OBVIOUS
  <2> HIDE DEF none
  <2>3. Coherent(Uid, none)
    BY <2>2 DEF Coherent
  <2>4. Uid' = Uid /\ values' = none
    BY <2>1, SameUid DEF none
  <2> QED BY <1>1, <2>3, <2>4, CoherentNext
<1>4. CASE PassVariable
  <2>1. setting.clickhouse
    BY <1>2, <1>4 DEF PassVariable, Step
  <2> QED BY <1>1, <1>4, <2>1, CoherentPass
<1>5. CASE AskVariableCh
  BY <1>1, <1>5, CoherentAsk
<1>6. CASE AskTarget
  <2>1. /\ exit = "running" /\ AtTarget /\ setting' = setting /\ job' = job /\ values' = values
        /\ \E result \in Results : Ask(result)
    BY <1>6 DEF AskTarget, Running, Step
  <2>2. at # 0
    BY <2>1, QueryInBoard DEF AtQuery
  <2>3. ~ outage
    BY <1>2, <2>1 DEF Ask
  <2>4. Coherent(Uid, values)
    BY <1>2, <2>1, <2>2, <2>3 DEF CoherentInv, Undisturbed
  <2> QED BY <1>1, <2>1, <2>4, SameUid, CoherentNext
<1>7. CASE AskEnvs \/ AskVariable
  BY <1>2, <1>7 DEF AskEnvs, AskVariable, Step
<1>8. CASE EndBoard \/ Abort \/ Finish
  BY <1>2, <1>8 DEF EndBoard, Abort, Finish
<1>9. CASE StartCheck
  BY <1>2, <1>9 DEF StartCheck, CheckInv
<1>10. CASE UNCHANGED checkVars
  <2>1. /\ exit' = exit /\ at' = at /\ setting' = setting /\ job' = job /\ values' = values
        /\ outage' = outage
    BY <1>10 DEF checkVars
  <2>2. Coherent(Uid, values)
    BY <1>2, <2>1 DEF CoherentInv, Undisturbed
  <2> QED BY <1>1, <2>1, <2>2, SameUid, CoherentNext
<1>11. CheckNext \/ UNCHANGED checkVars
  BY DEF Next, Generate, Check, Browse, vars
<1> QED BY <1>3, <1>4, <1>5, <1>6, <1>7, <1>8, <1>9, <1>10, <1>11 DEF CheckNext

\* At a query of a panel every variable of the board has a value.
LEMMA AllSelected ==
  ASSUME Rules, CheckInv, exit = "running", AtTarget, setting.clickhouse
  PROVE  /\ DOMAIN values = VariablesOf(Uid) /\ Uid \in Uids /\ Clickhouse(Uid)
         /\ QueryFilters \subseteq DOMAIN values
         /\ \A n \in QueryFilters : Known(n)
<1>1. at # 0
  BY QueryInBoard DEF AtQuery
<1>2. /\ AtBoard /\ at \in Nat /\ loaded.vars = Board[Uid].vars
      /\ Len(loaded.vars) \in Nat /\ DOMAIN loaded.vars = 1..Len(loaded.vars)
      /\ Len(loaded.targets) \in Nat /\ job \in 1..Len(Jobs)
      /\ setting \in Settings /\ Uid \in ToSet(Checked(setting))
  BY <1>1, InBoard DEF Rules
<1>3. Uid \in Uids
  BY <1>2, JobsTyped DEF Rules, Uid
<1>4. Clickhouse(Uid)
  BY <1>2 DEF Rules, BoardsAskable
<1> DEFINE list == loaded.vars
           n == Len(list)
           m == Len(loaded.targets)
<1>5. DOMAIN values = {list[k].name : k \in {i \in 1..n : i < at}}
  BY <1>2 DEF AtBoard, Before
<1>6. {i \in 1..n : i < at} = 1..n
  <2>1. n \in Nat /\ m \in Nat /\ at \in Nat /\ at - n \in 1..m
    BY <1>2 DEF AtTarget
  <2> HIDE DEF n, m
  <2> QED BY <2>1
<1>7. VariablesOf(Uid) = {list[k].name : k \in 1..n}
  BY <1>2, <1>3, VariablesListed
<1>8. \A k \in QueryFilters : Known(k)
  BY AllKnown DEF Rules, AtQuery
<1> QED BY <1>3, <1>4, <1>5, <1>6, <1>7, <1>8 DEF Known

LEMMA CoherentRow ==
  ASSUME Rules, CheckInv, CoherentInv, Undisturbed, AtTarget,
         Cardinality(QueryFilters \cap SIDE_VARS) # 1
  PROVE  \E f \in facts : f.age = 0 /\ Matches(f, QueryFilters, Interpolated)
<1>1. /\ DOMAIN values = VariablesOf(Uid) /\ Uid \in Uids /\ Clickhouse(Uid)
      /\ QueryFilters \subseteq DOMAIN values
      /\ \A n \in QueryFilters : Known(n)
      /\ Coherent(Uid, values)
  BY AllSelected DEF Undisturbed, CoherentInv
<1> DEFINE uid == Uid
           val == values
           asks == QueryFilters
           queried == {v.name : v \in QueryVariables(uid)}
<1>2. \A n \in asks : Interpolated[n] = val[n]
  BY <1>1 DEF Interpolated, Undisturbed
<1>3. PICK u \in QueryVariables(uid) : Covers(u, queried)
  BY <1>1 DEF Rules, BoardsConsistent, Chained
<1>4. u.name \in DOMAIN val
  BY <1>1, QueryPosition DEF QueryAt
<1>5. PICK f \in OptionRows(uid, u, val, "short") : Selects(f, u.name, val)
  BY <1>1, <1>4 DEF Coherent, Live
<1>6. /\ f \in facts /\ Matches(f, u.refs, val) /\ InRange(f, "short")
  BY <1>1, <1>5 DEF OptionRows
<1>7. f.age = 0
  BY <1>6 DEF InRange
<1>8. Matches(f, queried, val)
  <2> HIDE DEF queried, uid, val
  <2> QED BY <1>3, <1>5, <1>6, CoversRow
<1>9. asks \cap SIDE_VARS \in {{}, SIDE_VARS}
  <2>1. Cardinality({"env_a"}) = 1 /\ Cardinality({"env_b"}) = 1
    BY FS_Singleton
  <2>2. asks \cap SIDE_VARS \in {{}, {"env_a"}, {"env_b"}, SIDE_VARS}
    BY DEF SIDE_VARS
  <2> QED BY <2>1, <2>2
<1>10. ASSUME NEW n \in asks PROVE n \in queried \/ (val[n] = All /\ n \notin SIDE_VARS)
  <2>1. PICK i \in Positions(uid) : /\ Board[uid].vars[i].name = n
                                    /\ Board[uid].vars[i] \in ToSet(Board[uid].vars)
                                    /\ VariableRule(uid, i)
    BY <1>1, ListedAt
  <2>2. CASE Board[uid].vars[i].type = "query"
    BY <2>1, <2>2 DEF QueryVariables
  <2>3. CASE Board[uid].vars[i].type # "query"
    BY <1>1, <2>1, <2>3 DEF Coherent, VariableRule
  <2> QED BY <2>2, <2>3
<1> HIDE DEF uid, val, asks, queried
<1>11. ASSUME NEW n \in asks \ (KEEP_RP \cup SIDE_VARS) PROVE Selects(f, n, val)
  BY <1>8, <1>10 DEF Matches, Selects
<1>12. ASSUME asks \cap SIDE_VARS # {} PROVE \E n \in asks \cap SIDE_VARS : Selects(f, n, val)
  <2>1. SIDE_VARS \subseteq asks /\ SIDE_VARS \subseteq queried
    BY <1>9, <1>10, <1>12
  <2> QED BY <1>8, <1>12, <2>1 DEF Matches
<1>13. Matches(f, asks, Interpolated)
  BY <1>2, <1>11, <1>12 DEF Matches, Selects
<1> QED BY <1>6, <1>7, <1>13 DEF asks

\* The queries to InfluxDB ask for one env at a time, and the others for all.
LEMMA InfluxRow ==
  ASSUME Rules, PrefixesShorter, CheckInv, exit = "running", AtTarget, ~ setting.clickhouse,
         DOMAIN setting.overrides = {}, Cardinality(QueryFilters \cap SIDE_VARS) # 1, NEW f
  PROVE  Matches(f, QueryFilters, Interpolated)
<1>0. AtQuery /\ at # 0
  BY QueryInBoard DEF AtQuery
<1>1. /\ setting \in Settings /\ Uid \in ToSet(Checked(setting))
      /\ loaded.targets = TargetsOf(Board[Uid].panels)
      /\ DOMAIN loaded.targets = 1..Len(loaded.targets)
      /\ Len(loaded.vars) \in Nat /\ Len(loaded.targets) \in Nat /\ at \in Nat
  BY <1>0, InBoard DEF Rules
<1>2. QueryFilters = CurrentTarget.filters
  <2> DEFINE n == Len(loaded.vars)
             m == Len(loaded.targets)
  <2>1. n \in Nat /\ m \in Nat /\ at \in Nat /\ at - n \in 1..m
    BY <1>1 DEF AtTarget
  <2> HIDE DEF n, m
  <2>2. ~ (at \in 1..n)
    BY <2>1
  <2> QED BY <2>2 DEF AtVariable, QueryFilters, n
<1>3. CurrentTarget \in ToSet(TargetsOf(Board[Uid].panels))
  BY <1>1 DEF AtTarget, CurrentTarget, ToSet
<1>4. QueryFilters \subseteq FixedNames /\ ~ (SIDE_VARS \subseteq QueryFilters)
  BY <1>1, <1>2, <1>3 DEF Rules, BoardsAskable, Replaceable
<1>5. QueryFilters \cap SIDE_VARS = {}
  <2>1. Cardinality({"env_a"}) = 1 /\ Cardinality({"env_b"}) = 1
    BY FS_Singleton
  <2>2. QueryFilters \cap SIDE_VARS \in {{}, {"env_a"}, {"env_b"}, SIDE_VARS}
    BY DEF SIDE_VARS
  <2> QED BY <1>4, <2>1, <2>2
<1>6. ASSUME NEW n \in QueryFilters \ (KEEP_RP \cup SIDE_VARS) PROVE Interpolated[n] = All
  <2>1. NamesIn(n) # {} /\ FirstReplaced(n) = n
    BY <1>1, <1>4, OwnName
  <2>2. n # "env_a" /\ n # "env_b" /\ n \notin KEEP_RP /\ n \notin DOMAIN setting.overrides
    BY DEF SIDE_VARS
  <2>3. InfluxValue(n) = All
    BY <2>2 DEF InfluxValue
  <2> QED BY <2>1, <2>3 DEF Interpolated, Known
<1> QED BY <1>5, <1>6 DEF Matches, Selects

\* With a server that answers and nothing overridden, every query of the check
\* over all rows or both envs has rows (QueryCheck.FirstValuesMatchRows; the
\* first options of check_queries.py).
THEOREM FirstValuesExist ==
  Rules /\ PrefixesShorter => (Spec => []FirstValuesMatchRows)
<1> SUFFICES ASSUME Rules, PrefixesShorter PROVE Spec => []FirstValuesMatchRows
  OBVIOUS
<1>1. Spec => []CheckInv
  BY CheckInvariant DEF Rules
<1>2. Init => CoherentInv /\ facts \in Collections
  BY DEF Init, CheckInit, CoherentInv, Undisturbed
<1>3. /\ CoherentInv /\ facts \in Collections /\ CheckInv /\ [Next]_vars
      => CoherentInv' /\ (facts \in Collections)'
  <2> SUFFICES ASSUME CoherentInv, facts \in Collections, CheckInv, [Next]_vars
               PROVE  CoherentInv' /\ (facts \in Collections)'
    OBVIOUS
  <2>1. facts' = facts
    BY DEF Next, Generate, Check, Browse, CheckNext, NavigationNext, vars
  <2>2. CoherentInv'
    BY CoherentStep
  <2> QED BY <2>1, <2>2
<1>4. CoherentInv /\ CheckInv => FirstValuesMatchRows
  <2> SUFFICES ASSUME CoherentInv, CheckInv, exit = "running", AtTarget, ~ outage,
                      DOMAIN setting.overrides = {}, NEW g \in facts, g.age = 0,
                      Cardinality(QueryFilters \cap SIDE_VARS) # 1
               PROVE  \E f \in facts : f.age = 0 /\ Matches(f, QueryFilters, Interpolated)
    BY DEF FirstValuesMatchRows, Running
  <2>1. CASE setting.clickhouse
    <3>1. at # 0
      BY QueryInBoard DEF AtQuery
    <3>2. Undisturbed
      BY <2>1, <3>1 DEF Undisturbed
    <3> QED BY <3>2, CoherentRow
  <2>2. CASE ~ setting.clickhouse
    BY <2>2, InfluxRow
  <2> QED BY <2>1, <2>2
<1> QED BY <1>1, <1>2, <1>3, <1>4, PTL DEF Spec

-----------------------------------------------------------------------------
(* A compare board just opened                                             *)

\* Two rows of one instance, one of either env.
Both(fa, fb, a, b, o, val, range) ==
  /\ fa \in facts /\ Retained(fa, val) /\ InRange(fa, range) /\ fa.env = a /\ fa.db_instance = o
  /\ fb \in facts /\ Retained(fb, val) /\ InRange(fb, range) /\ fb.env = b /\ fb.db_instance = o

\* A variable that prefers the instances of both envs.
PrefersShared(v) ==
  v.first = "shared" /\ v.col = "db_instance" /\ v.refs = SIDE_VARS

\* Its first option is an instance of both envs.
FirstOfBoth(uid, v, a, b, val, range) ==
  \E f, g \in facts : \E first \in Nat :
    /\ Both(f, g, a, b, first, val, range)
    /\ FirstOptions(uid, v, val, range) = {first}

\* If an instance is in both envs, the first option is one that is.
LEMMA SharedFirst ==
  ASSUME facts \in Collections, NEW v, PrefersShared(v), NEW uid, Clickhouse(uid), NEW val, NEW range,
         NEW a, NEW b, val["env_a"] = {a}, val["env_b"] = {b},
         NEW fa, NEW fb, NEW o, Both(fa, fb, a, b, o, val, range)
  PROVE  FirstOfBoth(uid, v, a, b, val, range)
<1> DEFINE rows == OptionRows(uid, v, val, range)
           ids == {f[v.col] : f \in rows}
           envs_(i) == {f.env : f \in {g \in rows : g[v.col] = i}}
           most == {i \in ids : \A j \in ids : Cardinality(envs_(i)) >= Cardinality(envs_(j))}
<1>1. /\ v.refs \ (KEEP_RP \cup SIDE_VARS) = {} /\ v.refs \cap SIDE_VARS = {"env_a", "env_b"}
      /\ {a} # All /\ {b} # All
  BY DEF PrefersShared, SIDE_VARS, All
<1>2. ASSUME NEW f \in facts
      PROVE  /\ Selects(f, "env_a", val) <=> f.env = a
             /\ Selects(f, "env_b", val) <=> f.env = b
  BY <1>1 DEF Selects, ColumnOf, SIDE_VARS
<1>3. ASSUME NEW f \in facts PROVE Matches(f, v.refs, val) <=> f.env \in {a, b}
  BY <1>1, <1>2 DEF Matches
<1>4. ASSUME NEW f \in rows
      PROVE  f \in facts /\ Retained(f, val) /\ InRange(f, range) /\ f.env \in {a, b}
  BY <1>3 DEF OptionRows
<1>5. fa \in rows /\ fb \in rows
  <2>1. Matches(fa, v.refs, val) /\ Matches(fb, v.refs, val) /\ Selects(fa, "env_a", val)
    BY <1>2, <1>3 DEF Both
  <2>2. fa.db_instance = fb.db_instance
    BY DEF Both
  <2> QED BY <2>1, <2>2 DEF OptionRows, Both, PrefersShared
<1>6. \A i : envs_(i) \subseteq {a, b}
  <2> HIDE DEF rows
  <2> QED BY <1>4
<1>7. o \in ids /\ envs_(o) = {a, b}
  <2>1. fa[v.col] = o /\ fb[v.col] = o /\ fa.env = a /\ fb.env = b
    BY DEF Both, PrefersShared
  <2> HIDE DEF rows
  <2>2. o \in ids
    BY <1>5, <2>1
  <2>3. a \in envs_(o) /\ b \in envs_(o)
    BY <1>5, <2>1
  <2> QED BY <1>6, <2>2, <2>3
<1> HIDE DEF envs_
<1>8. IsFiniteSet({a, b})
  BY FS_EmptySet, FS_AddElement, FS_Singleton
<1>9. \A i : Cardinality(envs_(i)) \in Nat /\ Cardinality(envs_(i)) <= Cardinality({a, b})
  BY <1>6, <1>8, FS_Subset, FS_CardinalityType
<1>10. o \in most
  BY <1>7, <1>9
<1>11. ids \in SUBSET Nat
  <2>1. v.col \in TagColumns
    BY DEF PrefersShared, TagColumns, Tags, DB_TAGS, INST
  <2>2. rows \in SUBSET facts
    BY DEF OptionRows
  <2> QED BY <2>1, <2>2, FactTyped
<1>12. Lowest(most) \in most
  <2>1. most \in SUBSET Nat /\ most # {}
    BY <1>10, <1>11
  <2> HIDE DEF most
  <2> QED BY <2>1, LowestIn
<1> DEFINE first == Lowest(most)
<1>13. FirstOptions(uid, v, val, range) = {first}
  <2>1. Options(uid, v, val, range) = ids
    BY DEF Options
  <2>2. Options(uid, v, val, range) # {}
    BY <1>7, <2>1
  <2>3. FirstOption(uid, v, val, range) = first
    BY DEF FirstOption, PrefersShared, envs_
  <2> QED BY <2>2, <2>3 DEF FirstOptions
<1>14. first \in Nat /\ envs_(first) = {a, b}
  <2>1. first \in ids /\ Cardinality(envs_(first)) >= Cardinality(envs_(o))
    BY <1>7, <1>12
  <2>2. Cardinality(envs_(first)) >= Cardinality({a, b})
    BY <1>7, <2>1
  <2>3. envs_(first) \subseteq {a, b} /\ Cardinality(envs_(first)) = Cardinality({a, b})
    <3>1. Cardinality({a, b}) \in Nat
      BY <1>8, FS_CardinalityType
    <3> HIDE DEF first
    <3> QED BY <1>6, <1>9, <2>2, <3>1
  <2>4. envs_(first) = {a, b}
    <3> HIDE DEF first
    <3> QED BY <1>8, <2>3, FS_Subset
  <2> QED BY <1>11, <2>1, <2>4
<1>15. \E f, g \in facts : Both(f, g, a, b, first, val, range)
  <2>1. ASSUME NEW e \in envs_(first)
        PROVE  \E f \in rows : f.env = e /\ f.db_instance = first
    <3> HIDE DEF rows, first
    <3>1. PICK f \in {g \in rows : g[v.col] = first} : f.env = e
      BY <2>1 DEF envs_
    <3> QED BY <3>1 DEF PrefersShared
  <2> HIDE DEF rows, first
  <2>2. PICK f \in rows : f.env = a /\ f.db_instance = first
    BY <1>14, <2>1
  <2>3. PICK g \in rows : g.env = b /\ g.db_instance = first
    BY <1>14, <2>1
  <2> QED BY <1>4, <2>2, <2>3 DEF Both
<1> HIDE DEF first
<1> QED BY <1>13, <1>14, <1>15 DEF FirstOfBoth

\* The board that FreshCompareHasBothSides speaks of.
FreshCompare(uid, val, range) ==
  /\ uid \in Uids /\ range \in Ranges /\ val = Selection(uid, <<>>, range)
  /\ Clickhouse(uid) /\ SIDE_VARS \subseteq VariablesOf(uid)
  /\ "schemaname" \notin VariablesOf(uid)

\* On it nothing but the envs and perhaps the instance narrows the rows.
LEMMA FreshValue ==
  ASSUME Rules, facts \in Collections, NEW uid, NEW val, NEW range, FreshCompare(uid, val, range),
         NEW n \in VariablesOf(uid), n \notin SIDE_VARS \cup KEEP_RP
  PROVE  \/ val[n] = All
         \/ n = "db_instance" /\ \E v : PrefersShared(v) /\ val[n] = FirstOptions(uid, v, val, range)
<1> DEFINE url == <<>>
<1>1. DOMAIN url = {} /\ val = Selection(uid, url, range)
  BY DEF FreshCompare
<1> HIDE DEF url
<1>2. UrlRule(uid, url) /\ uid \in Uids
  BY <1>1 DEF UrlRule, FreshCompare
<1>3. PICK i \in Positions(uid) : /\ Board[uid].vars[i].name = n
                                  /\ Board[uid].vars[i] \in ToSet(Board[uid].vars)
                                  /\ VariableRule(uid, i)
  BY <1>2, ListedAt
<1>4. PICK v : v = Board[uid].vars[i]
  OBVIOUS
<1>5. val[n] = Default(uid, v, val, range)
  <2>1. val[v.name] = Entry(uid, url, range, i, val)
    BY <1>1, <1>2, <1>4, SelectionFixed DEF Positions
  <2> QED BY <1>1, <1>3, <1>4, <2>1 DEF Entry
<1>6. v.type \in {"query", "textbox"}
  BY <1>3, <1>4 DEF VariableRule, KEEP_RP
<1>7. CASE v.type = "textbox" \/ v.multi
  <2>1. v.type # "custom"
    BY <1>6
  <2> QED BY <1>5, <1>7, <2>1 DEF Default
<1>8. CASE v.type = "query" /\ ~ v.multi
  <2>1. CompareRule(uid)
    BY <1>2 DEF Rules, BoardsConsistent, FreshCompare
  <2>2. v.name = "db_instance" /\ v.first = "shared" /\ v.refs = SIDE_VARS
    BY <1>3, <1>4, <1>8, <2>1 DEF CompareRule
  <2>3. PrefersShared(v)
    BY <1>3, <1>4, <1>8, <2>2 DEF VariableRule, PrefersShared, ColumnOf, SIDE_VARS
  <2>4. val[n] = FirstOptions(uid, v, val, range)
    BY <1>5, <1>8 DEF Default
  <2> QED BY <1>3, <1>4, <2>2, <2>3, <2>4
<1> QED BY <1>6, <1>7, <1>8

\* A row that both sides' panels select by all but the env.
LEMMA SideShown ==
  ASSUME NEW p, NEW side \in {"a", "b"}, p.scope = side, NEW val, NEW range,
         NEW f \in facts, Retained(f, val), InRange(f, range),
         side = "a" => f.env \in val["env_a"], side = "b" => f.env \in val["env_b"],
         \A n \in Queried(p) \ (KEEP_RP \cup SIDE_VARS) : Selects(f, n, val)
  PROVE  f \in Answer(p, val, range)
<1>1. F_SIDE["a"] = {"env_a"} /\ F_SIDE["b"] = {"env_b"}
  BY DEF F_SIDE
<1>2. SideFilters(p, side) \cap SIDE_VARS = F_SIDE[side]
  BY <1>1 DEF SideFilters, SIDE_VARS
<1>3. SideFilters(p, side) \ (KEEP_RP \cup SIDE_VARS) \subseteq Queried(p) \ (KEEP_RP \cup SIDE_VARS)
  BY <1>1 DEF SideFilters, SIDE_VARS
<1>4. \E n \in F_SIDE[side] : Selects(f, n, val)
  BY <1>1 DEF Selects, ColumnOf, SIDE_VARS
<1>5. Matches(f, SideFilters(p, side), val)
  BY <1>2, <1>3, <1>4 DEF Matches
<1>6. CASE side = "a"
  BY <1>5, <1>6 DEF Answer
<1>7. CASE side = "b"
  BY <1>5, <1>7 DEF Answer
<1> QED BY <1>6, <1>7

LEMMA BothSidesShown ==
  ASSUME Rules, NavigationInv
  PROVE  FreshCompareHasBothSides
<1> DEFINE uid == page.uid
           val == page.val
           range == page.range
<1> SUFFICES ASSUME Shown, Clickhouse(uid), SIDE_VARS \subseteq DOMAIN val,
                    "schemaname" \notin DOMAIN val, page = Page(uid, <<>>, range),
                    NEW f0 \in Visible(page), NEW g0 \in Visible(page),
                    f0.db_instance = g0.db_instance, f0.env \in val.env_a, g0.env \in val.env_b,
                    NEW p \in QueryPanels(uid), p.scope \in {"a", "b"}
             PROVE  PanelAnswer(p) # {}
  BY DEF FreshCompareHasBothSides
<1>1. facts \in Collections /\ PageTyped(page) /\ uid \in Uids /\ DOMAIN val = VariablesOf(uid)
  BY ShownPage
<1>2. FreshCompare(uid, val, range)
  <2>1. val = Selection(uid, <<>>, range)
    BY DEF Page
  <2> QED BY <1>1, <2>1 DEF FreshCompare, PageTyped
<1>3. ASSUME NEW m \in SIDE_VARS PROVE IsOne(val[m])
  <2>1. PICK i \in Positions(uid) : /\ Board[uid].vars[i].name = m
                                    /\ Board[uid].vars[i] \in ToSet(Board[uid].vars)
                                    /\ VariableRule(uid, i)
    BY <1>1, ListedAt
  <2> QED BY <1>1, <2>1 DEF VariableRule, QueryVariables, PageTyped, OneValue
<1>4. PICK a : val["env_a"] = {a}
  BY <1>3 DEF SIDE_VARS, IsOne
<1>5. PICK b : val["env_b"] = {b}
  BY <1>3 DEF SIDE_VARS, IsOne
<1>6. Both(f0, g0, a, b, f0.db_instance, val, range)
  BY <1>4, <1>5 DEF Both, Visible
<1> HIDE DEF uid, val, range
<1>7. \E f, g \in facts :
        /\ Both(f, g, a, b, f.db_instance, val, range)
        /\ \/ "db_instance" \notin VariablesOf(uid) \/ val["db_instance"] = All
           \/ f.db_instance \in val["db_instance"]
  <2>1. CASE "db_instance" \notin VariablesOf(uid) \/ val["db_instance"] = All
    BY <1>6, <2>1 DEF Both
  <2>2. CASE "db_instance" \in VariablesOf(uid) /\ val["db_instance"] # All
    <3>1. "db_instance" \notin SIDE_VARS \cup KEEP_RP
      BY DEF SIDE_VARS, KEEP_RP
    <3>2. PICK v : PrefersShared(v) /\ val["db_instance"] = FirstOptions(uid, v, val, range)
      BY <1>1, <1>2, <2>2, <3>1, FreshValue
    <3>3. FirstOfBoth(uid, v, a, b, val, range)
      <4>1. Clickhouse(uid)
        BY <1>2 DEF FreshCompare
      <4>2. PICK o : Both(f0, g0, a, b, o, val, range)
        BY <1>6
      <4> QED BY <1>1, <1>4, <1>5, <3>2, <4>1, <4>2, SharedFirst, Zenon
    <3>4. PICK f \in facts, g \in facts, first \in Nat :
            /\ Both(f, g, a, b, first, val, range)
            /\ FirstOptions(uid, v, val, range) = {first}
      BY <3>3 DEF FirstOfBoth
    <3>5. f.db_instance = first
      BY <3>4 DEF Both
    <3> QED BY <3>2, <3>4, <3>5
  <2> QED BY <2>1, <2>2
<1>8. PICK f \in facts, g \in facts :
        /\ Both(f, g, a, b, f.db_instance, val, range)
        /\ \/ "db_instance" \notin VariablesOf(uid) \/ val["db_instance"] = All
           \/ f.db_instance \in val["db_instance"]
  BY <1>7
<1>9. ASSUME NEW n \in Queried(p) \ (KEEP_RP \cup SIDE_VARS)
      PROVE  Selects(f, n, val) /\ Selects(g, n, val)
  <2>1. n \in VariablesOf(uid) /\ n \notin SIDE_VARS \cup KEEP_RP
    BY <1>1, PanelRuled DEF PanelRule, uid
  <2>2. CASE val[n] = All
    BY <2>2 DEF Selects
  <2>3. CASE val[n] # All
    <3>1. n = "db_instance"
      BY <1>1, <1>2, <2>1, <2>3, FreshValue
    <3>2. ColumnOf(n) = "db_instance" /\ g.db_instance = f.db_instance
      BY <1>8, <2>1, <3>1 DEF ColumnOf, Both
    <3> QED BY <1>8, <2>1, <2>3, <3>1, <3>2 DEF Selects
  <2> QED BY <2>2, <2>3
<1>10. /\ Retained(f, val) /\ InRange(f, range) /\ f.env \in val["env_a"]
       /\ Retained(g, val) /\ InRange(g, range) /\ g.env \in val["env_b"]
  BY <1>4, <1>5, <1>8 DEF Both
<1>11. CASE p.scope = "a"
  <2>1. f \in Answer(p, val, range)
    BY <1>9, <1>10, <1>11, SideShown
  <2> QED BY <2>1 DEF PanelAnswer, val, range
<1>12. CASE p.scope = "b"
  <2>1. g \in Answer(p, val, range)
    BY <1>9, <1>10, <1>12, SideShown
  <2> QED BY <2>1 DEF PanelAnswer, val, range
<1> QED BY <1>11, <1>12

\* A compare board just opened shows both sides if an instance has both
\* (BoardNavigation.FreshCompareHasBothSides; the query of db_instance in
\* builder/compare.py that puts the shared instances first).
THEOREM BothSides == Rules => (Spec => []FreshCompareHasBothSides)
<1> SUFFICES ASSUME Rules PROVE Spec => []FreshCompareHasBothSides
  OBVIOUS
<1>1. NavigationInv => FreshCompareHasBothSides
  BY BothSidesShown
<1> QED BY <1>1, NavigationInvariant, PTL
=============================================================================
