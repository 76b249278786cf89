---------------------- MODULE InteractiveTerminal_proof ----------------------
(***************************************************************************)
(* Proofs about InteractiveTerminal, for terminals of any sizes, pages and *)
(* viewports.                                                              *)
(***************************************************************************)
EXTENDS InteractiveTerminal, TLAPS

\* The parts of TypeOK, which different provers handle.
Shape ==
  /\ pc \in {"render", "select", "quit", "error", "CellOutOfBounds"}
  /\ layout_density \in Densities \cup {"none"}
  /\ page \in Pages
  /\ size \in Sizes

Flags ==
  /\ address_bar_active \in BOOLEAN
  /\ coalesced \in BOOLEAN
  /\ signalled \in BOOLEAN

Buffer == address_bar_buffer \in 0..MaxBuffer

Bottom == bottom \in Row

Numbers ==
  /\ rows \in Sizes
  /\ frame_rows \in Sizes
  /\ viewport \in 1..MaxViewport
  /\ launch_viewport \in 1..MaxViewport
  /\ metrics \in 1..MaxViewport
  /\ input \in Geometry

Frames ==
  /\ previous \in Surface \cup {Nothing}
  /\ shown \in Surface \cup {Nothing}

Arrived == queue \in Seq(Event)

\* The baseline has the size and the viewport of the next frame: every change of
\* either drops it.
Baseline ==
  previous # Nothing => previous.rows = frame_rows /\ previous.viewport = viewport

\* A terminal that shows another frame than the baseline is about to be drawn
\* whole.
Shown == shown \in {Nothing, previous} \/ (previous = Nothing /\ pc # "select")

\* Only a frame that will be drawn, and the controls with it, may leave a
\* bottom row of another mode.
BottomShown ==
  pc = "select" \/ (pc = "render" /\ previous # Nothing) => bottom \in {Garbled, Controls}

Resizes == {i \in DOMAIN queue : queue[i].kind = "resize"}

\* The session has been told the size of the terminal, or will be: by the resize
\* it takes last.
Announced ==
  pc \in {"select", "render"} /\ ~signalled =>
    \/ Resizes = {} /\ rows = size
    \/ \E i \in Resizes : queue[i].at = size /\ \A j \in Resizes : j <= i

\* No resize on its way changes the number of rows.
SizeCurrent == rows = size /\ \A i \in Resizes : queue[i].at = size

\* Then no redraw is owed to a resize, and the terminal shows the baseline and
\* the controls, or the next frame will be drawn whole.
Repaired ==
  pc \in {"select", "render"} /\ SizeCurrent /\ ~coalesced =>
    \/ shown = previous /\ shown # Nothing /\ bottom = Controls
    \/ pc = "render" /\ previous = Nothing

\* A mouse event was on the terminal when it arrived; if it no longer is, the
\* resize arrives, or is taken, after it.
MouseWasOnTerminal ==
  pc \in {"select", "render"} =>
    \A i \in DOMAIN queue : queue[i].kind = "mouse" =>
      queue[i].at < size \/ signalled \/ \E j \in Resizes : i < j

IInv == /\ Shape /\ Flags /\ Buffer /\ Bottom /\ Numbers /\ Frames /\ Arrived
        /\ GeometryAgrees /\ Baseline /\ Shown /\ BottomShown

-----------------------------------------------------------------------------
(* The layout, the controls and the frames. *)

LEMMA TypeParts == TypeOK <=> Shape /\ Flags /\ Buffer /\ Bottom /\ Numbers /\ Frames /\ Arrived
BY DEF TypeOK, Shape, Flags, Buffer, Bottom, Numbers, Frames, Arrived

\* A frame is not the absence of one.
LEMMA SurfaceIsSomething == Nothing \notin Surface
<1>1. ASSUME NEW surface \in Surface PROVE surface \in [page : Pages, rows : Nat, viewport : Nat]
  <2>1. surface = [page |-> surface.page, rows |-> surface.rows, viewport |-> surface.viewport]
    BY DEF Surface
  <2>2. surface.page \in Pages /\ surface.rows \in Sizes /\ surface.viewport \in 1..MaxViewport
    BY DEF Surface
  <2>3. surface.rows \in Nat
    BY <2>2, ConstantsAssumption
  <2>4. surface.viewport \in Nat
    BY <2>2, ConstantsAssumption
  <2> QED BY <2>1, <2>2, <2>3, <2>4
<1> QED BY <1>1, ConstantsAssumption

\* An inferred density is one, and gives the viewport it was inferred from.
LEMMA InferredDensity ==
  ASSUME NEW dimension, NEW cells
  PROVE  /\ InferDensity(dimension, cells) \in Densities \cup {"none"}
         /\ InferDensity(dimension, cells) # "none" =>
              dimension = LayoutDimension(cells, InferDensity(dimension, cells))
BY DEF InferDensity

\* Zooming leads to a density or nowhere.
LEMMA ZoomLeadsToDensity ==
  ASSUME NEW density \in Densities \cup {"none"}, NEW zoom \in {ZoomIn, ZoomOut}
  PROVE  zoom[density] \in Densities \cup {"none"}
BY DEF ZoomIn, ZoomOut, Densities

\* A positive multiple is at least the number itself.
LEMMA MultipleAtLeast ==
  ASSUME NEW number \in Nat, NEW factor \in Int, factor >= 1
  PROVE  number * factor >= number
<1> DEFINE rest == factor - 1
<1>1. rest \in Nat /\ factor = rest + 1
  OBVIOUS
<1> HIDE DEF rest
<1>2. number * rest \in Nat
  BY <1>1
<1>3. number * (rest + 1) = number * rest + number
  BY <1>1
<1> QED BY <1>1, <1>2, <1>3

\* Scaling to the number of cells there already is changes nothing.
LEMMA ScalingToSameSize ==
  ASSUME NEW dimension \in Nat, NEW cells \in Nat \ {0}
  PROVE  ScaledDimension(dimension, cells, cells) = dimension
<1> DEFINE half == cells \div 2
<1>1. half \in Nat /\ half < cells
  OBVIOUS
<1>2. (dimension * cells + half) \div cells = dimension
  <2> HIDE DEF half
  <2> DEFINE n == dimension * cells + half
             d == n \div cells
             r == n % cells
  <2>1. dimension * cells \in Nat /\ n \in Nat
    BY <1>1
  <2>2. n = cells * d + r /\ d \in Int /\ r \in 0..(cells - 1)
    BY <2>1
  <2>3. cells * (dimension - d) = r - half
    BY <2>1, <2>2, <1>1
  <2> HIDE DEF d, r
  <2>4. dimension - d < 1
    <3>1. ASSUME dimension - d >= 1 PROVE cells * (dimension - d) >= cells
      BY <3>1, <2>2, MultipleAtLeast
    <3> QED BY <3>1, <2>3, <2>2, <1>1
  <2>5. dimension - d > 0 - 1
    <3>1. ASSUME d - dimension >= 1 PROVE cells * (d - dimension) >= cells
      BY <3>1, <2>2, MultipleAtLeast
    <3>2. cells * (d - dimension) = half - r
      BY <2>1, <2>2, <1>1
    <3> QED BY <3>1, <3>2, <2>2, <1>1
  <2> QED BY <2>2, <2>4, <2>5
<1> QED BY <1>2 DEF ScaledDimension

\* A geometry that agrees survives a resize to the same size.
LEMMA ResizeToSameSize ==
  ASSUME Shape, Numbers, GeometryAgrees
  PROVE  ResizedViewport(rows) = viewport
<1>1. rows \in Nat \ {0} /\ viewport \in Nat
  BY ConstantsAssumption DEF Numbers
<1>2. ScaledDimension(viewport, rows, rows) = viewport
  BY <1>1, ScalingToSameSize
<1> QED BY <1>2 DEF ResizedViewport, GeometryAgrees

\* What a handler draws at the bottom is the row of the mode it leaves.
LEMMA ControlsDrawn ==
  ASSUME Buffer', DrawControls
  PROVE  /\ Bottom'
         /\ bottom' \in {Garbled, Controls'}
         /\ shown' \in {shown, Nothing}
BY ConstantsAssumption DEF Buffer, Bottom, DrawControls, Controls, Garbled, Row

-----------------------------------------------------------------------------

LEMMA InitIInv == Init => IInv
<1> SUFFICES ASSUME Init PROVE IInv
  OBVIOUS
<1> USE ConstantsAssumption DEF Init
<1>1. Shape
  BY InferredDensity DEF Shape
<1>2. Flags
  BY DEF Flags
<1>3. Bottom
  BY DEF Bottom, Row, Garbled
<1>4. Numbers
  BY DEF Numbers, Geometry
<1>5. Frames /\ Baseline /\ Shown /\ BottomShown
  BY DEF Frames, Baseline, Shown, BottomShown
<1>6. Arrived
  BY DEF Arrived
<1>7. GeometryAgrees
  BY InferredDensity DEF GeometryAgrees
<1>8. Buffer
  BY DEF Buffer
<1> QED BY <1>1, <1>2, <1>3, <1>4, <1>5, <1>6, <1>7, <1>8 DEF IInv

USE DEF address_bar, geometry, display, arrivals

LEMMA StepKeepsIInv == IInv /\ [Next]_vars => IInv'
<1> SUFFICES ASSUME IInv, [Next]_vars PROVE IInv'
  OBVIOUS
<1> USE DEF IInv
<1>1. ASSUME PageChanges PROVE IInv'
  <2>1. Shape'
    BY <1>1, ConstantsAssumption DEF PageChanges, Shape
  <2>2. Flags'
    BY <1>1 DEF PageChanges, Flags
  <2>3. Buffer'
    BY <1>1, ConstantsAssumption DEF PageChanges, Buffer
  <2>4. Bottom'
    BY <1>1 DEF PageChanges, Bottom, Row, Garbled
  <2>5. Numbers'
    BY <1>1 DEF PageChanges, Numbers
  <2>6. Frames'
    BY <1>1 DEF PageChanges, Frames
  <2>7. Arrived'
    BY <1>1 DEF PageChanges, Arrived
  <2>8. GeometryAgrees'
    BY <1>1 DEF PageChanges, GeometryAgrees
  <2>9. Baseline'
    BY <1>1 DEF PageChanges, Baseline
  <2>10. Shown'
    BY <1>1 DEF PageChanges, Shown
  <2>11. BottomShown'
    BY <1>1 DEF PageChanges, BottomShown, Controls
  <2> QED BY <2>1, <2>2, <2>3, <2>4, <2>5, <2>6, <2>7, <2>8, <2>9, <2>10, <2>11 DEF IInv
<1>2. ASSUME TerminalResized PROVE IInv'
  <2>1. Shape'
    BY <1>2, ConstantsAssumption DEF TerminalResized, Shape
  <2>2. Flags'
    BY <1>2 DEF TerminalResized, Flags
  <2>3. Buffer'
    BY <1>2, ConstantsAssumption DEF TerminalResized, Buffer
  <2>4. Bottom'
    BY <1>2 DEF TerminalResized, Bottom, Row, Garbled
  <2>5. Numbers'
    BY <1>2 DEF TerminalResized, Numbers
  <2>6. Frames'
    BY <1>2 DEF TerminalResized, Frames
  <2>7. Arrived'
    BY <1>2 DEF TerminalResized, Arrived
  <2>8. GeometryAgrees'
    BY <1>2 DEF TerminalResized, GeometryAgrees
  <2>9. Baseline'
    BY <1>2 DEF TerminalResized, Baseline
  <2>10. Shown'
    BY <1>2 DEF TerminalResized, Shown
  <2>11. BottomShown'
    BY <1>2 DEF TerminalResized, BottomShown, Controls
  <2> QED BY <2>1, <2>2, <2>3, <2>4, <2>5, <2>6, <2>7, <2>8, <2>9, <2>10, <2>11 DEF IInv
<1>3. ASSUME ResizeArrives PROVE IInv'
  <2>1. Shape'
    BY <1>3, ConstantsAssumption DEF ResizeArrives, Arrives, Shape
  <2>2. Flags'
    BY <1>3 DEF ResizeArrives, Arrives, Flags
  <2>3. Buffer'
    BY <1>3, ConstantsAssumption DEF ResizeArrives, Arrives, Buffer
  <2>4. Bottom'
    BY <1>3 DEF ResizeArrives, Arrives, Bottom, Row, Garbled
  <2>5. Numbers'
    BY <1>3 DEF ResizeArrives, Arrives, Numbers
  <2>6. Frames'
    BY <1>3 DEF ResizeArrives, Arrives, Frames
  <2>7. [kind |-> "resize", at |-> size] \in Event
    BY <1>3 DEF Shape, Event
  <2>8. Arrived'
    BY <1>3, <2>7 DEF ResizeArrives, Arrives, Arrived
  <2>9. GeometryAgrees'
    BY <1>3 DEF ResizeArrives, Arrives, GeometryAgrees
  <2>10. Baseline'
    BY <1>3 DEF ResizeArrives, Arrives, Baseline
  <2>11. Shown'
    BY <1>3 DEF ResizeArrives, Arrives, Shown
  <2>12. BottomShown'
    BY <1>3 DEF ResizeArrives, Arrives, BottomShown, Controls
  <2> QED BY <2>1, <2>2, <2>3, <2>4, <2>5, <2>6, <2>7, <2>8, <2>9, <2>10, <2>11, <2>12 DEF IInv
<1>4. ASSUME MouseArrives PROVE IInv'
  <2>1. Shape'
    BY <1>4, ConstantsAssumption DEF MouseArrives, Arrives, Shape
  <2>2. Flags'
    BY <1>4 DEF MouseArrives, Arrives, Flags
  <2>3. Buffer'
    BY <1>4, ConstantsAssumption DEF MouseArrives, Arrives, Buffer
  <2>4. Bottom'
    BY <1>4 DEF MouseArrives, Arrives, Bottom, Row, Garbled
  <2>5. Numbers'
    BY <1>4 DEF MouseArrives, Arrives, Numbers
  <2>6. Frames'
    BY <1>4 DEF MouseArrives, Arrives, Frames
  <2>7. \A cell \in 0..(size - 1) : [kind |-> "mouse", at |-> cell] \in Event
    BY <1>4, ConstantsAssumption DEF Shape, Event
  <2>8. Arrived'
    BY <1>4, <2>7 DEF MouseArrives, Arrives, Arrived
  <2>9. GeometryAgrees'
    BY <1>4 DEF MouseArrives, Arrives, GeometryAgrees
  <2>10. Baseline'
    BY <1>4 DEF MouseArrives, Arrives, Baseline
  <2>11. Shown'
    BY <1>4 DEF MouseArrives, Arrives, Shown
  <2>12. BottomShown'
    BY <1>4 DEF MouseArrives, Arrives, BottomShown, Controls
  <2> QED BY <2>1, <2>2, <2>3, <2>4, <2>5, <2>6, <2>7, <2>8, <2>9, <2>10, <2>11, <2>12 DEF IInv
<1>5. ASSUME OpenAddressBar PROVE IInv'
  <2>1. Shape'
    BY <1>5, ConstantsAssumption DEF OpenAddressBar, Handled, DrawControls, Shape
  <2>2. Flags'
    BY <1>5 DEF OpenAddressBar, Handled, DrawControls, Flags
  <2>3. Buffer'
    BY <1>5, ConstantsAssumption DEF OpenAddressBar, Handled, DrawControls, Buffer
  <2>4. DrawControls
    BY <1>5 DEF OpenAddressBar, Handled
  <2>5. Bottom' /\ bottom' \in {Garbled, Controls'} /\ shown' \in {shown, Nothing}
    BY <1>5, <2>3, <2>4, ControlsDrawn
  <2>6. Numbers'
    BY <1>5 DEF OpenAddressBar, Handled, DrawControls, Numbers
  <2>7. Frames'
    BY <1>5, <2>5 DEF OpenAddressBar, Handled, Frames
  <2>8. Arrived'
    BY <1>5 DEF OpenAddressBar, Handled, DrawControls, Arrived
  <2>9. GeometryAgrees'
    BY <1>5 DEF OpenAddressBar, Handled, DrawControls, GeometryAgrees
  <2>10. Baseline'
    BY <1>5 DEF OpenAddressBar, Handled, DrawControls, Baseline
  <2>11. Shown'
    BY <1>5, <2>5 DEF OpenAddressBar, Handled, Shown
  <2>12. BottomShown'
    BY <1>5, <2>5 DEF OpenAddressBar, Handled, BottomShown
  <2> QED BY <2>1, <2>2, <2>3, <2>4, <2>5, <2>6, <2>7, <2>8, <2>9, <2>10, <2>11, <2>12 DEF IInv
<1>6. ASSUME ZoomRefused PROVE IInv'
  <2>1. Shape'
    BY <1>6, ConstantsAssumption DEF ZoomRefused, Handled, DrawControls, Shape
  <2>2. Flags'
    BY <1>6 DEF ZoomRefused, Handled, DrawControls, Flags
  <2>3. Buffer'
    BY <1>6, ConstantsAssumption DEF ZoomRefused, Handled, DrawControls, Buffer
  <2>4. DrawControls
    BY <1>6 DEF ZoomRefused, Handled
  <2>5. Bottom' /\ bottom' \in {Garbled, Controls'} /\ shown' \in {shown, Nothing}
    BY <1>6, <2>3, <2>4, ControlsDrawn
  <2>6. Numbers'
    BY <1>6 DEF ZoomRefused, Handled, DrawControls, Numbers
  <2>7. Frames'
    BY <1>6, <2>5 DEF ZoomRefused, Handled, Frames
  <2>8. Arrived'
    BY <1>6 DEF ZoomRefused, Handled, DrawControls, Arrived
  <2>9. GeometryAgrees'
    BY <1>6 DEF ZoomRefused, Handled, DrawControls, GeometryAgrees
  <2>10. Baseline'
    BY <1>6 DEF ZoomRefused, Handled, DrawControls, Baseline
  <2>11. Shown'
    BY <1>6, <2>5 DEF ZoomRefused, Handled, Shown
  <2>12. BottomShown'
    BY <1>6, <2>5 DEF ZoomRefused, Handled, BottomShown
  <2> QED BY <2>1, <2>2, <2>3, <2>4, <2>5, <2>6, <2>7, <2>8, <2>9, <2>10, <2>11, <2>12 DEF IInv
<1>7. ASSUME Zoom PROVE IInv'
  <2>1. PICK zoom \in {ZoomIn, ZoomOut} :
          /\ zoom[layout_density] # "none"
          /\ LayoutDimension(rows, zoom[layout_density]) \in 1..MaxViewport
          /\ metrics' = LayoutDimension(rows, zoom[layout_density])
          /\ CommitZoom(zoom[layout_density])
    BY <1>7 DEF Zoom
  <2> DEFINE density == zoom[layout_density]
  <2>2. density \in Densities
    BY <2>1, ZoomLeadsToDensity DEF Shape
  <2>3. LayoutDimension(rows, density) \in 1..MaxViewport /\ CommitZoom(density)
    BY <2>1
  <2>4. metrics' = LayoutDimension(rows, density) /\ density # "none"
    BY <2>1
  <2> HIDE DEF density
  <2>5. pc' = "render" /\ UNCHANGED <<address_bar, page, size, display, arrivals>>
    BY <1>7 DEF Zoom, HandledAndRender
  <2>6. Shape' /\ Flags'
    BY <2>2, <2>3, <2>5 DEF Shape, Flags, CommitZoom
  <2>7. Buffer' /\ Bottom' /\ Arrived'
    BY <2>5 DEF Buffer, Bottom, Arrived
  <2>8. Numbers'
    BY <2>3, <2>4 DEF Numbers, Geometry, CommitZoom
  <2>9. previous' = Nothing /\ Frames'
    BY <2>3, <2>5 DEF Frames, CommitZoom
  <2>10. GeometryAgrees'
    BY <2>3, <2>4 DEF GeometryAgrees, CommitZoom, LayoutDimension
  <2>11. Baseline' /\ Shown' /\ BottomShown'
    BY <2>5, <2>9 DEF Baseline, Shown, BottomShown
  <2> QED BY <2>6, <2>7, <2>8, <2>9, <2>10, <2>11 DEF IInv
<1>8. ASSUME Reload PROVE IInv'
  <2>1. Shape'
    BY <1>8, ConstantsAssumption DEF Reload, HandledAndRender, Shape
  <2>2. Flags'
    BY <1>8 DEF Reload, HandledAndRender, Flags
  <2>3. Buffer'
    BY <1>8, ConstantsAssumption DEF Reload, HandledAndRender, Buffer
  <2>4. Bottom'
    BY <1>8 DEF Reload, HandledAndRender, Bottom, Row, Garbled
  <2>5. Numbers'
    BY <1>8 DEF Reload, HandledAndRender, Numbers
  <2>6. Frames'
    BY <1>8 DEF Reload, HandledAndRender, Frames
  <2>7. Arrived'
    BY <1>8 DEF Reload, HandledAndRender, Arrived
  <2>8. GeometryAgrees'
    BY <1>8 DEF Reload, HandledAndRender, GeometryAgrees
  <2>9. Baseline'
    BY <1>8 DEF Reload, HandledAndRender, Baseline
  <2>10. Shown'
    BY <1>8 DEF Reload, HandledAndRender, Shown
  <2>11. BottomShown'
    BY <1>8 DEF Reload, HandledAndRender, BottomShown, Controls
  <2> QED BY <2>1, <2>2, <2>3, <2>4, <2>5, <2>6, <2>7, <2>8, <2>9, <2>10, <2>11 DEF IInv
<1>9. ASSUME ForwardKey PROVE IInv'
  <2>1. Shape'
    BY <1>9, ConstantsAssumption DEF ForwardKey, Forwarded, Shape
  <2>2. Flags'
    BY <1>9 DEF ForwardKey, Forwarded, Flags
  <2>3. Buffer'
    BY <1>9, ConstantsAssumption DEF ForwardKey, Forwarded, Buffer
  <2>4. Bottom'
    BY <1>9 DEF ForwardKey, Forwarded, Bottom, Row, Garbled
  <2>5. Numbers'
    BY <1>9 DEF ForwardKey, Forwarded, Numbers
  <2>6. Frames'
    BY <1>9 DEF ForwardKey, Forwarded, Frames
  <2>7. Arrived'
    BY <1>9 DEF ForwardKey, Forwarded, Arrived
  <2>8. GeometryAgrees'
    BY <1>9 DEF ForwardKey, Forwarded, GeometryAgrees
  <2>9. Baseline'
    BY <1>9 DEF ForwardKey, Forwarded, Baseline
  <2>10. Shown'
    BY <1>9 DEF ForwardKey, Forwarded, Shown
  <2>11. BottomShown'
    BY <1>9 DEF ForwardKey, Forwarded, BottomShown, Controls
  <2> QED BY <2>1, <2>2, <2>3, <2>4, <2>5, <2>6, <2>7, <2>8, <2>9, <2>10, <2>11 DEF IInv
<1>10. ASSUME EditAddressBar PROVE IInv'
  <2>1. Shape'
    BY <1>10, ConstantsAssumption DEF EditAddressBar, Handled, DrawControls, Shape
  <2>2. Flags'
    BY <1>10 DEF EditAddressBar, Handled, DrawControls, Flags
  <2>3. Buffer'
    BY <1>10, ConstantsAssumption DEF EditAddressBar, Handled, DrawControls, Buffer
  <2>4. DrawControls
    BY <1>10 DEF EditAddressBar, Handled
  <2>5. Bottom' /\ bottom' \in {Garbled, Controls'} /\ shown' \in {shown, Nothing}
    BY <1>10, <2>3, <2>4, ControlsDrawn
  <2>6. Numbers'
    BY <1>10 DEF EditAddressBar, Handled, DrawControls, Numbers
  <2>7. Frames'
    BY <1>10, <2>5 DEF EditAddressBar, Handled, Frames
  <2>8. Arrived'
    BY <1>10 DEF EditAddressBar, Handled, DrawControls, Arrived
  <2>9. GeometryAgrees'
    BY <1>10 DEF EditAddressBar, Handled, DrawControls, GeometryAgrees
  <2>10. Baseline'
    BY <1>10 DEF EditAddressBar, Handled, DrawControls, Baseline
  <2>11. Shown'
    BY <1>10, <2>5 DEF EditAddressBar, Handled, Shown
  <2>12. BottomShown'
    BY <1>10, <2>5 DEF EditAddressBar, Handled, BottomShown
  <2> QED BY <2>1, <2>2, <2>3, <2>4, <2>5, <2>6, <2>7, <2>8, <2>9, <2>10, <2>11, <2>12 DEF IInv
<1>11. ASSUME CancelAddressBar PROVE IInv'
  <2>1. Shape'
    BY <1>11, ConstantsAssumption DEF CancelAddressBar, CloseAddressBar, HandledAndRender, Shape
  <2>2. Flags'
    BY <1>11 DEF CancelAddressBar, CloseAddressBar, HandledAndRender, Flags
  <2>3. Buffer'
    BY <1>11, ConstantsAssumption DEF CancelAddressBar, CloseAddressBar, HandledAndRender, Buffer
  <2>4. Bottom'
    BY <1>11 DEF CancelAddressBar, CloseAddressBar, HandledAndRender, Bottom, Row, Garbled
  <2>5. Numbers'
    BY <1>11 DEF CancelAddressBar, CloseAddressBar, HandledAndRender, Numbers
  <2>6. Frames'
    BY <1>11 DEF CancelAddressBar, CloseAddressBar, HandledAndRender, Frames
  <2>7. Arrived'
    BY <1>11 DEF CancelAddressBar, CloseAddressBar, HandledAndRender, Arrived
  <2>8. GeometryAgrees'
    BY <1>11 DEF CancelAddressBar, CloseAddressBar, HandledAndRender, GeometryAgrees
  <2>9. Baseline'
    BY <1>11 DEF CancelAddressBar, CloseAddressBar, HandledAndRender, Baseline
  <2>10. Shown'
    BY <1>11 DEF CancelAddressBar, CloseAddressBar, HandledAndRender, Shown
  <2>11. BottomShown'
    BY <1>11 DEF CancelAddressBar, CloseAddressBar, HandledAndRender, BottomShown, Controls
  <2> QED BY <2>1, <2>2, <2>3, <2>4, <2>5, <2>6, <2>7, <2>8, <2>9, <2>10, <2>11 DEF IInv
<1>12. ASSUME SubmitAddress PROVE IInv'
  <2>1. Shape'
    BY <1>12, ConstantsAssumption DEF SubmitAddress, CloseAddressBar, HandledAndRender, Shape
  <2>2. Flags'
    BY <1>12 DEF SubmitAddress, CloseAddressBar, HandledAndRender, Flags
  <2>3. Buffer'
    BY <1>12, ConstantsAssumption DEF SubmitAddress, CloseAddressBar, HandledAndRender, Buffer
  <2>4. Bottom'
    BY <1>12 DEF SubmitAddress, CloseAddressBar, HandledAndRender, Bottom, Row, Garbled
  <2>5. Numbers'
    BY <1>12 DEF SubmitAddress, CloseAddressBar, HandledAndRender, Numbers
  <2>6. Frames'
    BY <1>12 DEF SubmitAddress, CloseAddressBar, HandledAndRender, Frames
  <2>7. Arrived'
    BY <1>12 DEF SubmitAddress, CloseAddressBar, HandledAndRender, Arrived
  <2>8. GeometryAgrees'
    BY <1>12 DEF SubmitAddress, CloseAddressBar, HandledAndRender, GeometryAgrees
  <2>9. Baseline'
    BY <1>12 DEF SubmitAddress, CloseAddressBar, HandledAndRender, Baseline
  <2>10. Shown'
    BY <1>12 DEF SubmitAddress, CloseAddressBar, HandledAndRender, Shown
  <2>11. BottomShown'
    BY <1>12 DEF SubmitAddress, CloseAddressBar, HandledAndRender, BottomShown, Controls
  <2> QED BY <2>1, <2>2, <2>3, <2>4, <2>5, <2>6, <2>7, <2>8, <2>9, <2>10, <2>11 DEF IInv
<1>13. ASSUME ForwardPasteOrFocus PROVE IInv'
  <2>1. Shape'
    BY <1>13, ConstantsAssumption DEF ForwardPasteOrFocus, Forwarded, Shape
  <2>2. Flags'
    BY <1>13 DEF ForwardPasteOrFocus, Forwarded, Flags
  <2>3. Buffer'
    BY <1>13, ConstantsAssumption DEF ForwardPasteOrFocus, Forwarded, Buffer
  <2>4. Bottom'
    BY <1>13 DEF ForwardPasteOrFocus, Forwarded, Bottom, Row, Garbled
  <2>5. Numbers'
    BY <1>13 DEF ForwardPasteOrFocus, Forwarded, Numbers
  <2>6. Frames'
    BY <1>13 DEF ForwardPasteOrFocus, Forwarded, Frames
  <2>7. Arrived'
    BY <1>13 DEF ForwardPasteOrFocus, Forwarded, Arrived
  <2>8. GeometryAgrees'
    BY <1>13 DEF ForwardPasteOrFocus, Forwarded, GeometryAgrees
  <2>9. Baseline'
    BY <1>13 DEF ForwardPasteOrFocus, Forwarded, Baseline
  <2>10. Shown'
    BY <1>13 DEF ForwardPasteOrFocus, Forwarded, Shown
  <2>11. BottomShown'
    BY <1>13 DEF ForwardPasteOrFocus, Forwarded, BottomShown, Controls
  <2> QED BY <2>1, <2>2, <2>3, <2>4, <2>5, <2>6, <2>7, <2>8, <2>9, <2>10, <2>11 DEF IInv
<1>14. ASSUME ForwardMouse PROVE IInv'
  <2>1. Shape'
    BY <1>14, ConstantsAssumption DEF ForwardMouse, Taken, Forwarded, Failed, Shape
  <2>2. Flags'
    BY <1>14 DEF ForwardMouse, Taken, Forwarded, Failed, Flags
  <2>3. Buffer'
    BY <1>14, ConstantsAssumption DEF ForwardMouse, Taken, Forwarded, Failed, Buffer
  <2>4. Bottom'
    BY <1>14 DEF ForwardMouse, Taken, Forwarded, Failed, Bottom, Row, Garbled
  <2>5. Numbers'
    BY <1>14 DEF ForwardMouse, Taken, Forwarded, Failed, Numbers
  <2>6. Frames'
    BY <1>14 DEF ForwardMouse, Taken, Forwarded, Failed, Frames
  <2>7. Arrived'
    BY <1>14 DEF ForwardMouse, Taken, Forwarded, Failed, Arrived
  <2>8. GeometryAgrees'
    BY <1>14 DEF ForwardMouse, Taken, Forwarded, Failed, GeometryAgrees
  <2>9. Baseline'
    BY <1>14 DEF ForwardMouse, Taken, Forwarded, Failed, Baseline
  <2>10. Shown'
    BY <1>14 DEF ForwardMouse, Taken, Forwarded, Failed, Shown
  <2>11. BottomShown'
    BY <1>14 DEF ForwardMouse, Taken, Forwarded, Failed, BottomShown, Controls
  <2> QED BY <2>1, <2>2, <2>3, <2>4, <2>5, <2>6, <2>7, <2>8, <2>9, <2>10, <2>11 DEF IInv
<1>15. ASSUME Resize PROVE IInv'
  <2> DEFINE next == Head(queue).at
  <2>1. queue # << >> /\ Head(queue) \in Event /\ Head(queue).kind = "resize"
    BY <1>15 DEF Resize, Taken, Arrived
  <2>2. next \in Sizes
    BY <2>1 DEF Event
  <2>3. queue' = Tail(queue) /\ UNCHANGED signalled /\ pc = "select"
    BY <1>15 DEF Resize, Taken
  <2>4. Arrived'
    BY <2>1, <2>3 DEF Arrived
  <2>5. CASE Failed("error")
    <3>1. Shape' /\ Flags'
      BY <2>3, <2>5 DEF Failed, Shape, Flags
    <3>2. Buffer' /\ Bottom' /\ Numbers' /\ Frames'
      BY <2>5 DEF Failed, Buffer, Bottom, Numbers, Frames
    <3>3. GeometryAgrees' /\ Baseline'
      BY <2>5 DEF Failed, GeometryAgrees, Baseline
    <3>4. Shown' /\ BottomShown'
      BY <2>3, <2>5 DEF Failed, Shown, BottomShown
    <3> QED BY <2>4, <3>1, <3>2, <3>3, <3>4 DEF IInv
  <2>6. CASE /\ ResizedViewport(next) \in 1..MaxViewport
             /\ metrics' = ResizedViewport(next)
             /\ CommitResize(next)
             /\ HandledAndRender
             /\ UNCHANGED <<address_bar, page>>
    <3>1. next = rows => ResizedViewport(next) = viewport
      BY ResizeToSameSize
    <3>2. layout_density # "none" => ResizedViewport(next) = LayoutDimension(next, layout_density)
      BY DEF ResizedViewport
    <3> HIDE DEF next
    <3> DEFINE resized == ResizedViewport(next)
    <3>3. resized \in 1..MaxViewport /\ metrics' = resized
      BY <2>6
    <3>4. /\ rows' = next
          /\ frame_rows' = next
          /\ viewport' = resized
          /\ launch_viewport' = resized
          /\ input' = [rows |-> next, viewport |-> resized]
          /\ layout_density' = layout_density
      BY <2>6 DEF CommitResize
    <3>5. previous' = IF previous # Nothing /\ previous.rows # next THEN Nothing ELSE previous
      BY <2>6 DEF CommitResize
    <3>6. pc' = "render" /\ UNCHANGED <<address_bar, page, size, display>>
      BY <2>6 DEF HandledAndRender
    <3>7. next = rows => resized = viewport
      BY <3>1
    <3>8. layout_density # "none" => resized = LayoutDimension(next, layout_density)
      BY <3>2
    <3> HIDE DEF resized
    <3>9. Shape' /\ Flags'
      BY <2>3, <3>4, <3>6 DEF Shape, Flags
    <3>10. Buffer' /\ Bottom'
      BY <3>6 DEF Buffer, Bottom
    <3>11. Numbers'
      BY <2>2, <3>3, <3>4 DEF Numbers, Geometry
    <3>12. Frames'
      BY <3>5, <3>6 DEF Frames
    <3>13. GeometryAgrees'
      BY <3>3, <3>4, <3>8 DEF GeometryAgrees, LayoutDimension
    <3>14. Baseline'
      BY <3>4, <3>5, <3>7 DEF Baseline, GeometryAgrees
    <3>15. Shown'
      BY <2>3, <3>5, <3>6 DEF Shown
    <3>16. BottomShown'
      BY <2>3, <3>6 DEF BottomShown, Controls
    <3> QED BY <2>4, <3>9, <3>10, <3>11, <3>12, <3>13, <3>14, <3>15, <3>16 DEF IInv
  <2> HIDE DEF next
  <2>7. \/ Failed("error")
        \/ /\ ResizedViewport(next) \in 1..MaxViewport
           /\ metrics' = ResizedViewport(next)
           /\ CommitResize(next)
           /\ HandledAndRender
           /\ UNCHANGED <<address_bar, page>>
    BY <1>15 DEF Resize, next
  <2> QED BY <2>5, <2>6, <2>7
<1>16. ASSUME Render PROVE IInv'
  <2>1. Shape'
    BY <1>16, ConstantsAssumption DEF Render, Shape
  <2>2. Flags'
    BY <1>16 DEF Render, Flags, Write
  <2>3. Buffer'
    BY <1>16, ConstantsAssumption DEF Render, Buffer
  <2>4. Bottom'
    BY <1>16 DEF Render, Write, Bottom, Buffer, Row, Controls, Garbled
  <2>5. Numbers'
    BY <1>16 DEF Render, Numbers
  <2>6. Screenshot \in Surface
    BY <1>16 DEF Screenshot, Surface, Shape, Numbers
  <2>7. Frames'
    BY <1>16, <2>6 DEF Render, Write, Frames
  <2>8. Arrived'
    BY <1>16 DEF Render, Arrived
  <2>9. GeometryAgrees'
    BY <1>16 DEF Render, GeometryAgrees
  <2>10. Baseline'
    BY <1>16, <2>6 DEF Render, Write, Screenshot, Baseline, GeometryAgrees
  <2>11. Shown'
    BY <1>16, <2>6, SurfaceIsSomething DEF Render, Write, Shown
  <2>12. BottomShown'
    BY <1>16, <2>6, SurfaceIsSomething DEF Render, Write, BottomShown, Controls
  <2> QED BY <2>1, <2>2, <2>3, <2>4, <2>5, <2>6, <2>7, <2>8, <2>9, <2>10, <2>11, <2>12 DEF IInv
<1>17. ASSUME Recover PROVE IInv'
  <2>1. Shape'
    BY <1>17, ConstantsAssumption DEF Recover, HandledAndRender, Shape
  <2>2. Flags'
    BY <1>17 DEF Recover, HandledAndRender, Flags
  <2>3. Buffer'
    BY <1>17, ConstantsAssumption DEF Recover, HandledAndRender, Buffer
  <2>4. Bottom'
    BY <1>17 DEF Recover, HandledAndRender, Bottom, Row, Garbled
  <2>5. Numbers'
    BY <1>17 DEF Recover, HandledAndRender, Numbers
  <2>6. Frames'
    BY <1>17 DEF Recover, HandledAndRender, Frames
  <2>7. Arrived'
    BY <1>17 DEF Recover, HandledAndRender, Arrived
  <2>8. GeometryAgrees'
    BY <1>17 DEF Recover, HandledAndRender, GeometryAgrees
  <2>9. Baseline'
    BY <1>17 DEF Recover, HandledAndRender, Baseline
  <2>10. Shown'
    BY <1>17 DEF Recover, HandledAndRender, Shown
  <2>11. BottomShown'
    BY <1>17 DEF Recover, HandledAndRender, BottomShown, Controls
  <2> QED BY <2>1, <2>2, <2>3, <2>4, <2>5, <2>6, <2>7, <2>8, <2>9, <2>10, <2>11 DEF IInv
<1>18. ASSUME End PROVE IInv'
  <2>1. Shape'
    BY <1>18, ConstantsAssumption DEF End, Failed, Shape
  <2>2. Flags'
    BY <1>18 DEF End, Failed, Flags
  <2>3. Buffer'
    BY <1>18, ConstantsAssumption DEF End, Failed, Buffer
  <2>4. Bottom'
    BY <1>18 DEF End, Failed, Bottom, Row, Garbled
  <2>5. Numbers'
    BY <1>18 DEF End, Failed, Numbers
  <2>6. Frames'
    BY <1>18 DEF End, Failed, Frames
  <2>7. Arrived'
    BY <1>18 DEF End, Failed, Arrived
  <2>8. GeometryAgrees'
    BY <1>18 DEF End, Failed, GeometryAgrees
  <2>9. Baseline'
    BY <1>18 DEF End, Failed, Baseline
  <2>10. Shown'
    BY <1>18 DEF End, Failed, Shown
  <2>11. BottomShown'
    BY <1>18 DEF End, Failed, BottomShown, Controls
  <2> QED BY <2>1, <2>2, <2>3, <2>4, <2>5, <2>6, <2>7, <2>8, <2>9, <2>10, <2>11 DEF IInv
<1>19. ASSUME UNCHANGED vars PROVE IInv'
  <2>1. Shape'
    BY <1>19, ConstantsAssumption DEF vars, Shape
  <2>2. Flags'
    BY <1>19 DEF vars, Flags
  <2>3. Buffer'
    BY <1>19, ConstantsAssumption DEF vars, Buffer
  <2>4. Bottom'
    BY <1>19 DEF vars, Bottom, Row, Garbled
  <2>5. Numbers'
    BY <1>19 DEF vars, Numbers
  <2>6. Frames'
    BY <1>19 DEF vars, Frames
  <2>7. Arrived'
    BY <1>19 DEF vars, Arrived
  <2>8. GeometryAgrees'
    BY <1>19 DEF vars, GeometryAgrees
  <2>9. Baseline'
    BY <1>19 DEF vars, Baseline
  <2>10. Shown'
    BY <1>19 DEF vars, Shown
  <2>11. BottomShown'
    BY <1>19 DEF vars, BottomShown, Controls
  <2> QED BY <2>1, <2>2, <2>3, <2>4, <2>5, <2>6, <2>7, <2>8, <2>9, <2>10, <2>11 DEF IInv
<1> QED
  BY <1>1, <1>2, <1>3, <1>4, <1>5, <1>6, <1>7, <1>8, <1>9, <1>10, <1>11, <1>12, <1>13, <1>14, <1>15, <1>16, <1>17, <1>18, <1>19
     DEF Next, Environment, Key, Other

LEMMA Invariance == Spec => []IInv
BY InitIInv, StepKeepsIInv, PTL DEF Spec

-----------------------------------------------------------------------------

\* The state of a session's terminal keeps its declared shape.
THEOREM TypeCorrect == Spec => []TypeOK
<1>1. IInv => TypeOK
  BY TypeParts DEF IInv
<1> QED BY Invariance, <1>1, PTL

\* Zooms, resizes and recoveries in any order leave the copies of the geometry
\* in agreement.
THEOREM GeometryNeverDiverges == Spec => []GeometryAgrees
<1>1. IInv => GeometryAgrees
  BY DEF IInv
<1> QED BY Invariance, <1>1, PTL

\* While the session waits, a terminal that shows a frame whole shows the
\* baseline, and its last row is that of the current mode.
THEOREM ScreenFollowsBaseline == Spec => []ScreenIsBaseline
<1>1. IInv => ScreenIsBaseline
  BY DEF IInv, Shown, BottomShown, ScreenIsBaseline
<1> QED BY Invariance, <1>1, PTL

\* Clicks are translated with the geometry of the frame the terminal shows.
THEOREM ClicksTranslatedAsShown == Spec => []ClicksHitWhatIsShown
<1>1. IInv => ClicksHitWhatIsShown
  BY DEF IInv, Shown, Baseline, GeometryAgrees, ClicksHitWhatIsShown
<1> QED BY Invariance, <1>1, PTL
-----------------------------------------------------------------------------
(* Every resize is answered by a whole frame. *)

\* One event less, or one more.
LEMMA QueueTail ==
  ASSUME queue \in Seq(Event), queue # << >>, queue' = Tail(queue)
  PROVE  /\ 1 \in DOMAIN queue /\ queue[1] = Head(queue)
         /\ \A i \in DOMAIN queue' : i \in Nat /\ i >= 1 /\ i + 1 \in DOMAIN queue /\ queue'[i] = queue[i + 1]
         /\ \A i \in DOMAIN queue : i \in Nat /\ i >= 1 /\ (i # 1 => i - 1 \in DOMAIN queue' /\ queue'[i - 1] = queue[i])
<1>1. Len(queue) \in Nat /\ Len(queue) >= 1 /\ DOMAIN queue = 1..Len(queue) /\ queue[1] = Head(queue)
  OBVIOUS
<1>2. DOMAIN queue' = 1..Len(queue) - 1 /\ \A i \in 1..Len(queue) - 1 : queue'[i] = queue[i + 1]
  BY <1>1
<1>3. ASSUME NEW i \in DOMAIN queue, i # 1
      PROVE  i - 1 \in DOMAIN queue' /\ queue'[i - 1] = queue[i]
  <2>1. i - 1 \in 1..Len(queue) - 1 /\ (i - 1) + 1 = i
    BY <1>1, <1>3
  <2> QED BY <1>2, <2>1
<1> QED BY <1>1, <1>2, <1>3

LEMMA QueueAppend ==
  ASSUME queue \in Seq(Event), NEW event, queue' = Append(queue, event)
  PROVE  /\ Len(queue) + 1 \in DOMAIN queue' /\ queue'[Len(queue) + 1] = event
         /\ \A i \in DOMAIN queue : i \in DOMAIN queue' /\ queue'[i] = queue[i] /\ i <= Len(queue) + 1
         /\ \A i \in DOMAIN queue' : i <= Len(queue) + 1 /\ (i = Len(queue) + 1 \/ i \in DOMAIN queue)
OBVIOUS

LEMMA InitRepaired == Init => Announced /\ Repaired
BY DEF Init, Announced, Repaired, Resizes

\* Taking the size of the last resize, or an event that is none, leaves what is
\* announced; and the sizes that are on their way are those that were, less one.
LEMMA TakenAnnounced ==
  ASSUME IInv, Announced, NEW kind, Taken(kind), size' = size,
         rows' = IF kind = "resize" THEN Head(queue).at ELSE rows
  PROVE  /\ Announced'
         /\ SizeCurrent' => SizeCurrent \/ (kind = "resize" /\ rows # size /\ rows' = size)
<1>1. /\ pc = "select" /\ queue # << >> /\ Head(queue).kind = kind /\ queue' = Tail(queue)
      /\ signalled' = signalled /\ queue \in Seq(Event)
  BY DEF Taken, IInv, Arrived
<1>2. /\ 1 \in DOMAIN queue /\ queue[1] = Head(queue)
      /\ \A i \in DOMAIN queue' : i \in Nat /\ i >= 1 /\ i + 1 \in DOMAIN queue /\ queue'[i] = queue[i + 1]
      /\ \A i \in DOMAIN queue : i \in Nat /\ i >= 1 /\ (i # 1 => i - 1 \in DOMAIN queue' /\ queue'[i - 1] = queue[i])
  BY <1>1, QueueTail
<1>3. \A i \in Resizes' : i \in Nat /\ i + 1 \in Resizes /\ queue'[i] = queue[i + 1]
  BY <1>2 DEF Resizes
<1>4. \A i \in Resizes : i \in Nat /\ i >= 1 /\ (i # 1 => i - 1 \in Resizes' /\ queue'[i - 1] = queue[i])
  BY <1>2 DEF Resizes
<1>5. 1 \in Resizes <=> kind = "resize"
  BY <1>1, <1>2 DEF Resizes
<1>6. Announced'
  <2> SUFFICES ASSUME ~signalled PROVE Announced'
    BY <1>1 DEF Announced
  <2>1. CASE Resizes = {} /\ rows = size
    <3>1. Resizes' = {}
      BY <1>3, <2>1
    <3>2. rows' = size'
      BY <1>5, <2>1
    <3> QED BY <3>1, <3>2 DEF Announced
  <2>2. CASE \E i \in Resizes : queue[i].at = size /\ \A j \in Resizes : j <= i
    <3>1. PICK i \in Resizes : queue[i].at = size /\ \A j \in Resizes : j <= i
      BY <2>2
    <3>2. CASE i = 1
      <4>1. Resizes' = {}
        <5> SUFFICES ASSUME NEW k \in Resizes' PROVE FALSE
          OBVIOUS
        <5>1. k \in Nat /\ k + 1 \in Resizes /\ k >= 1
          BY <1>2, <1>3 DEF Resizes
        <5>2. k + 1 <= 1
          BY <3>1, <3>2, <5>1
        <5> QED BY <5>1, <5>2
      <4>2. rows' = size'
        BY <1>2, <1>5, <3>1, <3>2
      <4> QED BY <4>1, <4>2 DEF Announced
    <3>3. CASE i # 1
      <4> DEFINE before == i - 1
      <4>1. before \in Resizes' /\ queue'[before] = queue[i] /\ i \in Nat
        BY <1>4, <3>3
      <4>2. \A k \in Resizes' : k <= before
        <5> SUFFICES ASSUME NEW k \in Resizes' PROVE k <= before
          OBVIOUS
        <5>1. k \in Nat /\ k + 1 \in Resizes
          BY <1>3
        <5>2. k + 1 <= i
          BY <3>1, <5>1
        <5> QED BY <4>1, <5>1, <5>2
      <4> HIDE DEF before
      <4> QED BY <3>1, <4>1, <4>2 DEF Announced
    <3> QED BY <3>2, <3>3
  <2> QED BY <1>1, <2>1, <2>2 DEF Announced
<1>7. SizeCurrent' => SizeCurrent \/ (kind = "resize" /\ rows # size /\ rows' = size)
  <2>0. SizeCurrent' => rows' = size
    BY DEF SizeCurrent
  <2> SUFFICES ASSUME SizeCurrent', ~(kind = "resize" /\ rows # size) PROVE SizeCurrent
    BY <2>0, Zenon
  <2>1. rows' = size
    BY <2>0
  <2>2. rows = size
    BY <2>1
  <2>3. \A i \in Resizes : queue[i].at = size
    <3> SUFFICES ASSUME NEW i \in Resizes PROVE queue[i].at = size
      OBVIOUS
    <3>1. CASE i = 1
      BY <1>2, <1>5, <2>1, <3>1
    <3>2. CASE i # 1
      BY <1>4, <3>2 DEF SizeCurrent
    <3> QED BY <3>1, <3>2
  <2> QED BY <2>2, <2>3 DEF SizeCurrent
<1> QED BY <1>6, <1>7

\* Steps that read no event and leave the terminal's size alone.
LEMMA SameSizes ==
  ASSUME Announced, UNCHANGED <<rows, size, arrivals>>, pc \in {"select", "render"}
  PROVE  Announced' /\ SizeCurrent' = SizeCurrent
<1>1. Resizes' = Resizes
  BY DEF Resizes
<1> QED BY <1>1 DEF Announced, SizeCurrent

LEMMA StepKeepsRepaired == IInv /\ Announced /\ Repaired /\ [Next]_vars => Announced' /\ Repaired'
<1> SUFFICES ASSUME IInv, Announced, Repaired, [Next]_vars PROVE Announced' /\ Repaired'
  OBVIOUS
<1>1. ASSUME PageChanges PROVE Announced' /\ Repaired'
  <2>1. UNCHANGED <<pc, rows, size, arrivals>> /\ pc \in {"select", "render"}
    BY <1>1 DEF PageChanges
  <2>2. Announced' /\ SizeCurrent' = SizeCurrent
    BY <2>1, SameSizes
  <2> QED BY <1>1, <2>1, <2>2 DEF PageChanges, Repaired, Controls
<1>2. ASSUME TerminalResized PROVE Announced' /\ Repaired'
  <2>1. /\ size' # size /\ signalled' /\ coalesced' = (coalesced \/ signalled)
        /\ UNCHANGED <<pc, rows, queue>> /\ pc \in {"select", "render"}
    BY <1>2 DEF TerminalResized
  <2>2. Announced'
    BY <2>1 DEF Announced
  <2>3. SizeCurrent' => signalled
    <3> SUFFICES ASSUME SizeCurrent', ~signalled PROVE FALSE
      OBVIOUS
    <3>1. rows = size' /\ \A i \in Resizes : queue[i].at = size'
      BY <2>1 DEF SizeCurrent, Resizes
    <3> QED BY <2>1, <3>1 DEF Announced
  <2> QED BY <2>1, <2>2, <2>3 DEF Repaired
<1>3. ASSUME NEW event, Arrives(event), event.kind = "resize" => event.at = size,
             event.kind = "resize" \/ UNCHANGED signalled,
             event.kind = "resize" => signalled
      PROVE  Announced' /\ Repaired'
  <2>1. /\ pc \in {"select", "render"} /\ queue \in Seq(Event) /\ queue' = Append(queue, event)
        /\ UNCHANGED <<pc, address_bar, geometry, previous, page, metrics, size, display>>
    BY <1>3 DEF Arrives, IInv, Arrived
  <2>2. /\ Len(queue) + 1 \in DOMAIN queue' /\ queue'[Len(queue) + 1] = event
        /\ \A i \in DOMAIN queue : i \in DOMAIN queue' /\ queue'[i] = queue[i] /\ i <= Len(queue) + 1
        /\ \A i \in DOMAIN queue' : i <= Len(queue) + 1 /\ (i = Len(queue) + 1 \/ i \in DOMAIN queue)
    BY <2>1, QueueAppend
  <2> DEFINE last == Len(queue) + 1
  <2>3. /\ \A i \in Resizes : i \in Resizes' /\ queue'[i] = queue[i]
        /\ \A i \in Resizes' : i <= last /\ (i \in Resizes \/ (i = last /\ event.kind = "resize"))
        /\ event.kind = "resize" => last \in Resizes' /\ queue'[last] = event
    BY <2>2 DEF Resizes
  <2> HIDE DEF last
  <2>4. Announced'
    <3>1. CASE event.kind = "resize"
      BY <1>3, <2>1, <2>3, <3>1 DEF Announced
    <3>2. CASE event.kind # "resize"
      <4>1. Resizes' = Resizes
        BY <2>3, <3>2
      <4>2. UNCHANGED <<pc, rows, size, signalled>> /\ \A i \in Resizes : queue'[i] = queue[i]
        BY <1>3, <2>1, <2>3, <3>2
      <4> QED BY <4>1, <4>2, Zenon DEF Announced
    <3> QED BY <3>1, <3>2
  <2>5. SizeCurrent' => SizeCurrent
    BY <2>1, <2>3 DEF SizeCurrent
  <2> QED BY <2>1, <2>4, <2>5 DEF Repaired, Controls
<1>4. ASSUME ResizeArrives \/ MouseArrives PROVE Announced' /\ Repaired'
  <2>1. CASE ResizeArrives
    <3>1. Arrives([kind |-> "resize", at |-> size]) /\ signalled
      BY <2>1 DEF ResizeArrives
    <3> DEFINE event == [kind |-> "resize", at |-> size]
    <3>2. event.kind = "resize" /\ event.at = size /\ Arrives(event)
      BY <3>1
    <3> HIDE DEF event
    <3> QED BY <1>3, <3>1, <3>2
  <2>2. CASE MouseArrives
    <3>1. PICK cell \in 0..(size - 1) : Arrives([kind |-> "mouse", at |-> cell])
      BY <2>2 DEF MouseArrives
    <3> DEFINE event == [kind |-> "mouse", at |-> cell]
    <3>2. event.kind # "resize" /\ Arrives(event) /\ UNCHANGED signalled
      BY <2>2, <3>1 DEF MouseArrives
    <3> HIDE DEF event
    <3> QED BY <1>3, <3>2
  <2> QED BY <1>4, <2>1, <2>2
<1>5. ASSUME OpenAddressBar \/ ZoomRefused \/ EditAddressBar PROVE Announced' /\ Repaired'
  <2>1. /\ pc = "select" /\ pc' = "select" /\ DrawControls /\ coalesced' = coalesced
        /\ UNCHANGED <<rows, previous, size, arrivals>>
    BY <1>5 DEF OpenAddressBar, ZoomRefused, EditAddressBar, Handled
  <2>2. Announced' /\ SizeCurrent' = SizeCurrent
    BY <2>1, SameSizes
  <2>3. SizeCurrent => shown' = shown /\ bottom' = Controls'
    BY <2>1 DEF SizeCurrent, DrawControls
  <2> QED BY <2>1, <2>2, <2>3 DEF Repaired
<1>6. ASSUME Zoom \/ CancelAddressBar \/ SubmitAddress \/ Recover PROVE Announced' /\ Repaired'
  <2>1. pc = "select" /\ pc' = "render" /\ previous' = Nothing /\ UNCHANGED <<rows, size, arrivals>>
    BY <1>6 DEF Zoom, CommitZoom, CancelAddressBar, SubmitAddress, CloseAddressBar, Recover, HandledAndRender
  <2> QED BY <2>1, SameSizes DEF Repaired
<1>7. ASSUME Reload \/ ForwardKey \/ ForwardPasteOrFocus PROVE Announced' /\ Repaired'
  <2>1. /\ pc = "select" /\ pc' = "render"
        /\ UNCHANGED <<address_bar, rows, previous, size, display, arrivals>>
    BY <1>7 DEF Reload, ForwardKey, ForwardPasteOrFocus, Forwarded, HandledAndRender
  <2> QED BY <2>1, SameSizes DEF Repaired, Controls
<1>8. ASSUME ForwardMouse PROVE Announced' /\ Repaired'
  <2>1. /\ Taken("mouse") /\ pc = "select" /\ pc' \in {"render", "CellOutOfBounds"}
        /\ UNCHANGED <<address_bar, rows, previous, size, display>>
    BY <1>8 DEF ForwardMouse, Taken, Forwarded, Failed
  <2>2. Announced' /\ (SizeCurrent' => SizeCurrent)
    BY <2>1, TakenAnnounced
  <2> QED BY <2>1, <2>2 DEF Repaired, Controls
<1>9. ASSUME Resize PROVE Announced' /\ Repaired'
  <2> DEFINE next == Head(queue).at
  <2>1. \/ pc' = "error"
        \/ /\ pc' = "render" /\ rows' = next
           /\ previous' = IF previous # Nothing /\ previous.rows # next THEN Nothing ELSE previous
           /\ UNCHANGED <<address_bar, size, display>>
    BY <1>9 DEF Resize, Failed, CommitResize, HandledAndRender
  <2>2. CASE pc' = "error"
    BY <2>2 DEF Announced, Repaired
  <2>3. CASE /\ pc' = "render" /\ rows' = next
             /\ previous' = IF previous # Nothing /\ previous.rows # next THEN Nothing ELSE previous
             /\ UNCHANGED <<address_bar, size, display>>
    <3>1. Taken("resize") /\ pc = "select"
      BY <1>9 DEF Resize, Taken
    <3>2. Announced' /\ (SizeCurrent' => SizeCurrent \/ (rows # size /\ rows' = size))
      BY <2>3, <3>1, TakenAnnounced
    <3>3. previous # Nothing => previous.rows = rows
      BY DEF IInv, Baseline, GeometryAgrees
    <3>4. CASE SizeCurrent' /\ SizeCurrent
      <4>1. rows' = rows /\ previous' = previous
        BY <2>3, <3>3, <3>4 DEF SizeCurrent
      <4> QED BY <2>3, <3>1, <3>2, <3>4, <4>1 DEF Repaired, Controls
    <3>5. CASE rows # size /\ rows' = size
      <4>1. previous' = Nothing
        BY <2>3, <3>3, <3>5
      <4> QED BY <2>3, <3>2, <4>1 DEF Repaired
    <3> QED BY <3>2, <3>4, <3>5 DEF Repaired
  <2> QED BY <2>1, <2>2, <2>3
<1>10. ASSUME Render PROVE Announced' /\ Repaired'
  <2>1. pc = "render" /\ pc' = "select" /\ UNCHANGED <<address_bar, rows, size, arrivals>>
    BY <1>10 DEF Render
  <2>2. Announced' /\ SizeCurrent' = SizeCurrent
    BY <2>1, SameSizes
  <2>3. Screenshot \in Surface /\ Screenshot # Nothing
    BY SurfaceIsSomething DEF Screenshot, Surface, IInv, Shape, Numbers
  <2>4. CASE UNCHANGED <<previous, display>> /\ Screenshot = previous
    BY <2>1, <2>2, <2>3, <2>4 DEF Repaired, Controls
  <2>5. CASE Write(Screenshot)
    <3> SUFFICES ASSUME SizeCurrent, ~coalesced' PROVE Repaired'
      BY <2>2 DEF Repaired
    <3>1. size = rows /\ size = frame_rows
      BY DEF SizeCurrent, IInv, GeometryAgrees
    <3>2. FullRedraw \/ shown = previous
      BY <2>1, <2>5 DEF Write, FullRedraw, Repaired
    <3>3. shown' = Screenshot /\ previous' = Screenshot /\ bottom' = Controls
      BY <2>5, <3>1, <3>2 DEF Write
    <3> QED BY <2>1, <2>3, <3>3 DEF Repaired, Controls
  <2> QED BY <1>10, <2>2, <2>4, <2>5 DEF Render
<1>11. ASSUME End PROVE Announced' /\ Repaired'
  BY <1>11 DEF End, Failed, Announced, Repaired
<1>12. ASSUME UNCHANGED vars PROVE Announced' /\ Repaired'
  <2>1. Resizes' = Resizes
    BY <1>12 DEF vars, Resizes
  <2> QED BY <1>12, <2>1 DEF vars, Announced, Repaired, SizeCurrent, Controls
<1> QED
  BY <1>1, <1>2, <1>4, <1>5, <1>6, <1>7, <1>8, <1>9, <1>10, <1>11, <1>12
     DEF Next, Environment, Key, Other

\* When the session waits and has been told of every resize, the terminal shows
\* the baseline whole with the controls below it, unless resizes shared a signal
\* and nothing was drawn whole since (apply_resize, resize_controlled,
\* render_current_frame_with_controls).
THEOREM ResizesAreRepaired == Spec => []ScreenComplete
<1>1. Announced /\ Repaired => ScreenComplete
  <2> SUFFICES ASSUME Announced, Repaired, pc = "select", ~ResizeInFlight, ~coalesced
               PROVE  shown = previous /\ shown # Nothing /\ bottom = Controls
    BY DEF ScreenComplete
  <2>1. Resizes = {} /\ ~signalled
    BY DEF ResizeInFlight, Resizes
  <2>2. SizeCurrent
    BY <2>1 DEF Announced, SizeCurrent
  <2> QED BY <2>2 DEF Repaired
<1>2. Spec => [](Announced /\ Repaired)
  BY InitIInv, StepKeepsIInv, InitRepaired, StepKeepsRepaired, PTL DEF Spec
<1> QED BY <1>1, <1>2, PTL
-----------------------------------------------------------------------------
(* Which mouse events fall outside the geometry. *)

LEMMA InitMouse == Init => MouseWasOnTerminal
BY DEF Init, MouseWasOnTerminal

LEMMA MouseFrame ==
  ASSUME MouseWasOnTerminal, UNCHANGED <<size, arrivals>>, pc \in {"select", "render"}
  PROVE  MouseWasOnTerminal'
BY DEF MouseWasOnTerminal, Resizes

LEMMA TakenMouse ==
  ASSUME IInv, MouseWasOnTerminal, NEW kind, Taken(kind), size' = size
  PROVE  MouseWasOnTerminal'
<1>1. /\ pc = "select" /\ queue # << >> /\ queue' = Tail(queue) /\ signalled' = signalled /\ queue \in Seq(Event)
  BY DEF Taken, IInv, Arrived
<1>2. /\ \A i \in DOMAIN queue' : i \in Nat /\ i >= 1 /\ i + 1 \in DOMAIN queue /\ queue'[i] = queue[i + 1]
      /\ \A i \in DOMAIN queue : i \in Nat /\ i >= 1 /\ (i # 1 => i - 1 \in DOMAIN queue' /\ queue'[i - 1] = queue[i])
  BY <1>1, QueueTail
<1> SUFFICES ASSUME NEW i \in DOMAIN queue', queue'[i].kind = "mouse", ~(queue'[i].at < size), ~signalled
             PROVE  \E j \in Resizes' : i < j
  BY <1>1 DEF MouseWasOnTerminal
<1>3. i \in Nat /\ i >= 1 /\ i + 1 \in DOMAIN queue /\ queue'[i] = queue[i + 1]
  BY <1>2
<1>4. PICK k \in Resizes : i + 1 < k
  BY <1>1, <1>3 DEF MouseWasOnTerminal
<1>5. k \in DOMAIN queue /\ queue[k].kind = "resize" /\ k \in Nat
  BY <1>2 DEF Resizes
<1>6. k # 1 /\ i < k - 1
  BY <1>3, <1>4, <1>5
<1>7. k - 1 \in Resizes'
  BY <1>2, <1>5, <1>6 DEF Resizes
<1> QED BY <1>6, <1>7

LEMMA StepKeepsMouse == IInv /\ MouseWasOnTerminal /\ [Next]_vars => MouseWasOnTerminal'
<1> SUFFICES ASSUME IInv, MouseWasOnTerminal, [Next]_vars PROVE MouseWasOnTerminal'
  OBVIOUS
<1>1. CASE TerminalResized
  BY <1>1 DEF TerminalResized, MouseWasOnTerminal
<1>2. ASSUME NEW event, Arrives(event), UNCHANGED signalled \/ event.kind = "resize",
             event.kind = "mouse" => event.at < size, event.kind \in {"mouse", "resize"}
      PROVE  MouseWasOnTerminal'
  <2>1. /\ pc \in {"select", "render"} /\ queue \in Seq(Event) /\ queue' = Append(queue, event) /\ size' = size
    BY <1>2 DEF Arrives, IInv, Arrived
  <2> DEFINE last == Len(queue) + 1
  <2>2. /\ last \in DOMAIN queue' /\ queue'[last] = event
        /\ \A i \in DOMAIN queue : i \in DOMAIN queue' /\ queue'[i] = queue[i] /\ i < last
        /\ \A i \in DOMAIN queue' : i = last \/ i \in DOMAIN queue
    BY <2>1
  <2> HIDE DEF last
  <2>3. Resizes \subseteq Resizes' /\ (event.kind = "resize" => last \in Resizes')
    BY <2>2 DEF Resizes
  <2> SUFFICES ASSUME NEW i \in DOMAIN queue', queue'[i].kind = "mouse", ~(queue'[i].at < size), ~signalled'
               PROVE  \E j \in Resizes' : i < j
    BY <2>1 DEF MouseWasOnTerminal
  <2>4. i \in DOMAIN queue /\ queue'[i] = queue[i] /\ i < last
    BY <1>2, <2>2
  <2>5. CASE event.kind = "resize"
    BY <2>3, <2>4, <2>5
  <2>6. CASE UNCHANGED signalled
    BY <2>1, <2>3, <2>4, <2>6 DEF MouseWasOnTerminal
  <2> QED BY <1>2, <2>5, <2>6
<1>3. CASE ResizeArrives
  <2> DEFINE event == [kind |-> "resize", at |-> size]
  <2>1. event.kind = "resize" /\ Arrives(event)
    BY <1>3 DEF ResizeArrives
  <2> HIDE DEF event
  <2> QED BY <1>2, <2>1
<1>4. CASE MouseArrives
  <2>1. PICK cell \in 0..(size - 1) : Arrives([kind |-> "mouse", at |-> cell])
    BY <1>4 DEF MouseArrives
  <2> DEFINE event == [kind |-> "mouse", at |-> cell]
  <2>2. size \in Nat
    BY ConstantsAssumption DEF IInv, Shape
  <2>3. event.kind = "mouse" /\ event.at < size /\ Arrives(event) /\ UNCHANGED signalled
    BY <1>4, <2>1, <2>2 DEF MouseArrives
  <2> HIDE DEF event
  <2> QED BY <1>2, <2>3
<1>5. CASE PageChanges \/ Key \/ ForwardPasteOrFocus \/ Render \/ Recover
  <2>1. UNCHANGED <<size, arrivals>> /\ pc \in {"select", "render"}
    BY <1>5 DEF PageChanges, Key, OpenAddressBar, ZoomRefused, Zoom, Reload, ForwardKey, EditAddressBar,
                CancelAddressBar, SubmitAddress, ForwardPasteOrFocus, Render, Recover, Handled,
                HandledAndRender, Forwarded
  <2> QED BY <2>1, MouseFrame
<1>6. CASE ForwardMouse
  BY <1>6, TakenMouse DEF ForwardMouse, Forwarded, Failed
<1>7. CASE Resize
  BY <1>7, TakenMouse DEF Resize, HandledAndRender, Failed
<1>8. CASE End
  BY <1>8 DEF End, Failed, MouseWasOnTerminal
<1>9. CASE UNCHANGED vars
  BY <1>9 DEF vars, MouseWasOnTerminal, Resizes
<1> QED BY <1>1, <1>3, <1>4, <1>5, <1>6, <1>7, <1>8, <1>9 DEF Next, Environment, Other

\* A mouse event falls outside the geometry, which ends the session, only while a
\* resize is on its way (cell_center, handle_terminal_event).
THEOREM ClicksMissOnlyInARace == Spec => OutOfBoundsOnlyInARace
<1> DEFINE Race == pc' = "CellOutOfBounds" /\ pc # pc' => ResizeInFlight
<1>1. IInv /\ Announced /\ MouseWasOnTerminal /\ [Next]_vars => [Race]_vars
  <2> SUFFICES ASSUME IInv, Announced, MouseWasOnTerminal, Next, pc' = "CellOutOfBounds", pc # pc', ~ResizeInFlight
               PROVE  FALSE
    OBVIOUS
  <2>1. ForwardMouse
    BY DEF Next, Environment, Key, Other, PageChanges, TerminalResized, ResizeArrives, MouseArrives, Arrives,
           OpenAddressBar, ZoomRefused, Zoom, Reload, ForwardKey, EditAddressBar, CancelAddressBar,
           SubmitAddress, ForwardPasteOrFocus, Resize, Render, Recover, End, Handled, HandledAndRender,
           Forwarded, Failed
  <2>2. /\ pc = "select" /\ queue # << >> /\ Head(queue).kind = "mouse" /\ ~CellOnBoard(Head(queue).at)
        /\ queue \in Seq(Event) /\ Head(queue) \in Event
    BY <2>1 DEF ForwardMouse, Taken, Forwarded, IInv, Arrived
  <2>3. 1 \in DOMAIN queue /\ queue[1] = Head(queue)
    BY <2>2
  <2>4. Resizes = {} /\ ~signalled
    BY DEF ResizeInFlight, Resizes
  <2>5. rows = size
    BY <2>2, <2>4 DEF Announced
  <2>6. Head(queue).at < size
    BY <2>2, <2>3, <2>4 DEF MouseWasOnTerminal
  <2>7. input.rows = rows
    BY DEF IInv, GeometryAgrees
  <2> QED BY <2>2, <2>5, <2>6, <2>7 DEF CellOnBoard
<1>2. Spec => [](IInv /\ Announced /\ MouseWasOnTerminal)
  BY InitIInv, StepKeepsIInv, InitRepaired, StepKeepsRepaired, InitMouse, StepKeepsMouse, PTL DEF Spec
<1> QED BY <1>1, <1>2, PTL DEF Spec, OutOfBoundsOnlyInARace
=============================================================================
