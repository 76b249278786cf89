------------------------- MODULE InteractiveTerminal -------------------------
(***************************************************************************)
(* What an interactive session shows, and where its input goes:            *)
(* ExternalInteractiveState, handle_address_input, apply_resize,           *)
(* apply_zoom and render_current_frame_with_controls in                    *)
(* apps/termglide/src/external_interactive.rs, with the baseline of        *)
(* ExternalFrameSequence in crates/tg-terminal/src/external_frame.rs.      *)
(*                                                                         *)
(* The program writes differences against the last frame it wrote, and the *)
(* bottom row over them; the terminal may be resized, and lose its         *)
(* contents, at any time.  It learns of that by a signal, and reads the    *)
(* size when it gets to it.  The page changes by itself.  Columns and rows *)
(* behave alike: one dimension stands for both.                            *)
(***************************************************************************)
EXTENDS Integers, Sequences

CONSTANTS
  Sizes,         \* rows a terminal may have
  Viewports,     \* viewports a session may start with
  Samples,       \* vertical_samples of the backend
  MaxViewport,   \* MAX_VIEWPORT_DIMENSION, scaled down
  Pages,         \* what the page may look like
  Nothing,       \* no frame
  MaxBuffer,     \* bound: characters typed into the address bar
  MaxQueue       \* bound: events read from the terminal and not yet taken

ASSUME ConstantsAssumption ==
  /\ Sizes \subseteq Nat \ {0}
  /\ MaxViewport \in Nat
  /\ Viewports \subseteq 1..MaxViewport
  /\ Samples \in {2, 4}
  /\ Nothing \notin [page : Pages, rows : Nat, viewport : Nat]
  /\ MaxBuffer \in Nat
  /\ MaxQueue \in Nat

VARIABLES
  pc,                 \* "render", "select" or how the session ended
  address_bar_active,
  address_bar_buffer, \* its length
  rows,               \* state.rows
  viewport,           \* state.viewport
  launch_viewport,    \* state.launch_options.viewport
  layout_density,     \* "none" for None
  input,              \* geometry of the input adapter
  frame_rows,         \* rows of the frame adapter
  previous,           \* the frame written last, the baseline of the next
  page,               \* what Chrome would draw
  metrics,            \* the viewport Chrome was told
  size,               \* rows of the terminal
  shown,              \* the frame it shows, Nothing when it shows none whole
  bottom,             \* its last row
  coalesced,          \* history: it was resized again under a pending signal, and not redrawn
  signalled,          \* SIGWINCH is pending
  queue               \* events read from the terminal

address_bar == <<address_bar_active, address_bar_buffer>>
geometry    == <<rows, viewport, launch_viewport, layout_density, input, frame_rows>>
display     == <<shown, bottom, coalesced>>
arrivals    == <<signalled, queue>>
vars == <<pc, address_bar, geometry, previous, page, metrics, size, display, arrivals>>

Surface  == [page : Pages, rows : Sizes, viewport : 1..MaxViewport]
Geometry == [rows : Sizes, viewport : 1..MaxViewport]
Event    == [kind : {"resize"}, at : Sizes] \cup [kind : {"mouse"}, at : Nat]

-----------------------------------------------------------------------------
(* Layout: how many CSS pixels a number of cells stands for. *)

Densities == {"Readable", "Balanced", "Overview"}
Ratio     == [Readable |-> <<1, 1>>, Balanced |-> <<3, 2>>, Overview |-> <<2, 1>>]
ZoomIn    == [Readable |-> "none", Balanced |-> "Readable", Overview |-> "Balanced", none |-> "none"]
ZoomOut   == [Readable |-> "Balanced", Balanced |-> "Overview", Overview |-> "none", none |-> "none"]

LayoutDimension(cells, density) ==
  (cells * Samples * Ratio[density][1] + Ratio[density][2] - 1) \div Ratio[density][2]

InferDensity(dimension, cells) ==
  IF \E density \in Densities : dimension = LayoutDimension(cells, density)
  THEN CHOOSE density \in Densities : dimension = LayoutDimension(cells, density)
  ELSE "none"

ScaledDimension(dimension, cells, next) == (dimension * next + cells \div 2) \div cells

ResizedViewport(next) ==
  IF layout_density = "none"
  THEN ScaledDimension(viewport, rows, next)
  ELSE LayoutDimension(next, layout_density)

-----------------------------------------------------------------------------
(* The bottom row. *)

Row      == [shows : {"status", "garbled"}, length : {0}] \cup [shows : {"bar"}, length : Nat]
Garbled  == [shows |-> "garbled", length |-> 0]
Controls == IF address_bar_active
            THEN [shows |-> "bar", length |-> address_bar_buffer]
            ELSE [shows |-> "status", length |-> 0]

Mut_DrawOldControls ==
  /\ bottom' = IF size = rows THEN Controls ELSE Garbled
  /\ shown' = IF size = rows THEN shown ELSE Nothing

\* The row is addressed by its number: with another number of rows it is not the last.
DrawControls ==
  /\ bottom' = IF size = rows THEN Controls' ELSE Garbled
  /\ shown' = IF size = rows THEN shown ELSE Nothing

Init ==
  /\ pc = "render"
  /\ address_bar_active = FALSE
  /\ address_bar_buffer = 0
  /\ rows \in Sizes
  /\ viewport \in Viewports
  /\ launch_viewport = viewport
  /\ layout_density = InferDensity(viewport, rows)
  /\ input = [rows |-> rows, viewport |-> viewport]
  /\ frame_rows = rows
  /\ previous = Nothing
  /\ page \in Pages
  /\ metrics = viewport
  /\ size = rows
  /\ shown = Nothing
  /\ bottom = Garbled
  /\ coalesced = FALSE
  /\ signalled = FALSE
  /\ queue = << >>

-----------------------------------------------------------------------------
(* The page, the terminal and the user's mouse. *)

PageChanges ==
  /\ pc \in {"select", "render"}
  /\ page' \in Pages \ {page}
  /\ UNCHANGED <<pc, address_bar, geometry, previous, metrics, size, display, arrivals>>

\* A resized terminal keeps nothing the program can rely on.  One signal may
\* stand for several resizes.
TerminalResized ==
  /\ pc \in {"select", "render"}
  /\ size' \in Sizes \ {size}
  /\ shown' = Nothing
  /\ bottom' = Garbled
  /\ coalesced' = (coalesced \/ signalled)
  /\ signalled' = TRUE
  /\ UNCHANGED <<pc, address_bar, geometry, previous, page, metrics, queue>>

Arrives(event) ==
  /\ pc \in {"select", "render"}
  /\ Len(queue) < MaxQueue
  /\ queue' = Append(queue, event)
  /\ UNCHANGED <<pc, address_bar, geometry, previous, page, metrics, size, display>>

\* The event stream reads the size when it handles the signal.
ResizeArrives ==
  /\ signalled
  /\ signalled' = FALSE
  /\ Arrives([kind |-> "resize", at |-> size])

MouseArrives ==
  /\ \E cell \in 0..(size - 1) : Arrives([kind |-> "mouse", at |-> cell])
  /\ UNCHANGED signalled

-----------------------------------------------------------------------------
(* How a handler ends. *)

Handled ==
  /\ pc' = "select"
  /\ DrawControls
  /\ UNCHANGED <<size, coalesced>>

HandledAndRender ==
  /\ pc' = "render"
  /\ UNCHANGED <<size, display>>

Forwarded ==
  /\ pc' = "render"
  /\ page' \in Pages
  /\ UNCHANGED <<size, display>>

\* Every error of a handler is returned by run_loop.
Failed(how) ==
  /\ pc' = how
  /\ UNCHANGED <<address_bar, geometry, previous, page, metrics, size, display>>

-----------------------------------------------------------------------------
(* Keys while the address bar is closed. *)

OpenAddressBar ==
  /\ pc = "select"
  /\ ~address_bar_active
  /\ address_bar_active' = TRUE
  /\ address_bar_buffer' = 0
  /\ UNCHANGED <<geometry, previous, page, metrics, arrivals>>
  /\ Handled

\* Nothing to zoom to: handle_address_input returns Handled.
ZoomRefused ==
  /\ pc = "select"
  /\ ~address_bar_active
  /\ \E zoom \in {ZoomIn, ZoomOut} : zoom[layout_density] = "none"
  /\ UNCHANGED <<address_bar, geometry, previous, page, metrics, arrivals>>
  /\ Handled

Mut_ZoomForgetsInput(density) ==
  /\ viewport' = LayoutDimension(rows, density)
  /\ launch_viewport' = viewport'
  /\ layout_density' = density
  /\ previous' = Nothing
  /\ UNCHANGED <<rows, frame_rows, input>>

CommitZoom(density) ==
  /\ viewport' = LayoutDimension(rows, density)
  /\ launch_viewport' = viewport'
  /\ input' = [rows |-> rows, viewport |-> viewport']
  /\ layout_density' = density
  /\ previous' = Nothing
  /\ UNCHANGED <<rows, frame_rows>>

Zoom ==
  /\ pc = "select"
  /\ ~address_bar_active
  /\ \E zoom \in {ZoomIn, ZoomOut} :
       LET density == zoom[layout_density] IN
         /\ density # "none"
         /\ LayoutDimension(rows, density) \in 1..MaxViewport
         /\ metrics' = LayoutDimension(rows, density)
         /\ CommitZoom(density)
  /\ HandledAndRender
  /\ UNCHANGED <<address_bar, page, arrivals>>

Reload ==
  /\ pc = "select"
  /\ ~address_bar_active
  /\ page' \in Pages
  /\ HandledAndRender
  /\ UNCHANGED <<address_bar, geometry, previous, metrics, arrivals>>

\* Any other key press; and repeats and releases of every key, those of "g",
\* "l", "+" and "-" included.
ForwardKey ==
  /\ pc = "select"
  /\ ~address_bar_active
  /\ Forwarded
  /\ UNCHANGED <<address_bar, geometry, previous, metrics, arrivals>>

-----------------------------------------------------------------------------
(* Keys while it is open. *)

\* A character, a deletion, or a key that edits nothing.
EditAddressBar ==
  /\ pc = "select"
  /\ address_bar_active
  /\ address_bar_buffer' \in (0..MaxBuffer) \cap
       {address_bar_buffer - 1, address_bar_buffer, address_bar_buffer + 1}
  /\ UNCHANGED <<address_bar_active, geometry, previous, page, metrics, arrivals>>
  /\ Handled

Mut_CloseKeepsBaseline ==
  /\ address_bar_active' = FALSE
  /\ address_bar_buffer' = 0
  /\ UNCHANGED previous

\* invalidate_address_bar_overlay: the next frame is written whole.
CloseAddressBar ==
  /\ address_bar_active' = FALSE
  /\ address_bar_buffer' = 0
  /\ previous' = Nothing

CancelAddressBar ==
  /\ pc = "select"
  /\ address_bar_active
  /\ CloseAddressBar
  /\ HandledAndRender
  /\ UNCHANGED <<geometry, page, metrics, arrivals>>

\* An empty address navigates nowhere.
SubmitAddress ==
  /\ pc = "select"
  /\ address_bar_active
  /\ CloseAddressBar
  /\ IF address_bar_buffer = 0 THEN UNCHANGED page ELSE page' \in Pages
  /\ HandledAndRender
  /\ UNCHANGED <<geometry, metrics, arrivals>>

-----------------------------------------------------------------------------
(* Everything else a terminal sends. *)

\* Pasted text and focus changes, whatever the address bar is.
ForwardPasteOrFocus ==
  /\ pc = "select"
  /\ Forwarded
  /\ UNCHANGED <<address_bar, geometry, previous, metrics, arrivals>>

Taken(kind) ==
  /\ pc = "select"
  /\ queue # << >>
  /\ Head(queue).kind = kind
  /\ queue' = Tail(queue)
  /\ UNCHANGED signalled

Mut_CellOnBoard(cell) == cell + 1 < input.rows

\* ExternalInputGeometry::cell_center
CellOnBoard(cell) == cell < input.rows

ForwardMouse ==
  /\ Taken("mouse")
  /\ IF CellOnBoard(Head(queue).at)
     THEN /\ Forwarded
          /\ UNCHANGED <<address_bar, geometry, previous, metrics>>
     ELSE Failed("CellOutOfBounds")

Mut_ResizeKeepsFrameRows(next) ==
  /\ rows' = next
  /\ UNCHANGED <<frame_rows, layout_density>>
  /\ viewport' = ResizedViewport(next)
  /\ launch_viewport' = viewport'
  /\ input' = [rows |-> next, viewport |-> viewport']
  /\ previous' = IF previous # Nothing /\ previous.rows # next THEN Nothing ELSE previous

\* The baseline is dropped when it is of another size.
CommitResize(next) ==
  /\ rows' = next
  /\ frame_rows' = next
  /\ viewport' = ResizedViewport(next)
  /\ launch_viewport' = viewport'
  /\ input' = [rows |-> next, viewport |-> viewport']
  /\ previous' = IF previous # Nothing /\ previous.rows # next THEN Nothing ELSE previous
  /\ UNCHANGED layout_density

Resize ==
  /\ Taken("resize")
  /\ LET next == Head(queue).at IN
       IF ResizedViewport(next) \in 1..MaxViewport
       THEN /\ metrics' = ResizedViewport(next)
            /\ CommitResize(next)
            /\ HandledAndRender
            /\ UNCHANGED <<address_bar, page>>
       ELSE Failed("error")

-----------------------------------------------------------------------------
(* Rendering, recovery and the end. *)

Screenshot == [page |-> page, rows |-> frame_rows, viewport |-> metrics]

FullRedraw == previous = Nothing \/ previous.rows # frame_rows

\* A difference only makes sense to a terminal that shows the baseline.
Write(frame) ==
  /\ previous' = frame
  /\ shown' = IF size = frame_rows /\ (FullRedraw \/ shown = previous) THEN frame ELSE Nothing
  /\ bottom' = IF size = rows THEN Controls ELSE Garbled
  /\ coalesced' = (coalesced /\ ~FullRedraw)

\* An identical frame writes nothing, the bottom row included.
Render ==
  /\ pc = "render"
  /\ IF Screenshot = previous THEN UNCHANGED <<previous, display>> ELSE Write(Screenshot)
  /\ pc' = "select"
  /\ UNCHANGED <<address_bar, geometry, page, metrics, size, arrivals>>

\* Chrome exited and another one was configured: recover_if_browser_exited.
Recover ==
  /\ pc = "select"
  /\ metrics' = viewport
  /\ page' \in Pages
  /\ previous' = Nothing
  /\ HandledAndRender
  /\ UNCHANGED <<address_bar, geometry, arrivals>>

\* A quit, a cancellation or an error of any await ends the session.
End ==
  /\ pc \in {"select", "render"}
  /\ \E how \in {"quit", "error"} : Failed(how)
  /\ UNCHANGED arrivals

-----------------------------------------------------------------------------

Environment == PageChanges \/ TerminalResized \/ ResizeArrives \/ MouseArrives
Key   == OpenAddressBar \/ ZoomRefused \/ Zoom \/ Reload \/ ForwardKey
           \/ EditAddressBar \/ CancelAddressBar \/ SubmitAddress
Other == ForwardPasteOrFocus \/ ForwardMouse \/ Resize

Next == Environment \/ Key \/ Other \/ Render \/ Recover \/ End

Spec == Init /\ [][Next]_vars

-----------------------------------------------------------------------------

\* The state has its declared shape.
TypeOK ==
  /\ pc \in {"render", "select", "quit", "error", "CellOutOfBounds"}
  /\ address_bar_active \in BOOLEAN
  /\ address_bar_buffer \in 0..MaxBuffer
  /\ rows \in Sizes
  /\ viewport \in 1..MaxViewport
  /\ launch_viewport \in 1..MaxViewport
  /\ layout_density \in Densities \cup {"none"}
  /\ input \in Geometry
  /\ frame_rows \in Sizes
  /\ previous \in Surface \cup {Nothing}
  /\ page \in Pages
  /\ metrics \in 1..MaxViewport
  /\ size \in Sizes
  /\ shown \in Surface \cup {Nothing}
  /\ bottom \in Row
  /\ coalesced \in BOOLEAN
  /\ signalled \in BOOLEAN
  /\ queue \in Seq(Event)

\* The five places that keep the geometry agree whenever the session waits or
\* draws, through resizes, zooms and recoveries in any order, and a viewport
\* with a density is exactly what the layout gives the current size.
GeometryAgrees ==
  /\ rows = frame_rows
  /\ input = [rows |-> rows, viewport |-> viewport]
  /\ metrics = viewport
  /\ launch_viewport = viewport
  /\ layout_density # "none" => viewport = LayoutDimension(rows, layout_density)

\* Whenever the session waits, the frame on the terminal, if it shows one whole,
\* is the one the next difference is computed against, and its last row shows
\* the address bar exactly while keys go there.
ScreenIsBaseline ==
  pc = "select" => /\ shown \in {Nothing, previous}
                   /\ bottom \in {Garbled, Controls}

\* A mouse event is translated with the geometry of the frame the user sees.
ClicksHitWhatIsShown ==
  pc = "select" /\ shown # Nothing => input = [rows |-> shown.rows, viewport |-> shown.viewport]

ResizeInFlight ==
  signalled \/ \E i \in DOMAIN queue : queue[i].kind = "resize"

\* A mouse event only falls outside the geometry, which ends the session, in a
\* race with a resize the session has not been told of.
OutOfBoundsOnlyInARace ==
  [][pc' = "CellOutOfBounds" /\ pc # pc' => ResizeInFlight]_vars

\* Once every resize was taken and the frame drawn, the terminal shows it whole,
\* with the controls below, although the terminal, the page and the address bar
\* changed in between.  Resizes that share a signal are the exception: a terminal
\* resized away and back has the size of the baseline, which resize_controlled
\* then keeps.
ScreenComplete ==
  pc = "select" /\ ~ResizeInFlight /\ ~coalesced =>
    shown = previous /\ shown # Nothing /\ bottom = Controls
=============================================================================
