--------------------------- MODULE FrameSequence ---------------------------
(***************************************************************************)
(* Screenshots turned into differences between rows of cells:              *)
(* ExternalFrameSequence in crates/tg-terminal/src/external_frame.rs, with *)
(* the counter of ExternalInteractiveFrameAdapter in                       *)
(* apps/termglide/src/external_interactive.rs that numbers them.           *)
(*                                                                         *)
(* A push checks the generation, decodes and composes the screenshot,      *)
(* projects it to cells, takes the difference to the last row accepted and *)
(* keeps the new one as the next baseline.  It may fail, or find itself    *)
(* cancelled, at each of these; the terminal may be resized or overdrawn   *)
(* meanwhile.  The caller writes what a push returns before it pushes      *)
(* again, and answers a resize or an overdrawn row with the call meant for *)
(* it.                                                                     *)
(***************************************************************************)
EXTENDS CellDiff

CONSTANTS
  MaxColumns,     \* bound: columns of the terminal
  MaxGeneration,  \* u64::MAX, scaled down
  MaxOperations,  \* sequence_limits.max_operations
  Colors,         \* opaque colors
  Nothing         \* None, of an Option

Pixels == Colors \cup {"clear"}
Frames == UNION {[1..columns -> Pixels] : columns \in 1..MaxColumns}
Stages == {"base64", "png", "project", "diff"}
Push   == [generation : Nat \cup {Nothing}, frame : Frames, stage : Stages]

ASSUME FramesAssumption ==
  /\ MaxColumns \in Nat \ {0}
  /\ MaxGeneration \in Nat \ {0}
  /\ MaxOperations \in Nat \ {0}
  /\ Nothing \notin Nat \cup Push

VARIABLES
  previous,            \* the last row accepted, the baseline
  latest_generation,
  terminal_background,
  issued_generation,
  options,             \* the terminal's capabilities and the backend asked for
  push,                \* the push in progress
  outcome,             \* of the last push
  accepted,            \* history: what the row in previous was made from
  output,              \* operations returned and not yet written
  terminal,            \* its row, column and style
  disturbance          \* whether, and how, others changed the terminal

sequence == <<previous, latest_generation, terminal_background>>
tty      == <<terminal, disturbance>>
frames_vars == <<sequence, issued_generation, options, push, outcome, accepted, output, tty>>

Generation == 0..MaxGeneration
Errors     == {"InvalidGeneration", "StaleGeneration", "CounterExhausted", "Transaction", "Frame",
               "UnsupportedCellBackend", "SequenceOperationLimit"}

\* from_environment: a dumb terminal has no colors.
Capabilities ==
  {c \in [color : {"TrueColor", "Monochrome"}, dumb : BOOLEAN] : c.dumb => c.color = "Monochrome"}

NoPush == push = Nothing

FramesInit ==
  /\ previous = Nothing
  /\ latest_generation = Nothing
  /\ terminal_background \in Colors
  /\ issued_generation = 0
  /\ options \in [capabilities : Capabilities, backend : {"Auto", "Cells", "Text"}]
  /\ push = Nothing
  /\ outcome = "none"
  /\ accepted = Nothing
  /\ output = <<>>
  /\ \E columns \in 1..MaxColumns : terminal = [row |-> Row(columns), column |-> 1, style |-> "default"]
  /\ disturbance = "no"

-----------------------------------------------------------------------------
(* Which backend a terminal gets. *)

CellBackends == {"Cells", "Halfblock", "Quadrant", "Braille"}

supports_backend(capabilities, backend) ==
  CASE backend \in {"Text", "Cells"}       -> TRUE
    [] backend \in {"Quadrant", "Braille"} -> ~capabilities.dumb
    [] backend = "Halfblock"               -> ~capabilities.dumb /\ capabilities.color = "TrueColor"
    [] OTHER                               -> FALSE

auto_backend(capabilities) ==
  CASE capabilities.dumb                  -> "Text"
    [] capabilities.color = "TrueColor"   -> "Halfblock"
    [] OTHER                              -> "Cells"

semantic_fallback(capabilities) ==
  IF supports_backend(capabilities, "Halfblock") THEN "Halfblock" ELSE "Cells"

select_safe_backend(capabilities, requested) ==
  LET backend == IF requested = "Auto" THEN auto_backend(capabilities) ELSE requested
  IN  IF supports_backend(capabilities, backend) THEN backend ELSE semantic_fallback(capabilities)

selected_backend == select_safe_backend(options.capabilities, options.backend)

-----------------------------------------------------------------------------
(* What a screenshot looks like in cells. *)

composite(pixel, background) == IF pixel = "clear" THEN background ELSE pixel

quantize(pixel, level) == IF level = "Monochrome" THEN "default" ELSE pixel

\* project_cells, and project_rgba_with_limits over it.
project(frame, backend, background, level) ==
  [column \in DOMAIN frame |->
     Cell(IF backend = "Halfblock" THEN "half" ELSE BlankText,
          quantize(composite(frame[column], background), level), 1)]

\* Only a push with a generation knows the terminal: one without composes over white.
Projection(frame, plain) ==
  IF plain
  THEN project(frame, options.backend, "white", "TrueColor")
  ELSE project(frame, selected_backend, terminal_background, options.capabilities.color)

candidate_row == Projection(push.frame, push.generation = Nothing)

-----------------------------------------------------------------------------
(* A push. *)

FailsWith(error) ==
  /\ push' = Nothing
  /\ outcome' = error
  /\ UNCHANGED <<sequence, accepted, output>>

\* What a push starts from: nothing left to write, and a terminal it knows.
Ready == NoPush /\ output = <<>> /\ disturbance = "no"

\* A screenshot comes as base64 or as the bytes of a PNG.
BeginWith(generation, frame) ==
  /\ \E stage \in {"base64", "png"} :
       push' = [generation |-> generation, frame |-> frame, stage |-> stage]
  /\ UNCHANGED <<sequence, outcome, accepted, output>>

validate_generation(generation) ==
  IF generation = 0 THEN "InvalidGeneration"
  ELSE IF latest_generation # Nothing /\ generation <= latest_generation THEN "StaleGeneration"
  ELSE "ok"

BeginGeneration(generation, frame) ==
  IF validate_generation(generation) # "ok" THEN FailsWith(validate_generation(generation))
  ELSE IF selected_backend \notin CellBackends THEN FailsWith("UnsupportedCellBackend")
  ELSE BeginWith(generation, frame)

\* The caller has frames of the terminal's size only.
Framing(frame) == Len(frame) = Len(terminal.row)

\* project_next_png_base64_controlled.
PushNext ==
  /\ Ready
  /\ \E frame \in Frames :
       /\ Framing(frame)
       /\ IF issued_generation = MaxGeneration
          THEN FailsWith("CounterExhausted") /\ UNCHANGED issued_generation
          ELSE /\ issued_generation' = issued_generation + 1
               /\ BeginGeneration(issued_generation + 1, frame)
  /\ UNCHANGED <<options, tty>>

\* A generation of the caller's own leaves the counter alone.
Mut_Issued(generation) == issued_generation

Issued(generation) == IF generation > issued_generation THEN generation ELSE issued_generation

\* project_png_base64_for_generation_controlled.
PushGeneration ==
  /\ Ready
  /\ \E frame \in Frames, generation \in Generation :
       /\ Framing(frame)
       /\ issued_generation' = Issued(generation)
       /\ BeginGeneration(generation, frame)
  /\ UNCHANGED <<options, tty>>

\* push_png_base64_controlled: no generation.
PushPlain ==
  /\ Ready
  /\ \E frame \in Frames :
       /\ Framing(frame)
       /\ BeginWith(Nothing, frame)
  /\ UNCHANGED <<issued_generation, options, tty>>

At(stage) == ~NoPush /\ push.stage = stage

Proceed(from, to) ==
  /\ At(from)
  /\ push' = [push EXCEPT !.stage = to]
  /\ UNCHANGED <<sequence, issued_generation, options, outcome, accepted, output, tty>>

\* A checkpoint of the control fails, or the step itself.
FailAt(stage) ==
  /\ At(stage)
  /\ \E error \in {"Transaction", "Frame"} : FailsWith(error)
  /\ UNCHANGED <<issued_generation, options, tty>>

\* The text is too long, or no base64.
DecodeBase64      == Proceed("base64", "png")
DecodeBase64Fails == FailAt("base64")

\* The image is too large, animated, of another format, or damaged to its last chunk.
DecodePng      == Proceed("png", "project")
DecodePngFails == FailAt("png")

\* Text and Auto are no backends to project to.
Project ==
  /\ push # Nothing /\ push.generation = Nothing => options.backend \in CellBackends
  /\ Proceed("project", "diff")
ProjectFails == FailAt("project")

Operations(next) ==
  IF previous = Nothing THEN full_redraw(next)
  ELSE IF previous = next THEN <<>>
  ELSE diff(previous, next)

\* The baseline kept before the encoder has accepted the operations.
Mut_EncodeFails ==
  /\ At("diff")
  /\ \E error \in {"Transaction", "Frame"} :
       /\ push' = Nothing
       /\ outcome' = error
       /\ previous' = candidate_row
       /\ UNCHANGED <<latest_generation, terminal_background, accepted, output>>
  /\ UNCHANGED <<issued_generation, options, tty>>

\* More bytes than allowed.
EncodeFails == FailAt("diff")

TooManyOperations ==
  /\ At("diff")
  /\ Len(Operations(candidate_row)) > MaxOperations
  /\ FailsWith("SequenceOperationLimit")
  /\ UNCHANGED <<issued_generation, options, tty>>

\* push_projection_controlled to its end, and the generation after it.
Accept ==
  /\ At("diff")
  /\ LET next == candidate_row IN
     /\ Len(Operations(next)) <= MaxOperations
     /\ output' = Operations(next)
     /\ previous' = next
     /\ latest_generation' = IF push.generation = Nothing THEN latest_generation ELSE push.generation
     /\ accepted' = [frame |-> push.frame, plain |-> push.generation = Nothing]
  /\ push' = Nothing
  /\ outcome' = "ok"
  /\ UNCHANGED <<terminal_background, issued_generation, options, tty>>

-----------------------------------------------------------------------------
(* The other calls: set_terminal_background, reset and resize. *)

\* Only the color is changed.
Mut_set_terminal_background ==
  /\ NoPush
  /\ \E background \in Colors \ {terminal_background} : terminal_background' = background
  /\ UNCHANGED <<previous, latest_generation, issued_generation, options, push, outcome, accepted,
                 output, tty>>

set_terminal_background ==
  /\ NoPush
  /\ \E background \in Colors \ {terminal_background} : terminal_background' = background
  /\ previous' = Nothing
  /\ UNCHANGED <<latest_generation, issued_generation, options, push, outcome, accepted, output, tty>>

reset ==
  /\ NoPush /\ output = <<>>
  /\ previous # Nothing \/ disturbance = "overdrawn"
  /\ previous' = Nothing
  /\ disturbance' = IF disturbance = "overdrawn" THEN "no" ELSE disturbance
  /\ UNCHANGED <<latest_generation, terminal_background, issued_generation, options, push, outcome,
                 accepted, output, terminal>>

resize ==
  /\ NoPush /\ output = <<>>
  /\ disturbance = "resized"
  /\ previous' = IF previous # Nothing /\ Len(previous) # Len(terminal.row) THEN Nothing ELSE previous
  /\ disturbance' = "no"
  /\ UNCHANGED <<latest_generation, terminal_background, issued_generation, options, push, outcome,
                 accepted, output, terminal>>

-----------------------------------------------------------------------------
(* The terminal. *)

\* What is written to a row that others have changed shows nothing in particular.
WriteOutput ==
  /\ output # <<>>
  /\ terminal' = IF disturbance = "no" THEN ApplyAll(terminal, output) ELSE terminal
  /\ output' = <<>>
  /\ UNCHANGED <<sequence, issued_generation, options, push, outcome, accepted, disturbance>>

Unknown(columns) == [row |-> [column \in 1..columns |-> Broken], column |-> 1, style |-> "default"]

Resized ==
  /\ disturbance = "no"
  /\ \E columns \in 1..MaxColumns \ {Len(terminal.row)} : terminal' = Unknown(columns)
  /\ disturbance' = "resized"
  /\ UNCHANGED <<sequence, issued_generation, options, push, outcome, accepted, output>>

Overdrawn ==
  /\ disturbance = "no"
  /\ terminal' = Unknown(Len(terminal.row))
  /\ disturbance' = "overdrawn"
  /\ UNCHANGED <<sequence, issued_generation, options, push, outcome, accepted, output>>

FramesNext ==
  \/ PushNext \/ PushGeneration \/ PushPlain
  \/ DecodeBase64 \/ DecodeBase64Fails \/ DecodePng \/ DecodePngFails
  \/ Project \/ ProjectFails \/ EncodeFails \/ TooManyOperations \/ Accept
  \/ set_terminal_background \/ reset \/ resize
  \/ WriteOutput \/ Resized \/ Overdrawn

FramesSpec == FramesInit /\ [][FramesNext]_frames_vars

-----------------------------------------------------------------------------
(* Properties. *)

\* Once its output is written, the terminal shows the row that the next difference
\* is taken against, and that row is the last screenshot accepted, over the
\* background of today and in the colors the terminal has.
ShowsTheFrame ==
  (output = <<>> /\ disturbance = "no" /\ previous # Nothing) =>
     /\ terminal.row = previous
     /\ previous = Projection(accepted.frame, accepted.plain)

\* A push that fails, at whichever step, leaves the baseline and the generation as
\* they were when it began, and nothing to write; one that succeeds with a
\* generation has one above all before.
AllOrNothing ==
  [][push # Nothing =>
       /\ push' # Nothing \/ outcome' # "ok" => UNCHANGED <<sequence, output>>
       /\ push' = Nothing /\ outcome' = "ok" /\ {push.generation, latest_generation} \subseteq Nat =>
            latest_generation' > latest_generation]_frames_vars

\* A generation that the adapter issues is never refused as stale: it is above
\* every one accepted, its callers' included.
OwnGenerationsAccepted ==
  latest_generation # Nothing => issued_generation >= latest_generation

\* diff, against what a terminal does, on every pair of small rows that put_cell can
\* build, wide characters included: its operations turn the one shown into the other
\* and leave the style as it was.  It speaks of no variable: the first states are enough.
DiffShowsNext ==
  FramesInit => \A before, after \in SmallRows(3) :
    LET shown == IF Len(before) = Len(after) THEN before ELSE Unknown(Len(after)).row
        end   == ApplyAll([row |-> shown, column |-> 1, style |-> "default"], diff(before, after))
    IN  /\ validate(after)
        /\ end.row = after
        /\ end.style = "default"
=============================================================================
