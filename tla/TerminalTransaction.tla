------------------------- MODULE TerminalTransaction -------------------------
(***************************************************************************)
(* Publication of frames to a terminal against receipts:                   *)
(* TerminalTransaction of crates/tg-terminal/src/transaction.rs.           *)
(*                                                                         *)
(* A transaction prepares one frame at a time, as a difference against the *)
(* last surface it knows to be on the terminal, and waits for the receipt  *)
(* of that frame.  Its owner writes it (write_pending), or a transport     *)
(* does and sends a receipt: receipts may be lost, repeated or late, and   *)
(* name an older frame, another writer or another length, but one that     *)
(* names the pending frame exactly tells the truth about it.  The terminal *)
(* may scroll or be resized at any time.                                   *)
(***************************************************************************)
EXTENDS Integers

CONSTANTS
  Ids,          \* terminals
  Generations,  \* generations of a writer
  Sizes,        \* geometries of a surface
  Contents,     \* what its cells may hold, after degrade_surface
  MaxSequence,  \* u64::MAX of next_sequence, scaled down
  None,         \* Option::None
  Garbled       \* a terminal that shows no frame whole

Writers == [id : Ids, generation : Generations]
Surface == [size : Sizes, content : Contents]

ASSUME ConstantsAssumption ==
  /\ MaxSequence \in Nat \ {0}
  /\ None \notin Surface
  /\ Garbled \notin Surface
  /\ Garbled # None

VARIABLES
  writer,        \* the writer the transaction is bound to
  next_sequence,
  baseline,      \* the surface differences are prepared against, or None
  last_good,     \* the last frame settled, or None
  last_receipt,  \* sequence of the last receipt accepted, 0 for None
  pending,       \* the frame that awaits its receipt, or None
  screen,        \* what each terminal shows
  written,       \* how much of the pending frame reached its terminal
  disturbed      \* history: the terminal was changed behind the transaction's back

owner    == <<writer, next_sequence, baseline, last_good, last_receipt, pending>>
terminals == <<screen, written, disturbed>>
vars      == <<owner, terminals>>

Sequences == 1..MaxSequence
Frame     == [sequence : Sequences, writer : Writers, surface : Surface, base : Surface \cup {None}]
Outcomes  == {"FullWriteAndFlush", "PartialWrite", "WriteFailed", "FlushFailed", "Lost"}
Amounts   == {"nothing", "some", "all"}

\* fits: whether the byte counts are those of the frame it names; early:
\* whether it was completed before that frame was prepared, by its clock.
Receipt == [sequence : Sequences, writer : Writers, outcome : Outcomes, fits : BOOLEAN, early : BOOLEAN]

Init ==
  /\ writer \in Writers
  /\ next_sequence = 1
  /\ baseline = None
  /\ last_good = None
  /\ last_receipt = 0
  /\ pending = None
  /\ screen = [id \in Ids |-> Garbled]
  /\ written = "nothing"
  /\ disturbed = FALSE

-----------------------------------------------------------------------------
(* What a terminal makes of a frame. *)

\* A whole frame draws its surface; a difference only over the surface it was
\* taken from, or over itself.
Drawn(frame, before) ==
  IF frame.base = None \/ before \in {frame.base, frame.surface} THEN frame.surface ELSE Garbled

\* Only a whole frame repairs a terminal that was disturbed; a difference
\* written again over a part of itself counts as a disturbance.
Put(amount) ==
  LET id == pending.writer.id
      before == screen[id]
  IN /\ screen' = [screen EXCEPT ![id] = CASE amount = "nothing" -> before
                                           [] amount = "some"    -> Garbled
                                           [] amount = "all"     -> Drawn(pending, before)]
     /\ written' = IF amount = "nothing" THEN written ELSE amount
     /\ disturbed' = IF amount = "all"
                     THEN pending.base # None /\ (disturbed \/ written = "some")
                     ELSE disturbed

TransportWrites ==
  /\ pending # None
  /\ written = "nothing"
  /\ \E amount \in {"some", "all"} : Put(amount)
  /\ UNCHANGED owner

\* A scroll, a resize or another program.
Disturb ==
  /\ screen' = [screen EXCEPT ![writer.id] = Garbled]
  /\ disturbed' = TRUE
  /\ UNCHANGED <<owner, written>>

-----------------------------------------------------------------------------
(* A call that ends in an error of its own (a stale writer, a pending receipt, *)
(* a malformed request, a limit, a cancellation or a deadline) changes nothing. *)

Refused == UNCHANGED vars

-----------------------------------------------------------------------------
(* The baseline and the writer. *)

InvalidateBaseline ==
  IF pending # None THEN Refused
  ELSE /\ baseline' = None
       /\ UNCHANGED <<writer, next_sequence, last_good, last_receipt, pending, terminals>>

Mut_SameTerminal(a, b) == a.id = b.id

\* Another generation is another writer: nothing is known of its terminal.
SameWriter(a, b) == a = b

RebindWriter ==
  \E next \in Writers :
    IF pending # None THEN Refused
    ELSE /\ writer' = next
         /\ baseline' = IF SameWriter(writer, next) THEN baseline ELSE None
         /\ screen' = IF writer = next THEN screen ELSE [screen EXCEPT ![next.id] = Garbled]
         /\ UNCHANGED <<next_sequence, last_good, last_receipt, pending, written, disturbed>>

-----------------------------------------------------------------------------
(* Preparing a frame. *)

\* operations_for: a surface of another size is drawn whole.
OperationsFor(surface) ==
  IF baseline # None /\ baseline.size = surface.size THEN baseline ELSE None

\* next_sequence.checked_add(1) fails.
SequenceExhausted == next_sequence = MaxSequence

Prepare ==
  \E caller \in Writers, surface \in Surface :
    IF caller # writer \/ pending # None \/ SequenceExhausted THEN Refused
    ELSE /\ pending' = [sequence |-> next_sequence, writer |-> writer,
                        surface |-> surface, base |-> OperationsFor(surface)]
         /\ next_sequence' = next_sequence + 1
         /\ written' = "nothing"
         /\ UNCHANGED <<writer, baseline, last_good, last_receipt, screen, disturbed>>

PrepareRefused == Refused

-----------------------------------------------------------------------------
(* Settling the pending frame. *)

Mut_AbandonKeepsBaseline ==
  /\ pending' = None
  /\ last_receipt' = pending.sequence
  /\ UNCHANGED <<writer, next_sequence, baseline, last_good>>

\* abandon_pending: what the terminal shows is no longer known.
AbandonPending ==
  /\ pending' = None
  /\ baseline' = None
  /\ last_receipt' = pending.sequence
  /\ UNCHANGED <<writer, next_sequence, last_good>>

Mut_AcceptsAnySequence(receipt) == pending # None /\ receipt.writer = writer /\ receipt.fits

\* The checks of settle_receipt.
Accepts(receipt) ==
  /\ pending # None
  /\ receipt.writer = writer
  /\ receipt.sequence = pending.sequence
  /\ receipt.fits
  /\ ~receipt.early

SettleReceipt(receipt) ==
  IF ~Accepts(receipt) THEN UNCHANGED owner
  ELSE IF receipt.outcome # "FullWriteAndFlush" THEN AbandonPending
  ELSE /\ pending' = None
       /\ baseline' = pending.surface
       /\ last_good' = pending
       /\ last_receipt' = receipt.sequence
       /\ UNCHANGED <<writer, next_sequence>>

\* A receipt that names the pending frame exactly claims no write that was not.
Truthful(receipt) ==
  (pending # None /\ receipt.fits /\ receipt.outcome = "FullWriteAndFlush"
     /\ receipt.sequence = pending.sequence /\ receipt.writer = pending.writer)
  => written = "all"

\* acknowledge_controlled with a receipt of a transport; without one when the
\* call is cancelled or late.
Acknowledge ==
  /\ \E receipt \in Receipt : Truthful(receipt) /\ SettleReceipt(receipt)
  /\ UNCHANGED terminals

AcknowledgeInterrupted == Refused

-----------------------------------------------------------------------------
(* write_pending_controlled. *)

\* A stale writer, or no pending frame.
WriteRefused == Refused

\* The clock or the cancellation is read before the write, after it and after
\* the flush: a frame whose write was interrupted is lost, written or not.
WriteInterrupted ==
  /\ pending # None
  /\ \E amount \in Amounts : Put(amount)
  /\ AbandonPending

\* early: prepare read another clock, so that the bytes went out and the frame
\* still waits for its receipt.
WritePending ==
  /\ pending # None
  /\ \E amount \in Amounts, outcome \in Outcomes \ {"Lost"}, early \in BOOLEAN :
       /\ outcome = "FullWriteAndFlush" => amount = "all"
       /\ Put(amount)
       /\ SettleReceipt([sequence |-> pending.sequence, writer |-> writer,
                         outcome |-> outcome, fits |-> TRUE, early |-> early])

-----------------------------------------------------------------------------

Next ==
  \/ TransportWrites \/ Disturb
  \/ InvalidateBaseline \/ RebindWriter
  \/ Prepare \/ PrepareRefused
  \/ Acknowledge \/ AcknowledgeInterrupted
  \/ WriteRefused \/ WriteInterrupted \/ WritePending

Spec == Init /\ [][Next]_vars

-----------------------------------------------------------------------------
(* Properties. *)

\* Each variable has its type.
TypeOK ==
  /\ writer \in Writers
  /\ next_sequence \in Sequences
  /\ baseline \in Surface \cup {None}
  /\ last_good \in Frame \cup {None}
  /\ last_receipt \in Nat
  /\ pending \in Frame \cup {None}
  /\ screen \in [Ids -> Surface \cup {Garbled}]
  /\ written \in Amounts
  /\ disturbed \in BOOLEAN

\* What differences are prepared against is what the terminal shows, unless it
\* was disturbed: after refused, lost, repeated, late and failing receipts, half
\* written frames, clocks that disagree and changes of writer (settle_receipt,
\* abandon_pending, rebind_writer).
BaselineIsShown ==
  (pending = None /\ baseline # None /\ ~disturbed) => screen[writer.id] = baseline

\* The last good frame is replaced only by the pending frame, later than it,
\* for the writer in force and written whole; it is never lost
\* (settle_receipt, write_pending_controlled).
SettlesWrittenFrames ==
  [][last_good' # last_good =>
       /\ pending # None /\ last_good' = pending
       /\ pending.writer = writer
       /\ written' = "all"
       /\ last_good # None => last_good.sequence < pending.sequence]_vars

\* A difference is prepared only against the last good frame of this very
\* writer, when no frame failed since (operations_for, abandon_pending).
DifferencesAgainstLastGood ==
  (pending # None /\ pending.base # None) =>
     /\ last_good # None
     /\ last_good.writer = writer
     /\ pending.base = last_good.surface
     /\ last_receipt = last_good.sequence

=============================================================================
