# TermGlide: TLA+ specifications

TermGlide shows a web page in a terminal. It launches a Chrome, drives it over
the Chrome DevTools Protocol (CDP), captures screenshots, projects them to
coloured terminal cells and sends keyboard and mouse input back to the page.
This directory holds TLA+ models of the parts of it that carry state, the TLC
configurations that check them on small instances, and TLAPS proofs of their
main theorems for every value of the constants. Paths below are relative to the
repository.

## 1. Inventory

| Component | Source | State | Operations | What makes it hard | Modules |
|---|---|---|---|---|---|
| Interactive session | `apps/termglide/src/external_interactive.rs` | `Option<RunningExternalEngine>`, the event in hand, counters, the cancellation | `run_external_interactive`, `run_loop`, `open_running_engine`, `recover_if_browser_exited`, `cleanup_resources` | Chrome may exit and the user may cancel between any two awaits; every await fails; a recovery replaces the browser under a pending event | `InteractiveSession` |
| Screen and controls | same file | address bar, layout density, viewport, input adapter, frame baseline, and what the terminal really shows | `handle_address_input`, `apply_resize`, `apply_zoom`, `render_current_frame_with_controls`, `draw_terminal_controls` | two writers of the bottom row; differences against a baseline the terminal may no longer show | `InteractiveTerminal` |
| Engine process | `crates/tg-browser/src/external_engine.rs` | child process, profile and scratch directories, `temporary_directories_cleaned` | launch, `try_wait`, `shutdown`, `Drop` | failures between any two creations; the child may exit between a poll and a kill | `Engine`, `EngineProcess`, `EngineCleanup` |
| Directory cleanup | same file | the directory, `verify_absence`, the deadline | `remove_temporary_directory_with` | Chromium helpers recreate the directory after the browser is gone | `DirectoryCleanup`, `EngineCleanup` |
| CDP session | `crates/tg-network/src/cdp.rs` | socket, `next_request_id`, event queue, retained replies | send, wait for a reply, wait for an event, ping, close, reconnect | late and reordered replies, dropped futures, bounded buffers | `CdpSession` |
| Page navigation | `external_interactive.rs`, `cdp.rs` | the page Chrome shows, `state.target`, queued `Page.loadEventFired` | `navigate_to_url`, `reload`, `wait_for_load` | a load event of one navigation satisfies the wait of another | `PageNavigation` |
| Accessibility tree | `crates/tg-network/src/cdp.rs` | depths, marks and chain of one validation | `CdpAccessibilityTree::from_response` | climbs that meet each other, cycles entered from a tail, the depth limit | `AccessibilityTree` |
| Terminal transaction | `crates/tg-terminal/src/transaction.rs` | writer id, sequence, baseline, `last_good`, `last_receipt`, pending frame | prepare, write, acknowledge, rebind, invalidate | partial writes, stale or replayed receipts, a clock that moves | `TerminalTransaction` |
| External frames | `crates/tg-terminal/src/external_frame.rs` | previous surface, generation, background | push a screenshot, resize, reset | stale generations, a push that fails after part of its work | `FrameSequence` |
| Cell model, diff, encoder | `crates/tg-terminal/src/lib.rs` | none | `put_cell`, `diff`, `full_redraw` | wide cells cut in half, style runs | `CellDiff` |
| Input decoder | `crates/tg-terminal/src/lib.rs` | buffered bytes, paste state | push, finish, reset | sequences cut at any byte, paste limits | `InputDecoder` |
| Input adapter, event translation | `crates/tg-browser/src/external_input.rs`, `apps/termglide/src/interactive.rs` | geometry; what Chrome believes is held down | `translate_crossterm_event`, `translate`, `dispatch` | one terminal event is several CDP calls; a press and its release may go to different receivers | `InputAdapter` |
| One-shot rendering, command line | `apps/termglide/src/external.rs`, `main.rs` | engine and session of one command, its output | `render`, `snapshot`, `doctor`, `finish_with_cleanup` | an operation, its close and its shutdown may all fail | `Program` |
| Terminal guard, signals | `crates/tg-platform/src/lib.rs` | raw mode, alternate screen, panic hook | enter, restore, `Drop`, shutdown signals | a step that fails half-way; panics on either thread; a signal at any point | `Program` |
| URL, configuration, core types | `tg-url`, `tg-config`, `tg-core` | none | parsing and validation | data only | none |

How they interact: `main.rs` builds a request and calls
`run_external_interactive_terminal`, which enters the terminal guard, spawns a
signal watcher that sets the shared `Cancellation`, and runs the session; or it
runs a one-shot command over the same engine and CDP session. The session owns
the engine process (calls `launch`, `try_wait`, `shutdown` on a blocking worker,
and relies on its `Drop`) and a `CdpSession` on the socket the process published.
Frames go from `capture_screenshot` through the frame adapter (a difference to
its baseline) to the writer; the session itself draws the address bar or the
status bar on the last row. Input goes from the event stream through the address
bar or the input adapter to CDP. The only memory shared between threads is
`Cancellation` and the lock of standard output: concurrency is between this
program's awaits and its workers, the browser process, the operating system,
Chromium's helper processes, and the user.

What makes each component correct, in the order it matters:

- *Interactive session*: however it ends, Chrome is gone, its directories are
  removed and the connection is closed, or the result says otherwise; there is
  one Chrome at a time; a pending event survives a recovery; a cancelled session
  ends; a Chrome that exited is noticed.
- *Program*: nothing is published before its cleanup succeeded; the terminal is
  restored on every end the program chooses; the error names all that failed.
- *Screen and controls*: the terminal shows the frame the next difference is
  computed against, with the controls over its last row; a click is translated
  with the geometry of what is shown; the copies of the geometry agree.
- *Engine process and cleanup*: nothing is left behind without an error; no
  directory is removed under a live Chrome; "removed" means removed and settled.
- *CDP session*: bounded buffers; replies answer the request they belong to;
  events are kept, in order; every operation ends.
- *Page navigation*: the page shown is the one asked for, and loaded.
- *Accessibility tree*: accepted means a forest within the depth limit; each
  refusal gives its true reason.
- *Terminal transaction, frames, differences*: differences only against what the
  terminal shows, and they turn the one row into the other.
- *Input decoder*: the same events however the bytes are cut; it recovers after
  what it rejects. *Input adapter*: what is typed arrives once, and Chrome and
  the user agree on what is held down.

`PROJECT.json` lists, under `hazards`, each place where these can go wrong in a
way a test would hardly reach, with the properties that cover it.

## 2. Modules

Thirteen modules of the code's state, one of pure operators (`CellDiff`), and one
abstract specification (`Engine`). The theorems about a module are in
`<Module>_proof.tla`; those of the engine's modules share `EngineCleanup_proof`,
and those of the four components between the terminal and the page (`InputDecoder`,
`InputAdapter`, `FrameSequence`, `TerminalTransaction`) share `Terminal_proof`, which
is why these name their specifications `DecoderSpec`, `AdapterSpec` and
`FramesSpec`. Every variable marked *history* is not in the code: it
records what a property talks about, what the environment remembers (the
requests an honest browser still owes an answer), or how far a bound has been
used up.

How the modules compose:

    Engine                what a browser's owner may rely on
      ^ implemented by    EngineProcess (ImplementsEngine; proved: KeepsPromise)
      ^ implemented by    EngineCleanup = EngineProcess + DirectoryCleanup twice
                          (proved: CleanupsAreOneRemoval, CleanupsKeepPromise)
      | extended by       Program
    CellDiff
      | extended by       FrameSequence

`InteractiveSession` takes the engine and the CDP session at the level of what
their calls return (success or error, and what was left behind), which is what
`Engine` promises and `CdpSession` establishes in detail; that its engine steps
are `Engine`'s is argued below and not yet checked. `Program` is checked against
`Engine` itself.

### Engine

What `launch_external_engine` and `ExternalEngineProcess` promise: a launch is
decided once; it fails, or hands over a guard; the guard only answers that its
browser is gone when process and directories are; a failed launch and a dropped
guard leave nothing unless their own cleanup met an error; and what was once
cleared away stays away. The refinement mapping is at the end of `EngineProcess`
(`Promise`): the guard's phase follows from `pc` and `job`, the process is "alive"
until it was waited for, the files are either directory, and what was cleared is
the code's own flag.

### EngineProcess

`launch_external_engine`, `ExternalEngineProcess::{try_wait, shutdown}`, `Drop`
and `terminate_child`. `pc` walks the launcher (`profile`, `scratch`, `spawn`,
`polling`), the termination both launcher and guard use (`poll child`, `kill`,
`poll again`, `wait`, `remove`) and the guard (`owned`, `gone`); `job` says on
whose behalf. Chrome writes its port file in pieces, exits, or exits between a
poll and a kill; each system call may fail (`SystemFails`). The removal of a
directory is one step, with its two outcomes.

### DirectoryCleanup

`remove_temporary_directory_with`: `Sweep` is one `remove_dir_all` with its
outcomes, `Check` the comparison with the deadline, `Wake` the end of a sleep;
`Helper` recreates the directory or holds files in it, `Tick` lets time pass
between any two steps, so a removal is slow and a sleep long. Values of time are
units of one poll interval.

### EngineCleanup

Both joined: the step `Remove` of `EngineProcess` is replaced by a cleanup of the
scratch directory and then one of the profile, each run step by step against the
helpers and the clock, as `remove_engine_directories` does. Everything of the two
modules is checked here, in composition: `RemovalIsOneStep` says that to the
supervisor all of it is one step of `EngineProcess`.

### InteractiveSession

`run_external_interactive` and `run_loop`. `pc` is the await the session is
suspended at, or the decision it takes next; there is one action per outcome of
each await (`LaunchDone`, `LaunchFails`, `ConnectDone`, ..., a render, the three
branches of `select!`, each step of a recovery and of `cleanup_resources`).
`BrowserExits` and `Cancel` may happen at any of them. A launch and the drop of a
guard are one step each: they do not await anything of the session. `leaked`
records which cleanup left something, and whether the result reports it.

Correspondence with `Engine`: a launch that fails leaves nothing, unless its own
cleanup met an error (`LaunchFails`, `excused`), in which case its error does not
say so; a shutdown that answers has removed everything (`GuardAnswers`); a drop
leaves nothing (`DropDone`) unless a call of it failed.

### Program

`main`, the one-shot commands, `run_external_interactive_terminal`, the terminal
guard with its panic hook, and the shutdown signals. `pc` is the main task,
`worker` the blocking worker that launches, shuts down and drops the browser,
whose steps are `Engine`'s. `Main(at, next)` is a step of the main task; a signal
and a panic on either thread may come at any point. Signals are of one kind. The
release build is modelled: a panic aborts after the hook (`panic = "abort"`,
`Cargo.toml`).

### CdpSession

All of `CdpSession` that is not the typed commands: `connect`/`reconnect`,
`send_request`, `wait_for_response`, `wait_for_event_in_session`, `next_event`,
`receive_incoming`, `flush`/`ping`, `close`, and a timeout or a dropped future at
every await. A reply is its id, an event its method and session, together with
history fields (the connection it came over, its order of arrival). The browser
is of one of two kinds, chosen at the start: one that sends anything at any
time, or an honest one that answers each request at most once. A request id that
would overflow is refused at `MaxRequestId`, which stands for `u64::MAX`.

### AccessibilityTree

`CdpAccessibilityTree::from_response`. A node is its index and its parent the
index that its `parentId` stands for (`Root` for none, `Unknown` for one that is
not there); each is chosen where the code first reads it, child lists among those
of at most two. `pc` is the loop the code is in: `count`, `parse`, `check`, and
`scan`, `climb`, `number` for the traversal, with its variables `depths`,
`traversal_marks`, `current`, `chain` and `depth`. The properties do not follow
the algorithm: `IsForest`, `HasCycle` and `IsTooDeep` say what a forest, a cycle
and too great a depth are.

### InteractiveTerminal

What the user sees and where input goes. The state is the session's (address bar,
zoom density, viewport, launch viewport), the input adapter's geometry, the
frame adapter's geometry and baseline, and the terminal's: its true `size`, the
frame it shows, its bottom row, and whether a resize signal waits. One action
per kind of key and event (`Key`, `Other`), each followed by the render the code
does unconditionally. A resize is announced by one signal however many happened
(the size is read when the signal is handled). One dimension stands for both;
`apply_zoom` and `apply_resize` compute with the code's integer arithmetic and
caps.

### InputAdapter

What a keyboard, a mouse and the clipboard do to the page: the translation of
crossterm events, the keys that `handle_address_input` takes for itself,
`translate` (one event whole, or none of it) and `dispatch` (its calls one by
one). A user action (`UserMakes`) presses or releases something, scrolls, pastes;
the terminal reports only presses, releases too, or repeats and lock keys as well
(`reports`); `SendAction` and `SendFails` are one call, `Stop` a cancellation seen
between two; `Recover` replaces the browser between events by one that saw no
press. `typed`, `missed` and `taken` are history.

### FrameSequence and CellDiff

`ExternalFrameSequence` with the counter of `ExternalInteractiveFrameAdapter`. A
push goes through its stages (`base64`, `png`, `project`, `diff`), each of which
may fail or find itself cancelled; the terminal may be resized or overdrawn
meanwhile, and the caller answers with `resize` or `reset`. A frame is a row of
pixels, one per cell. `CellDiff` is the surface of one row, `put_cell`, `diff` and
`full_redraw` as operators, and what a terminal makes of their operations
(`ApplyAll`): the terminal of `FrameSequence` really is written to. The loops of `CellDiff` are
recursive functions over the columns, the characters and the operations done.

### TerminalTransaction

`new`, `prepare`, `acknowledge`, `write_pending(_controlled)`, `rebind_writer`,
`invalidate_baseline`. A frame is its writer, sequence, surface and the surface
it is a difference against; `Drawn` is what a terminal shows after writing one,
which is `Garbled` when the difference was against something else. A transport
may write the pending frame on its own and lose, repeat, delay or misaddress its
receipt; a receipt that names the pending frame exactly tells the truth.
`Disturb` changes a terminal behind the transaction's back.

### PageNavigation

`navigate_to_url`, `reload`, `configure_target`, `wait_for_load` over the queue
of `CdpSession`, with Chrome as the other actor: it answers `Page.navigate`,
loads, and navigates by itself (links and scripts). Only load events are kept
of the events, and they are what fills the queue.

### InputDecoder

`InputDecoder::{push, finish, reset}` and `decode_input`. The terminal sends whole
messages (`Sends`): keys, escape sequences, pastes; the decoder takes them one
byte at a time, since `push` loops over bytes and is otherwise indifferent to how
they are cut. `next_sequence_length` is translated in full over classes of bytes,
with markers of four bytes for six; `decode_input` keeps which sequences are
known, and one error for the four that mean a malformed one. A push that is
cancelled loses the rest of its bytes; `Finish` is the caller's timeout, at any
byte. The decoder is a public part of the library; the application itself reads
crossterm's events.

## 3. Runs and what they show

| Run | Instance | Distinct states | Shows |
|---|---|---|---|
| `interactive_session` | 2 events, 1 relaunch | 2,985 | `LeavesNothingUnreported`, `OneBrowserAtATime`, `EventSurvivesRecovery`, `CancellationEnds`, `ExitNoticed` |
| `program` | every command, one launch | 15,725 | `PublishedAfterCleanup`, `TerminalRestored`, `ExitAccountsForAll`, `ProgramEnds` |
| `engine_cleanup` | 2 polls or shutdowns, deadline 4, poll 1, settle 2, clock 5 | 325,695 | `ImplementsEngine`, `RemovalIsOneStep`, `SettledOrAtDeadline`, `LaunchDecides`, `DropEnds` |
| `cdp_session` | ids to 5, queues of 2, 2 kinds of event, 2 connections, 3 arrivals | 366,270 | `RetainedFromThisConnection`, `AwaitedReplyIsFresh`, `LimitOnlyAfterAbandonment`, `OldestFirst`, `EventsKept`, `OperationEnds` |
| `page_navigation` | 2 addresses, 3 queued events, 6 documents, 1 relaunch | 88,908 | `ShownIsLoaded`, `LoadsAnswerOnce` |
| `accessibility_tree` | 5 nodes, depth 3 | 149,509 | `VerdictIsRight`, `ValidationEnds` |
| `interactive_terminal` | 2 sizes, 2 viewports, cap 12, 2 pages, 1 typed character, 2 queued events | 243,834 | `GeometryAgrees`, `ScreenIsBaseline`, `ClicksHitWhatIsShown`, `ScreenComplete`, `OutOfBoundsOnlyInARace` |
| `input_adapter` | 4 events, 2 shortcuts, 2 other characters, Enter and Escape, 4 actions | 1,665,463 | `TextArrives`, `HeldAgrees` |
| `frame_sequence` | rows to 2 columns, 2 colours, generations to 2, 6 operations; differences of rows to 3 | 2,390,714 | `ShowsTheFrame`, `AllOrNothing`, `OwnGenerationsAccepted`, `DiffShowsNext` |
| `terminal_transaction` | 2 terminals, 2 generations, 2 sizes, 2 contents, sequences to 4 | 40,944 | `BaselineIsShown`, `DifferencesAgainstLastGood`, `SettlesWrittenFrames` |
| `input_decoder` | sequences to 5 bytes, pastes to 1, terminals that send 7 and 6 | 41,203 | `OneResultEach`, `DiscardsToEndOfPaste` |

Type invariants are not in the runs: those of the modules with proofs are proved.

One more run checks what a test says and the code does not do. TLC finds the
behaviour; `PROJECT.json` quotes the line under `findings`.

| Run | Says | Code |
|---|---|---|
| `input_decoder_recovery` | the decoder recovers after limits (the test of that name, `crates/tg-terminal/src/lib.rs:2219`) | a paste 2 to 6 bytes too long overflows inside its own end marker: what follows is discarded until the end of another paste |

### Why the bounds are enough

- `interactive_session`: two events let one be pending through a recovery and
  one follow it, or reach the limit; one relaunch is the most the limits admit.
- `program`: nothing is bounded; a program has one browser here, since a
  session's replacements are `InteractiveSession`'s.
- `engine_cleanup`: two attempts are a failed one and a retry, the shortest
  sequence in which the `temporary_directories_cleaned` flag matters. The settle
  interval spans two polls, the deadline two settle intervals, and the clock runs
  past the deadline. All of its safety is proved for every value.
- `cdp_session`: three operations may be abandoned on one connection, one more
  than the replies retained; a queue of two with three arrivals overflows, and
  an event may be taken from its middle; ids reach their last value.
- `page_navigation`: six documents allow an opening, two stray navigations, two
  submissions and a recovery; three queued events reach the limit.
- `accessibility_tree`: five nodes are a cycle entered from a tail, a chain that
  joins one numbered before, and a chain two longer than the depth limit. Safety
  is proved for every value.
- `interactive_terminal`: two sizes give a resize there and back; the smaller is
  one row of page and one of controls; the cap on the viewport is within reach
  of a zoom; two queued events put a click behind a resize.
- `input_adapter`: four events are a press that opens the address bar or loses
  its browser, two more, and the release; a chord, a shortcut and a plain
  character are among the keys, and a paste the code refuses among the pastes.
- `frame_sequence`: two columns are the fewest that a resize, a run of changed
  cells and a skipped one need; differences are checked over all pairs of rows of
  three columns, the fewest in which a wide character is cut from either side.
- `terminal_transaction`: three frames are a good one, a failed one and the one
  that must then be written whole; two terminals and two generations each.
- `input_decoder`: pastes run from empty to as many bytes over the limit as end
  the overlap of the overflow with the end marker (`EndLost`), with an escape, a
  bracket or a character of two bytes at any place in them; escape sequences run
  to two bytes over theirs. A message is sent behind at most `MaxUnread` = 4 bytes
  of a cut one: a paste's start marker, or any shorter beginning.

Deadlock is checked where the system should never stop (`cdp_session`,
`terminal_transaction`, `input_decoder`) and not where it does end (a session or
a program that finished, a guard that was dropped, a verdict, the bounds on
documents and events).

### Fairness

- `InteractiveSession`: weak fairness of each own step, since launches and CDP
  calls have deadlines and the timer ticks. `SelectCancelled` has strong
  fairness: `select!` picks at random among the branches that are ready, so a
  cancellation, which stays set, is taken although the loop leaves `select!` in
  between. Nothing makes Chrome exit, the user cancel, or an event arrive.
- `Program`: the main task runs, and so does the worker; that a launch is decided
  and a drop ends is what `engine_cleanup` shows. An operation ends by its
  deadlines, or by the cancellation of a session. No signal, no success and no
  early run of the signal task is assumed.
- `EngineCleanup`: the launching thread and the cleanups run, the startup
  deadline passes, time passes, a killed Chrome dies. No start that succeeds, no
  drop and no helper that lets go of a directory is assumed.
- `CdpSession`: every await is under `timeout_at` with a deadline fixed when the
  operation begins, so an operation that waits is interrupted in the end. No
  reply is assumed to come.
- `AccessibilityTree`: the function runs; it awaits nothing.
- The others state safety only.

## 4. Proofs

`*_proof.tla`: theorems checked by TLAPS for every value of the constants, from
the module's own named assumption about its constants and nothing else. Each
rests on an inductive invariant `IInv`, since no property is inductive as it
stands, in three facts: `Init => IInv`, `IInv /\ [Next]_vars => IInv'` (one step
per action), and `IInv` gives the property.

| Module | What `IInv` adds to the types | Theorems |
|---|---|---|
| `InteractiveSession` | `Flags`, `Leaks`: which resources exist at each `pc`; `Counters`, `Budget`: launches against relaunches; `Custody`: who holds the browser; `Pending`: where an event may wait | `NothingLeftSilently`, `LoopAlwaysAvailable`, `NeverTwoBrowsers`, `NoEventLost` |
| `Program` | `Promised`: what is relied on of `Engine`, over its actions alone; `Custody`: which of main task and worker has the browser, in which state; `ShutdownCounts`, `Record`: what is on record and what of it the error names; `Modes`: only a session switches them; `Written`: output comes last | `OutputFollowsCleanup`, `TerminalLeftAsFound`, `EveryFailureReported` |
| `EngineProcess` | `NotSpawned`, `NotTerminating`, `HasJob`: what each place implies; `WaitedFor`: directories outlive the process; `EndsClean` | `KeepsPromise` (it implements `Engine`), `FailedLaunchIsClean`, `DropIsClean`, `SuccessIsReal`, `BrowserOutlived` |
| `DirectoryCleanup` | `Verifying`: a pause with `verify_absence` ends a settle interval after the clean sweep, or at the deadline | `RemovedIsSettled`, `FailureUsesDeadline` |
| `EngineCleanup` | which of the two cleanups runs, and that one that succeeded left nothing | `CleanupsAreOneRemoval` (it implements `EngineProcess`), `CleanupsKeepPromise` (and so `Engine`) |
| `CdpSession` | `QueueInv`: the queue is in arrival order and of this connection; `ResponseInv`: retained ids are older than the awaited one, distinct and within the limit; `CallInv`: which fields an operation uses at each step; `OweInv`: of an honest browser, each retained reply answers an abandoned request of this connection | `BuffersStayBounded`, `NothingCarriedOver`, `RepliesAreFresh`, `OldestDelivered`, `LimitFollowsAbandonment`, `EventsLeaveByDelivery` |
| `PageNavigation` | `InOrder`: load events are queued in the order of their documents; `Unanswered`: none of them has ended a wait yet; `Aimed`: where each step of a navigation is going; `NothingStrayed`: while nothing strayed, at most one load is on its way or queued, that of the awaited document, and only during a wait | `ShowsWhatWasAskedFor`, `LoadsAnswerInOrder` |
| `AccessibilityTree` | `Hangs`, `Numbered`: a numbered node hangs from one numbered one less; `Trail`: what a climb marked leads to what it marked or to where it is; `Chain`, `Growing`, `Shrinking`: the chain is the way up, unnumbered and without repetition, and the depth at hand is that of what its end hangs from | `VerdictsAreRight` |
| `InteractiveTerminal` | `Baseline`: the frame adapter's previous surface has its geometry; `Shown`, `BottomShown`: what the terminal shows in terms of the baseline, unless a resize is unhandled; `Announced`: the session has the terminal's size, or the last resize queued does; `Repaired`: then no redraw is owed, unless resizes shared a signal; `MouseWasOnTerminal`: a queued click is on the terminal, or a resize follows it | `GeometryNeverDiverges`, `ScreenFollowsBaseline`, `ClicksTranslatedAsShown`, `ResizesAreRepaired`, `ClicksMissOnlyInARace` |
| `TerminalTransaction` | `PendingIsCurrent`, `LastGoodIsOlder`: order of sequences; `BaselineIsLastGood`; `ShownBefore`, `ShownAfter`: what each terminal shows for each amount written | `BaselineShown`, `DifferenceBase`, `SettlesInOrder` |
| `FrameSequence` | `Numbered`: what was accepted is below what is pushed and that below what was issued; `BaselineProjected`; `TerminalFits`, `PushFits`, `BaselineFits`: sizes, and rows with no half of a wide character; `OutputFits`: what is yet to be written makes an undisturbed terminal show the baseline | `OwnGenerationsNeverStale`, `PushesAllOrNothing`, `BaselineIsOfNow`, `ScreenShowsTheFrame` |
| `CellDiff` | no state: `Shows` is the invariant of the loop over columns | `AnyDiffShowsNext`, `PutsLeaveRowsWhole`, `DiffsShowNext` |
| `InputAdapter` | `TextInv`: what was typed and not handed over is the text of the last call of the event in hand; `HeldInv`: Chrome and the user agree as soon as the first call of the event is made | `TextReachesChrome`, `HeldKeysAgree` |
| `InputDecoder` | `Suffix`: what is left to push is the end of the message; then the message is being read (`Buffering`: the buffer is the part pushed), was answered (`Done`), or is a paste whose rest is discarded (`Overflowed`, `Discarded`, with `Tracked`: the bytes matched of the marker) | `EveryMessageOneResult`, `DiscardingEndsWithThePaste` |

`InteractiveSession`, `EngineProcess`, `DirectoryCleanup` (`CleanupTypeCorrect`),
`CdpSession`, `AccessibilityTree`, `InteractiveTerminal` and `TerminalTransaction`
also have `TypeCorrect`; the invariants of the others hold the types their proofs
need. The refinements are proved step by step: every step of `EngineProcess` is a step of `Engine` or a
stutter under the mapping `Promise`, every step of `EngineCleanup` one of
`EngineProcess` or a stutter, and `CleanupsKeepPromise` composes the two. The
proof of `VerdictsAreRight` gives the witnesses: the numbers left in `depths` rank
the accepted forest; the nodes a climb marked are a set without a way to a root;
the numbered nodes and the end of the chain are too deep. That of
`OldestDelivered` rests on lemmas about sequences (an element removed from the
middle leaves the others in order), that of `GeometryNeverDiverges` on lemmas
about the zoom and resize arithmetic (`InteractiveTerminal_proof`, "The layout").

The theorems about `InputDecoder` rest on `PrefixAnswered`: whatever part of a
message the decoder has read, `next_sequence_length` says that it goes on, that it
is whole, or that a limit refuses it, as it should. It is proved by the kinds of
message (`PasteAnswered`, `CsiAnswered`, `ShortAnswered`), with no induction, since
every message has its length in closed form.

An attempt at that proof found what no run had shown: `OneResultEach` was false for
limits on sequences of up to two bytes, where a character of two bytes or the start
marker of a paste is refused before its end. `EndLost` now names these cases
(`Foretold`), which the instance of section 3, with a limit of five, does not reach.

`AnyDiffShowsNext` says of any two rows, of whatever widths, texts and styles,
what `DiffShowsNext` says of small ones: whoever writes the operations of `diff` to
a terminal that shows the first row gets the second. The library's induction takes
an operator for what is to be shown, which no prover here can instantiate. So the
recursion of `CellDiff` is written as functions over `0..n`, and what holds of all
their values is shown by its least exception (`Induction`, from the library's facts
about well-founded relations, which speak of sets alone); `Recursion` and
`SameRecursion` show that there is one such function, so that each is what its
definition says (`WritingDefined`, `ApplyingDefined`, `UptoSays`). The invariant of
the loop over columns is `Shows`: up to the column reached the terminal shows the
new row; after it the old one, except where a character written cut a wide one in
two, and there the new row has a change to come; and behind a `Write` the
terminal stands where the next character of the run goes, in its style. Unchanged
cells are skipped rightly only because no row holds half a wide character, which
`PutsLeaveRowsWhole` shows of `put_cell`. `ScreenShowsTheFrame` then carries it
through failed pushes, resizes and overdrawn rows.

Only model-checked, on the instances above:

- all liveness (`CancellationEnds`, `ExitNoticed`, `ProgramEnds`, `LaunchDecides`,
  `DropEnds`, `OperationEnds`, `ValidationEnds`), which the prover does not reach.

Only proved: the type invariants, `LoopAlwaysAvailable`, `BuffersStayBounded`,
`FailureUsesDeadline`, and the four of `EngineProcess` that `Engine` implies in
other words.

## 5. Observations

What the models show of the code, beside the finding of section 3. Where a
document says otherwise it is named.

The session and its browser:

- The cleanup of a failed launch only logs its own failure, and the result of the
  session does not mention what was left; `docs/architecture.md:31` says that
  combined failures retain both causes.
- If Chrome exited unnoticed, a quit key first launches a new one and renders it
  (`README.md:64`, "`Ctrl-C`: quit"): `recover_if_browser_exited` runs before the
  event is looked at.
- Near the deadline of a directory's cleanup, the pause before the verifying sweep
  is cut short, so the directory may have been missing for less than the settle
  interval (`SettledOrAtDeadline` says exactly when).
- A helper of a dead Chrome may recreate a directory after it was seen to stay
  away: the retry of a half-failed shutdown does look again, a successful one
  does not.
- A recovery returns to the address submitted last, not to a link followed since.

The program around it:

- While an interactive session runs, its main task holds the lock of standard
  output. A panic on the worker thread runs the hook, which writes there and
  waits for that lock, and the main task waits for the worker: `ProgramEnds` names
  it as the one way a cancelled session does not end.
- The release build aborts on a panic, so no guard is dropped and Chrome and its
  directories stay.
- One-shot commands watch no signal: one leaves Chrome and its profile behind.
- A signal between the terminal being entered and the spawned task taking over
  the signals ends the program with the terminal switched.
- `TerminalGuard::restore` drops the errors of its writes, so the restore failure
  that the comment at `external_interactive.rs:709` speaks of never appears.
- `write_atomic` leaves its temporary file when writing it fails.
- A panic of a one-shot command writes the restoring escape sequences to its
  standard output, a pipe or a file included.

Input:

- A paste while the address bar is open goes to the page, although the comment on
  `address_bar_active` (`external_interactive.rs:458`) says that input is captured
  for the URL.
- A space is sent as the text of its `keyDown` and again by `insertText`
  (`external_input.rs:393`, `:677`): a page inserts it twice.
- The release of a key that the address bar took is forwarded to Chrome, and the
  other way round; `HeldAgrees` says exactly for which keys the two disagree.
- An escape key pressed just before a paste, and not finished in between, joins
  its start marker: the text of the paste is then decoded as keys.
- The tail of an escape sequence that exceeds its limit by two bytes or more is
  decoded as keys.

Pages and the connection:

- A reload, a followed link or a script navigation leaves its load event in the
  queue, so the wait of the next submitted address ends early, and stays one
  behind from then on (`ShownIsLoaded` excepts a browser that strayed).
- Page events other than the loads waited for are never drained: 256 unread
  events (`DEFAULT_MAX_EVENTS`) end an interactive session with `EventLimit`.
- A navigation within a document fires no load event, and the wait for it times
  out.
- Replies to abandoned requests stay retained until the connection ends; after
  `max_pending_responses` of them the next one ends an operation
  (`LimitOnlyAfterAbandonment` shows that nothing else does).
- An accessibility node need not be listed among its parent's children: the tree
  that is accepted is the one the parents make.

The screen:

- A terminal resized away and back under one signal keeps its baseline although
  the terminal may have lost its contents; `ScreenComplete` excepts that case.
- A full redraw after a partial write clears the screen without resetting the
  style first.
- `prepare` and `write_pending_controlled` may be given clocks of different
  origin; a frame is then judged by the wrong age.

## 6. Abstractions common to the modules

Payloads (pixels, cells, JSON, paths, URLs) are model values; an error is its
kind. Logging and formatting are left out. Synchronous code between two awaits is
one step, except where another thread or process can act within it. Rust's
ownership is used: a `CdpSession` runs one operation at a time because every
operation borrows it mutably, and a guard moved into `shutdown` is dropped once.
`EngineCleanup` takes a directory that was seen to stay away as gone for good.
Code outside the repository is modelled from its use, and marked external in
`PROJECT.json`: Chrome and its helpers, the terminal, the user, the file system.

## 7. Not modelled

Browser discovery, command-line arguments, endpoint and URL parsing,
configuration and the core types: strings and data with no state. PNG decoding,
image scaling, colour quantisation and Unicode width: numeric code and tables with
no state. The typed CDP commands: parameters and results around the calls
`CdpSession` models, except the accessibility tree. Diagnostics (`doctor`'s
checks) beyond whether its browser starts and is cleaned up. The tests'
harnesses.

## 8. Plan

What would come next, in order:

1. The engine steps of `InteractiveSession` as steps of `Engine`, which needs the
   launches of a session numbered, since each has a guard of its own.
2. `CellDiff` on surfaces of several rows, where `MoveTo` also chooses the row and
   the changes of each end on their own.

## 9. Running

    tlc -config InteractiveSession.cfg InteractiveSession
    tlapm InteractiveSession_proof.tla

and likewise for the others. The longest runs (`input_adapter`, `frame_sequence`,
`engine_cleanup`) take about half a minute each, the longest proof
(`Terminal_proof`) about four minutes; `PROJECT.json` names, for every
property, a change of the code's model that makes its run fail.
