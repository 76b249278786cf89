------------------------------- MODULE Program -------------------------------
(***************************************************************************)
(* The program around one browser: apps/termglide/src/main.rs, external.rs *)
(* and the terminal wrapper of external_interactive.rs, with the terminal  *)
(* guard, panic hook and shutdown signals of crates/tg-platform.           *)
(*                                                                         *)
(* The main task awaits a worker thread that launches and shuts down the   *)
(* browser.  The browser is the one Engine promises.  A signal, a panic on *)
(* either thread, and the failure of any call may come at any point.       *)
(***************************************************************************)
EXTENDS Engine

VARIABLES
  command,  \* "stdout", "snapshot", "doctor" or "interactive"
  pc,       \* where the main task is
  worker,   \* the blocking worker: "none", "launch", "shutdown", "drop" or "blocked"
  stdout,   \* who holds the lock of standard output: "free" or "main"
  modes,    \* what is switched on in the terminal: "raw", "screen"
  signals,  \* "default", "pending", "watched" or "ignored"
  cancelled, \* the Cancellation of the interactive session
  cdp,      \* the connection: "none", "open" or "closed"
  failures, \* what went wrong so far: "request", "terminal", "launch",
            \* "operation", "close", "shutdown" or "output"
  reported, \* what the error of the program names
  output,   \* what has been written: "partial", "temporary" or "published"
  broken,   \* history: restoring the terminal met an error
  ended     \* "no", "success", "failure", "killed" or "aborted"

terminal == <<stdout, modes, broken>>
session  == <<cdp, failures, reported>>
program  == <<command, pc, worker, terminal, signals, cancelled, session, output, ended, engine>>

Init ==
  /\ EngineInit
  /\ command \in {"stdout", "snapshot", "doctor", "interactive"}
  /\ pc = "start"
  /\ worker = "none"
  /\ stdout = "free"
  /\ modes = {}
  /\ signals = "default"
  /\ cancelled = FALSE
  /\ cdp = "none"
  /\ failures = {}
  /\ reported = {}
  /\ output = {}
  /\ broken = FALSE
  /\ ended = "no"

-----------------------------------------------------------------------------

\* The main task takes a step; signals and the worker's engine stay as they are.
Main(at, next) ==
  /\ ended = "no"
  /\ pc = at
  /\ pc' = next
  /\ UNCHANGED <<command, engine>>

Met(failure)  == failures' = failures \cup {failure}
Work(job)     == worker' = job

\* restore_terminal_best_effort: every step is tried, and errors are dropped.
Restore ==
  \/ modes' = {} /\ UNCHANGED broken
  \/ modes' \in SUBSET modes /\ broken' = TRUE

\* The exit code is the error's.
Exit ==
  /\ Main("exit", "done")
  /\ ended' = IF reported = {} THEN "success" ELSE "failure"
  /\ UNCHANGED <<worker, terminal, signals, cancelled, session, output>>

\* An error met before there is a browser to clean up after.
FailsEarly(failure) ==
  /\ Met(failure)
  /\ reported' = {failure}
  /\ UNCHANGED <<worker, signals, cancelled, cdp, output, ended>>

-----------------------------------------------------------------------------
(* Entering the terminal. *)

Refuse ==
  /\ Main("start", "exit")
  /\ \/ command # "interactive" /\ FailsEarly("request")
     \/ command = "interactive" /\ FailsEarly("terminal")
  /\ UNCHANGED terminal

EnterRawMode ==
  /\ command = "interactive"
  /\ Main("start", "enter")
  /\ modes' = {"raw"}
  /\ UNCHANGED <<worker, stdout, broken, signals, cancelled, session, output, ended>>

Mut_EnterScreenFails ==
  /\ Main("enter", "exit")
  /\ modes' \in {{"raw"}, {"raw", "screen"}}
  /\ FailsEarly("terminal")
  /\ UNCHANGED <<stdout, broken>>

\* The alternate screen and its modes were written in part.
EnterScreenFails ==
  /\ Main("enter", "undo")
  /\ modes' \in {{"raw"}, {"raw", "screen"}}
  /\ FailsEarly("terminal")
  /\ UNCHANGED <<stdout, broken>>

UndoEnter ==
  /\ Main("undo", "exit")
  /\ Restore
  /\ UNCHANGED <<worker, stdout, signals, cancelled, session, output, ended>>

\* The guard is active, and the task that will watch for signals is spawned.
EnterScreen ==
  /\ Main("enter", "session")
  /\ modes' = {"raw", "screen"}
  /\ signals' = "pending"
  /\ stdout' = "main"
  /\ UNCHANGED <<worker, broken, cancelled, session, output, ended>>

-----------------------------------------------------------------------------
(* From launch to shutdown, for a page, a report or a session. *)

\* The session validates its request, and a cancellation may come first.
OpenSession ==
  /\ \/ /\ Main("session", "restore")
        /\ \/ Met("request") /\ reported' = failures'
           \/ cancelled /\ UNCHANGED <<failures, reported>>
        /\ UNCHANGED worker
     \/ Main("session", "launch") /\ ~cancelled /\ Work("launch") /\ UNCHANGED <<failures, reported>>
  /\ UNCHANGED <<terminal, signals, cancelled, cdp, output, ended>>

StartOneShot ==
  /\ command # "interactive"
  /\ Main("start", "launch")
  /\ Work("launch")
  /\ UNCHANGED <<terminal, signals, cancelled, session, output, ended>>

Mut_RetryLaunch ==
  /\ worker = "launch"
  /\ guard = "failed"
  /\ Main("launch", IF command = "doctor" THEN "publish" ELSE "launch")
  /\ Met("launch")
  /\ worker' = IF command = "doctor" THEN "none" ELSE "launch"
  /\ UNCHANGED <<terminal, signals, cancelled, cdp, reported, output, ended>>

\* A browser that was not found or did not start is a line in doctor's report.
LaunchFailed ==
  /\ worker = "launch"
  /\ guard = "failed"
  /\ Main("launch", CASE command = "doctor"      -> "publish"
                      [] command = "interactive" -> "restore"
                      [] OTHER                   -> "exit")
  /\ Met("launch")
  /\ reported' = IF command = "doctor" THEN {} ELSE failures'
  /\ Work("none")
  /\ UNCHANGED <<terminal, signals, cancelled, cdp, output, ended>>

Launched ==
  /\ worker = "launch"
  /\ guard = "held"
  /\ Main("launch", "connect")
  /\ Work("none")
  /\ UNCHANGED <<terminal, signals, cancelled, session, output, ended>>

\* Without a connection there is none to close.
Connect ==
  /\ \/ Main("connect", "operate") /\ cdp' = "open" /\ UNCHANGED <<failures, worker>>
     \/ Main("connect", "shutdown") /\ Met("operation") /\ Work("shutdown") /\ UNCHANGED cdp
  /\ UNCHANGED <<terminal, signals, cancelled, reported, output, ended>>

\* The page is rendered, the version read, or the user's session ends.
Operate ==
  /\ Main("operate", "close")
  /\ UNCHANGED failures \/ Met("operation")
  /\ UNCHANGED <<worker, terminal, signals, cancelled, cdp, reported, output, ended>>

Mut_PublishWithoutShutdown ==
  /\ Main("close", IF failures = {} THEN "decide" ELSE "shutdown")
  /\ cdp' = "closed"
  /\ UNCHANGED failures \/ Met("close")
  /\ worker' = IF failures = {} THEN "none" ELSE "shutdown"
  /\ UNCHANGED <<terminal, signals, cancelled, reported, output, ended>>

\* The connection is closed, and the browser shut down, whatever failed before.
Close ==
  /\ Main("close", "shutdown")
  /\ cdp' = "closed"
  /\ UNCHANGED failures \/ Met("close")
  /\ Work("shutdown")
  /\ UNCHANGED <<terminal, signals, cancelled, reported, output, ended>>

AwaitShutdown ==
  /\ worker = "drop"
  /\ guard = "gone"
  /\ Main("shutdown", "decide")
  /\ Work("none")
  /\ UNCHANGED <<terminal, signals, cancelled, session, output, ended>>

Mut_finish_with_cleanup ==
  IF "operation" \in failures THEN failures \ {"close", "shutdown"} ELSE failures

\* Both the operation's error and the cleanup's are kept.
finish_with_cleanup == failures

Decide ==
  /\ Main("decide", IF command = "interactive" THEN "restore"
                    ELSE IF command = "doctor" \/ finish_with_cleanup = {} THEN "publish" ELSE "exit")
  /\ reported' = IF command = "doctor" THEN {} ELSE finish_with_cleanup
  /\ UNCHANGED <<worker, terminal, signals, cancelled, cdp, failures, output, ended>>

-----------------------------------------------------------------------------
(* The end of each command. *)

\* The lock is released, the signal task aborted, and the guard restored: from
\* here on signals neither cancel nor kill.
LeaveTerminal ==
  /\ Main("restore", "exit")
  /\ stdout' = "free"
  /\ signals' = IF signals = "pending" THEN "default" ELSE "ignored"
  /\ Restore
  /\ UNCHANGED <<worker, cancelled, session, output, ended>>

WriteStdout ==
  /\ command \in {"stdout", "doctor"}
  /\ Main("publish", "exit")
  /\ \/ output' = {"published"} /\ UNCHANGED <<failures, reported>>
     \/ output' = {"partial"} /\ Met("output") /\ reported' = {"output"}
  /\ UNCHANGED <<worker, terminal, signals, cancelled, cdp, ended>>

\* write_atomic: a file that could not be written is left behind, one that could
\* not be renamed is removed if possible.
WriteTemporary ==
  /\ command = "snapshot"
  /\ \/ Main("publish", "rename") /\ output' = {"temporary"} /\ UNCHANGED <<failures, reported>>
     \/ /\ Main("publish", "exit")
        /\ output' \in {{}, {"temporary"}}
        /\ Met("output")
        /\ reported' = {"output"}
  /\ UNCHANGED <<worker, terminal, signals, cancelled, cdp, ended>>

Rename ==
  /\ Main("rename", "exit")
  /\ \/ output' = {"published"} /\ UNCHANGED <<failures, reported>>
     \/ output' \in {{}, {"temporary"}} /\ Met("output") /\ reported' = {"output"}
  /\ UNCHANGED <<worker, terminal, signals, cancelled, cdp, ended>>

-----------------------------------------------------------------------------
(* The worker. *)

Launch ==
  /\ ended = "no"
  /\ worker = "launch"
  /\ EnginePrepares \/ EngineReaps \/ EngineReady \/ LaunchFails
  /\ UNCHANGED <<command, pc, worker, terminal, signals, cancelled, session, output, ended>>

\* The result of the shutdown counts; the process is dropped after it.
Shutdown ==
  /\ ended = "no"
  /\ worker = "shutdown"
  /\ \/ (GuardCalled \/ EngineReaps) /\ UNCHANGED <<failures, worker>>
     \/ /\ GuardAnswers
        /\ failures' = IF answer' THEN failures ELSE failures \cup {"shutdown"}
        /\ Work("drop")
  /\ UNCHANGED <<command, pc, terminal, signals, cancelled, cdp, reported, output, ended>>

Drop ==
  /\ ended = "no"
  /\ worker = "drop"
  /\ GuardDropped \/ EngineReaps \/ DropDone
  /\ UNCHANGED <<command, pc, worker, terminal, signals, cancelled, session, output, ended>>

-----------------------------------------------------------------------------
(* Signals and panics. *)

\* The spawned task takes over the signals.  If it cannot, it cancels.
WatchSignals ==
  /\ ended = "no"
  /\ signals = "pending"
  /\ \/ signals' = "watched" /\ UNCHANGED cancelled
     \/ signals' \in {"default", "ignored"} /\ cancelled' = TRUE
  /\ UNCHANGED <<command, pc, worker, terminal, session, output, ended, engine>>

\* A watched signal cancels the session, another ends the program where it is.
Signal ==
  /\ ended = "no"
  /\ \/ signals = "watched" /\ cancelled' = TRUE /\ signals' = "ignored" /\ UNCHANGED ended
     \/ signals \in {"default", "pending"} /\ ended' = "killed" /\ UNCHANGED <<cancelled, signals>>
  /\ UNCHANGED <<command, pc, worker, terminal, session, output, engine>>

\* The hook restores the terminal, and the release build aborts.
MainPanics ==
  /\ ended = "no"
  /\ Restore
  /\ ended' = "aborted"
  /\ UNCHANGED <<command, pc, worker, stdout, signals, cancelled, session, output, engine>>

\* The hook writes to standard output.  An interactive main task holds its lock
\* for the whole session, and awaits this worker: both wait for ever.
WorkerPanics ==
  /\ ended = "no"
  /\ worker \in {"launch", "shutdown", "drop"}
  /\ IF stdout = "main"
     THEN Work("blocked") /\ UNCHANGED <<modes, broken, ended>>
     ELSE Restore /\ ended' = "aborted" /\ UNCHANGED worker
  /\ UNCHANGED <<command, pc, stdout, signals, cancelled, session, output, engine>>

-----------------------------------------------------------------------------

EnterTerminal == EnterRawMode \/ EnterScreen \/ EnterScreenFails \/ UndoEnter
Cleanup       == Close \/ AwaitShutdown \/ Decide \/ LeaveTerminal
Publish       == WriteStdout \/ WriteTemporary \/ Rename
Run           == Refuse \/ EnterTerminal \/ OpenSession \/ StartOneShot \/ LaunchFailed \/ Launched
                 \/ Connect \/ Cleanup \/ Publish \/ Exit

Next ==
  Run \/ Operate \/ Launch \/ Shutdown \/ Drop \/ WatchSignals \/ Signal \/ MainPanics \/ WorkerPanics

Spec == Init /\ [][Next]_program

\* Both threads run.  A launch is decided and a drop ends, as EngineProcess
\* shows; an operation ends by its deadlines, or by the cancellation of a session.
\* Nothing makes a signal task run early, a user quit, or a call succeed.
Fairness ==
  /\ WF_program(Run)
  /\ WF_program(Operate /\ (command # "interactive" \/ cancelled))
  /\ WF_program(Launch /\ (EngineReady \/ LaunchFails))
  /\ WF_program(Shutdown /\ (GuardCalled \/ GuardAnswers))
  /\ WF_program(Drop /\ (GuardDropped \/ DropDone))

FairSpec == Spec /\ Fairness

-----------------------------------------------------------------------------

\* A page reaches its file or the standard output only after the connection was
\* closed, Chrome was waited for and its profile is gone, and a report of doctor
\* only after its browser was at least dropped: an output never stands for an
\* operation whose cleanup is still to fail (render_for_output, diagnose).
PublishedAfterCleanup ==
  output # {} => /\ cdp # "open"
                 /\ worker = "none"
                 /\ guard \in {"failed", "gone"}
                 /\ command # "doctor" => Clean /\ failures \subseteq {"output"}

\* However the program ends by itself, by success, error or panic, and wherever
\* entering the terminal stopped, the terminal is left as it was found, unless
\* the terminal refused the restoring writes.  Only a signal that no task watches
\* yet leaves it switched.
TerminalRestored == ended \in {"success", "failure", "aborted"} => modes = {} \/ broken

\* Every failure of a launch, an operation and its cleanup, alone or together, is
\* in the error the program ends with, and no path out of it leaves a browser or
\* a directory, unless their own cleanup met an error (finish_with_cleanup,
\* preserve_operation_cleanup, finish_startup_failure).
ExitAccountsForAll ==
  ended \in {"success", "failure"} =>
    /\ command # "doctor" => reported = failures
    /\ guard \in {"failed", "gone"} \/ process = "none"
    /\ Clean \/ excused

\* A command that renders ends, and so does a session that was cancelled, unless
\* its worker panicked under the main task's lock of standard output.
ProgramEnds ==
  (command # "interactive" \/ cancelled) ~> (ended # "no" \/ worker = "blocked")
=============================================================================
