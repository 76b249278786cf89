---------------------------- MODULE EngineProcess ----------------------------
(***************************************************************************)
(* One supervised Chrome: launch_external_engine, ExternalEngineProcess    *)
(* and the cleanup both use, in crates/tg-browser/src/external_engine.rs.  *)
(*                                                                         *)
(* The launcher creates a profile and a scratch directory, spawns Chrome,  *)
(* and polls for its DevTools endpoint.  The guard it returns is polled,   *)
(* shut down and dropped by its owner.  Meanwhile Chrome publishes its     *)
(* port file in pieces, may exit at any time, and any call to the          *)
(* operating system may fail.                                              *)
(***************************************************************************)
EXTENDS Naturals

CONSTANT
  MaxAttempts  \* bound: shutdowns and polls by the owner of one guard

ASSUME AttemptsAssumption == MaxAttempts \in Nat

VARIABLES
  pc,           \* where the launcher, or the owner of the guard, is
  job,          \* what a termination and its cleanup are part of
  child,        \* the Chrome process
  profile,      \* whether the profile directory exists
  scratch,      \* whether the scratch directory exists
  active_port,  \* contents of DevToolsActivePort
  malformed,    \* malformed_active_port: a malformed file was read
  cleaned,      \* temporary_directories_cleaned
  cancelled,    \* the launch's Cancellation
  expired,      \* whether startup_timeout has elapsed
  outcome,      \* what the last call returned
  fault,        \* history: a call of the running cleanup failed
  attempts      \* shutdowns and polls so far

directories == <<profile, scratch, cleaned>>
browser     == <<child, active_port>>
launch      == <<malformed, cancelled, expired>>
vars == <<pc, job, directories, browser, launch, outcome, fault, attempts>>

Launching   == {"profile", "scratch", "spawn", "polling"}
Terminating == {"poll child", "kill", "poll again", "wait"}
Jobs        == {"none", "launch", "try_wait", "shutdown", "drop"}
Errors      == {"Cancelled", "Invalid", "Filesystem", "Spawn", "ProcessIo", "ProcessExited",
                "InvalidDevToolsActivePort", "StartupTimeout"}

Init ==
  /\ pc = "profile"
  /\ job = "none"
  /\ child = "none"
  /\ profile = FALSE
  /\ scratch = FALSE
  /\ active_port = "missing"
  /\ malformed = FALSE
  /\ cleaned = FALSE
  /\ cancelled \in BOOLEAN
  /\ expired = FALSE
  /\ outcome = "none"
  /\ fault = FALSE
  /\ attempts = 0

-----------------------------------------------------------------------------
(* The browser, the clock and the user. *)

BrowserWritesPort ==
  /\ child = "running"
  /\ \/ active_port = "missing" /\ active_port' \in {"partial", "unreadable"}
     \/ active_port \in {"partial", "unreadable"} /\ active_port' = "complete"
  /\ UNCHANGED <<pc, job, directories, child, launch, outcome, fault, attempts>>

\* Chrome crashes or quits.
BrowserExits ==
  /\ child = "running"
  /\ child' = "exited"
  /\ UNCHANGED <<pc, job, directories, active_port, launch, outcome, fault, attempts>>

\* It dies of the signal it was sent.
BrowserDies ==
  /\ child = "killed"
  /\ child' = "exited"
  /\ UNCHANGED <<pc, job, directories, active_port, launch, outcome, fault, attempts>>

Cancel ==
  /\ ~cancelled
  /\ pc \in Launching
  /\ cancelled' = TRUE
  /\ UNCHANGED <<pc, job, directories, browser, malformed, expired, outcome, fault, attempts>>

StartupTimeElapses ==
  /\ pc = "polling"
  /\ ~expired
  /\ expired' = TRUE
  /\ UNCHANGED <<pc, job, directories, browser, malformed, cancelled, outcome, fault, attempts>>

-----------------------------------------------------------------------------
(* Removing the two directories. *)

\* Each removal is one run of DirectoryCleanup.  The scratch directory goes
\* first, and a failure there does not keep the profile.  A removal may fail
\* although the directory is gone, which was not seen to stay away, and leave one
\* that was gone before, which a helper made again.
RemoveDirectories(ok) ==
  /\ profile' \in BOOLEAN
  /\ scratch' \in BOOLEAN
  /\ ok => ~profile' /\ ~scratch'

\* A launch that fails before Chrome runs.
Abort(error) ==
  /\ pc' = "failed"
  /\ outcome' = error
  /\ UNCHANGED <<job, cleaned, browser, launch, attempts>>

-----------------------------------------------------------------------------
(* launch_external_engine. *)

\* A cancelled or invalid launch, or one without a browser, touches nothing.
RefuseLaunch ==
  /\ pc = "profile"
  /\ \/ cancelled /\ Abort("Cancelled")
     \/ ~cancelled /\ Abort("Invalid")
  /\ UNCHANGED <<profile, scratch, fault>>

\* A directory whose permissions cannot be restricted is removed again.
CreateProfile ==
  /\ pc = "profile"
  /\ ~cancelled
  /\ \/ /\ profile' = TRUE
        /\ pc' = "scratch"
        /\ UNCHANGED <<job, cleaned, browser, launch, outcome, fault, attempts>>
     \/ /\ profile' \in BOOLEAN
        /\ fault' = profile'
        /\ Abort("Filesystem")
  /\ UNCHANGED scratch

\* Without a scratch directory the profile is removed.
CreateScratch ==
  /\ pc = "scratch"
  /\ \/ /\ scratch' = TRUE
        /\ pc' = "spawn"
        /\ UNCHANGED <<job, profile, cleaned, browser, launch, outcome, fault, attempts>>
     \/ /\ scratch' \in BOOLEAN
        /\ profile' \in {FALSE, profile}
        /\ fault' \in BOOLEAN
        /\ ~fault' => ~profile' /\ ~scratch'
        /\ Abort("Filesystem")

\* The last point where a cancellation costs no process.
CancelBeforeSpawn ==
  /\ pc = "spawn"
  /\ cancelled
  /\ \/ RemoveDirectories(TRUE) /\ fault' = FALSE /\ Abort("Cancelled")
     \/ RemoveDirectories(FALSE) /\ fault' = TRUE /\ Abort("Filesystem")

SpawnFails ==
  /\ pc = "spawn"
  /\ ~cancelled
  /\ \/ RemoveDirectories(TRUE) /\ fault' = FALSE
     \/ RemoveDirectories(FALSE) /\ fault' = TRUE
  /\ Abort("Spawn")

Spawn ==
  /\ pc = "spawn"
  /\ ~cancelled
  /\ child' = "running"
  /\ pc' = "polling"
  /\ UNCHANGED <<job, directories, active_port, launch, outcome, fault, attempts>>

\* cleanup_failed_launch: terminate, then remove.
FailStartup(error) ==
  /\ pc' = "poll child"
  /\ job' = "launch"
  /\ outcome' = error

PollCancelled ==
  /\ pc = "polling"
  /\ cancelled
  /\ FailStartup("Cancelled")
  /\ UNCHANGED <<directories, browser, launch, fault, attempts>>

PollFails ==
  /\ pc = "polling"
  /\ ~cancelled
  /\ FailStartup("ProcessIo")
  /\ UNCHANGED <<directories, browser, launch, fault, attempts>>

PollExited ==
  /\ pc = "polling"
  /\ ~cancelled
  /\ child = "exited"
  /\ child' = "reaped"
  /\ FailStartup("ProcessExited")
  /\ UNCHANGED <<directories, active_port, launch, fault, attempts>>

PollReady ==
  /\ pc = "polling"
  /\ ~cancelled
  /\ child = "running"
  /\ active_port = "complete"
  /\ pc' = "owned"
  /\ outcome' = "ok"
  /\ UNCHANGED <<job, directories, browser, launch, fault, attempts>>

PollUnreadable ==
  /\ pc = "polling"
  /\ ~cancelled
  /\ child = "running"
  /\ active_port = "unreadable"
  /\ FailStartup("Filesystem")
  /\ UNCHANGED <<directories, browser, launch, fault, attempts>>

Mut_OnlyMalformedExpires ==
  /\ pc = "polling"
  /\ ~cancelled
  /\ child = "running"
  /\ active_port \in {"missing", "partial"}
  /\ malformed' = (malformed \/ active_port = "partial")
  /\ IF expired /\ malformed'
     THEN FailStartup("InvalidDevToolsActivePort")
     ELSE UNCHANGED <<pc, job, outcome>>
  /\ UNCHANGED <<directories, browser, cancelled, expired, fault, attempts>>

\* A missing or malformed file is read again until the startup deadline, which
\* is looked at last: a file that is complete by then still counts.
PollNotReady ==
  /\ pc = "polling"
  /\ ~cancelled
  /\ child = "running"
  /\ active_port \in {"missing", "partial"}
  /\ malformed' = (malformed \/ active_port = "partial")
  /\ IF expired
     THEN FailStartup(IF malformed' THEN "InvalidDevToolsActivePort" ELSE "StartupTimeout")
     ELSE UNCHANGED <<pc, job, outcome>>
  /\ UNCHANGED <<directories, browser, cancelled, expired, fault, attempts>>

-----------------------------------------------------------------------------
(* terminate_child, run by a failed launch, a shutdown or a drop. *)

Reap(next) ==
  /\ child' = "reaped"
  /\ pc' = next
  /\ UNCHANGED <<job, directories, active_port, launch, outcome, fault, attempts>>

\* The browser may still run: its directories stay, and the guard with them.
TerminationFails ==
  /\ fault' = TRUE
  /\ pc' = CASE job = "launch"   -> "failed"
             [] job = "shutdown" -> "owned"
             [] job = "drop"     -> "gone"
  /\ outcome' = IF job = "launch" THEN outcome ELSE "ProcessIo"
  /\ UNCHANGED <<job, directories, browser, launch, attempts>>

PollChild ==
  /\ pc = "poll child"
  /\ \/ child \in {"exited", "reaped"} /\ Reap("remove")
     \/ /\ child \in {"running", "killed"}
        /\ pc' = "kill"
        /\ UNCHANGED <<job, directories, browser, launch, outcome, fault, attempts>>
     \/ TerminationFails

Mut_KillFailureIgnored ==
  /\ pc = "kill"
  /\ child' \in {child, IF child = "running" THEN "killed" ELSE child}
  /\ pc' = "wait"
  /\ UNCHANGED <<job, directories, active_port, launch, outcome, fault, attempts>>

Kill ==
  /\ pc = "kill"
  /\ \/ child' = (IF child = "running" THEN "killed" ELSE child) /\ pc' = "wait"
     \/ child' = child /\ pc' = "poll again"
  /\ UNCHANGED <<job, directories, active_port, launch, outcome, fault, attempts>>

\* A signal that could not be sent is no failure when the child exited meanwhile.
PollAgain ==
  /\ pc = "poll again"
  /\ \/ child = "exited" /\ Reap("remove")
     \/ TerminationFails

WaitForExit ==
  /\ pc = "wait"
  /\ child = "exited"
  /\ Reap("remove")

WaitFails ==
  /\ pc = "wait"
  /\ TerminationFails

\* A failed launch keeps the error it failed with.
RemovalReturns(ok) ==
  /\ cleaned' = (ok /\ job # "launch")
  /\ outcome' = IF job = "launch" THEN outcome ELSE IF ok THEN "ok" ELSE "Filesystem"
  /\ fault' = (fault \/ ~ok)

\* The removal ends, and with it what it was part of.
Finish ==
  /\ pc' = CASE job = "launch" -> "failed" [] job = "drop" -> "gone" [] OTHER -> "owned"
  /\ UNCHANGED <<job, browser, launch, attempts>>

SkipRemoval ==
  /\ pc = "remove"
  /\ cleaned
  /\ job # "launch"
  /\ outcome' = "ok"
  /\ UNCHANGED <<directories, fault>>
  /\ Finish

\* cleanup_temporary_directories, or the removal of a failed launch.
Remove ==
  /\ pc = "remove"
  /\ ~cleaned
  /\ \E ok \in BOOLEAN : RemoveDirectories(ok) /\ RemovalReturns(ok)
  /\ Finish

-----------------------------------------------------------------------------
(* The owner of the guard. *)

\* try_wait removes the directories of a browser it finds gone.
TryWait ==
  /\ pc = "owned"
  /\ attempts < MaxAttempts
  /\ attempts' = attempts + 1
  /\ \/ /\ child \in {"exited", "reaped"}
        /\ child' = "reaped"
        /\ pc' = "remove"
        /\ job' = "try_wait"
        /\ UNCHANGED outcome
     \/ /\ child \in {"running", "killed"}
        /\ job' = "none"
        /\ outcome' = "ok"
        /\ UNCHANGED <<pc, child>>
     \/ /\ job' = "none"
        /\ outcome' = "ProcessIo"
        /\ UNCHANGED <<pc, child>>
  /\ UNCHANGED <<directories, active_port, launch, fault>>

Shutdown ==
  /\ pc = "owned"
  /\ attempts < MaxAttempts
  /\ attempts' = attempts + 1
  /\ pc' = "poll child"
  /\ job' = "shutdown"
  /\ fault' = FALSE
  /\ UNCHANGED <<directories, browser, launch, outcome>>

Mut_DropOnlyWhenUntouched ==
  /\ pc = "owned"
  /\ pc' = IF job = "shutdown" THEN "gone" ELSE "poll child"
  /\ job' = "drop"
  /\ fault' = FALSE
  /\ UNCHANGED <<directories, browser, launch, outcome, attempts>>

\* Dropping the guard shuts down once more, whatever a shutdown returned.
DropGuard ==
  /\ pc = "owned"
  /\ pc' = "poll child"
  /\ job' = "drop"
  /\ fault' = FALSE
  /\ UNCHANGED <<directories, browser, launch, outcome, attempts>>

-----------------------------------------------------------------------------

Environment == BrowserWritesPort \/ BrowserExits \/ BrowserDies \/ Cancel \/ StartupTimeElapses
Prepare     == RefuseLaunch \/ CreateProfile \/ CreateScratch \/ CancelBeforeSpawn \/ SpawnFails \/ Spawn
Poll        == PollCancelled \/ PollExited \/ PollReady \/ PollUnreadable \/ PollNotReady
Terminate   == PollChild \/ Kill \/ PollAgain \/ WaitForExit \/ SkipRemoval \/ Remove
SystemFails == PollFails \/ WaitFails
Owner       == TryWait \/ Shutdown \/ DropGuard

Next == Environment \/ Prepare \/ Poll \/ Terminate \/ SystemFails \/ Owner

Spec == Init /\ [][Next]_vars

-----------------------------------------------------------------------------

\* The state has its declared shape, and a failed launch has an error to report.
TypeOK ==
  /\ pc \in Launching \cup Terminating \cup {"remove", "owned", "failed", "gone"}
  /\ job \in Jobs
  /\ child \in {"none", "running", "killed", "exited", "reaped"}
  /\ profile \in BOOLEAN
  /\ scratch \in BOOLEAN
  /\ active_port \in {"missing", "partial", "unreadable", "complete"}
  /\ malformed \in BOOLEAN
  /\ cleaned \in BOOLEAN
  /\ cancelled \in BOOLEAN
  /\ expired \in BOOLEAN
  /\ outcome \in {"none", "ok"} \cup Errors
  /\ fault \in BOOLEAN
  /\ attempts \in 0..MaxAttempts
  /\ pc = "failed" => outcome \in Errors

NothingLeft == ~profile /\ ~scratch /\ child \in {"none", "reaped"}

\* A profile or scratch directory is only removed when no browser was started
\* in it, or the browser was waited for: never under a live one, not even one
\* that was sent its kill signal.
NoRemovalUnderBrowser ==
  [][(profile /\ ~profile') \/ (scratch /\ ~scratch') => child \in {"none", "reaped"}]_vars

\* A launch that fails, for whatever reason and at whatever point, leaves no
\* process, no zombie and no directory, unless its own cleanup met an error.
FailedLaunchLeavesNothing == pc = "failed" /\ ~fault => NothingLeft

\* A dropped guard leaves nothing either, even after shutdowns that failed and
\* exits observed before: only an error of the drop's own cleanup excuses it.
DropLeavesNothing == pc = "gone" /\ ~fault => NothingLeft

\* A shutdown that reports success has removed everything, and the flag that
\* makes later cleanups skip the removal is only set once there is nothing left.
SuccessMeansRemoved ==
  /\ pc = "owned" /\ job \in {"shutdown", "try_wait"} /\ outcome = "ok" => NothingLeft
  /\ cleaned => NothingLeft

\* A launch is decided: the guard is handed over or the launch fails.
LaunchDecides == <>(pc \in {"owned", "failed"})

\* A dropped guard is gone in the end: the wait for a killed browser ends.
DropEnds == job = "drop" ~> pc = "gone"

-----------------------------------------------------------------------------
(* The owner's view: the browser counts as alive until it was waited for. *)

Guard ==
  LET ending == pc \in Terminating \cup {"remove"}
  IN  CASE pc \in Launching \/ (ending /\ job = "launch")    -> "launching"
        [] pc = "owned"                                      -> "held"
        [] ending /\ job \in {"try_wait", "shutdown"}         -> "called"
        [] ending /\ job = "drop"                            -> "dropping"
        [] pc \in {"failed", "gone"}                         -> pc

Process == IF child \in {"none", "reaped"} THEN child ELSE "alive"

Promise == INSTANCE Engine WITH
  guard   <- Guard,
  process <- Process,
  files   <- (profile \/ scratch),
  answer  <- (pc = "owned" /\ job \in {"shutdown", "try_wait"} /\ outcome = "ok"),
  cleared <- cleaned,
  excused <- fault

\* The supervised process keeps every promise of Engine: a launch is decided
\* once, no file goes while the browser may run, a guard that reports its browser
\* gone has removed everything, and a failed launch or a dropped guard that left
\* something had an error to show for it.
ImplementsEngine == Promise!EngineSpec
=============================================================================
