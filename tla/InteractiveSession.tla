-------------------------- MODULE InteractiveSession --------------------------
(***************************************************************************)
(* One interactive session: run_external_interactive and run_loop in       *)
(* apps/termglide/src/external_interactive.rs.                             *)
(*                                                                         *)
(* The session owns one Chrome (EngineProcess) and one connection to it    *)
(* (CdpSession), both taken here at the level of what their calls return.  *)
(* It selects between a cancellation, a timer and terminal events,         *)
(* replaces a browser that exited, and tears everything down whichever way *)
(* it ends.  Chrome may exit and the user may cancel between any two       *)
(* awaits, and every await may fail.                                       *)
(***************************************************************************)
EXTENDS Naturals

CONSTANTS
  MaxEvents,     \* limits.max_events
  MaxRelaunches  \* limits.max_relaunches

ASSUME LimitsAssumption ==
  /\ MaxEvents \in Nat \ {0}
  /\ MaxRelaunches \in 0..1

VARIABLES
  pc,               \* the await, or the decision, the session is at
  running,          \* whether the Option<RunningExternalEngine> is Some
  recovering,       \* whether the browser being opened replaces another
  child,            \* the latest Chrome process
  directories,      \* whether its directories exist
  cdp,              \* whether a connection to it is open
  leaked,           \* history: which cleanups left something behind
  event,            \* the event taken from the stream and not yet handled
  events_processed,
  relaunches,
  launches,         \* history: browsers started
  cancelled,        \* the Cancellation
  operation,        \* how the loop ended
  cleanup           \* whether a cleanup error is returned beside it

engine == <<child, directories, cdp, leaked, launches>>
loop   == <<event, events_processed, relaunches>>
result == <<operation, cleanup>>
vars == <<pc, running, recovering, engine, loop, cancelled, result>>

Opening == {"launch", "connect", "configure", "abandon"}
Looping == {"select", "recover", "handle", "render"}
Places  == Opening \cup Looping \cup {"start", "first", "retire", "close", "done"}
Events  == {"quit", "input", "resize", "unsupported"}

Reports == {"Quit", "EndOfInput", "Cancelled"}
Errors  == {"InvalidRequest", "Engine", "Cdp", "NavigationFailed", "Frame", "Input", "Io",
            "Interactive", "UnsupportedEvent", "EventLimit", "RecoveryExhausted",
            "RecoveryCleanup", "Aborted"}

Init ==
  /\ pc = "start"
  /\ running = FALSE
  /\ recovering = FALSE
  /\ child = "none"
  /\ directories = FALSE
  /\ cdp = FALSE
  /\ leaked = {}
  /\ event = "none"
  /\ events_processed = 0
  /\ relaunches = 0
  /\ launches = 0
  /\ cancelled \in BOOLEAN
  /\ operation = "none"
  /\ cleanup = FALSE

-----------------------------------------------------------------------------
(* The browser and the user. *)

BrowserExits ==
  /\ child = "running"
  /\ child' = "exited"
  /\ UNCHANGED <<pc, running, recovering, directories, cdp, leaked, launches, loop, cancelled, result>>

\* The shutdown signal, or the caller.
Cancel ==
  /\ ~cancelled
  /\ pc # "done"
  /\ cancelled' = TRUE
  /\ UNCHANGED <<pc, running, recovering, engine, loop, result>>

-----------------------------------------------------------------------------
(* How the loop ends, and how a browser does. *)

\* Leaves run_loop, or opening a browser, with a report or an error.
EndWith(how) ==
  /\ pc' = "close"
  /\ operation' = how
  /\ UNCHANGED cleanup

\* cleanup_resources_with_close_policy: closes the connection, then shuts the
\* browser down and drops its guard.  Neither failure keeps the other step from
\* running, and a failure may leave the process, or the directories, behind.
CleanUp(failed) ==
  /\ cdp' = FALSE
  /\ child' \in {"reaped", child}
  /\ directories' \in {FALSE, directories}
  /\ child' # "reaped" => directories' = directories
  /\ IF failed
     THEN leaked' = IF directories' \/ child' # "reaped" THEN leaked \cup {"guard"} ELSE leaked
     ELSE child' = "reaped" /\ ~directories' /\ UNCHANGED leaked
  /\ UNCHANGED launches

-----------------------------------------------------------------------------
(* Opening a browser: open_running_engine, at the start and in a recovery. *)

Start ==
  /\ pc = "start"
  /\ \/ EndWith("InvalidRequest")
     \/ cancelled /\ EndWith("Cancelled")
     \/ ~cancelled /\ pc' = "launch" /\ UNCHANGED result
  /\ UNCHANGED <<running, recovering, engine, loop, cancelled>>

LaunchDone ==
  /\ pc = "launch"
  /\ ~cancelled
  /\ child' = "running"
  /\ directories' = TRUE
  /\ launches' = launches + 1
  /\ pc' = "connect"
  /\ UNCHANGED <<running, recovering, cdp, leaked, loop, cancelled, result>>

\* A launch that fails cleans up after itself, and only logs when it cannot.
LaunchFails ==
  /\ pc = "launch"
  /\ launches' = launches + 1
  /\ \/ UNCHANGED <<child, directories, leaked>>
     \/ /\ child' \in {child, "running", "exited", "reaped"}
        /\ directories' = TRUE
        /\ leaked' = leaked \cup {"launch"}
  /\ EndWith("Engine")
  /\ UNCHANGED <<running, recovering, cdp, loop, cancelled>>

OpeningFails(error) ==
  /\ pc' = "abandon"
  /\ operation' = error
  /\ UNCHANGED cleanup

ConnectDone ==
  /\ pc = "connect"
  /\ child = "running"
  /\ cdp' = TRUE
  /\ pc' = "configure"
  /\ UNCHANGED <<running, recovering, child, directories, leaked, launches, loop, cancelled, result>>

ConnectFails ==
  /\ pc = "connect"
  /\ OpeningFails("Cdp")
  /\ UNCHANGED <<running, recovering, engine, loop, cancelled>>

\* configure_target: attach, set the metrics, navigate to the target and wait.
ConfigureDone ==
  /\ pc = "configure"
  /\ child = "running"
  /\ ~recovering
  /\ running' = TRUE
  /\ pc' = "first"
  /\ UNCHANGED <<recovering, engine, loop, cancelled, result>>

\* The tail of recover_if_browser_exited: the frame baseline is dropped, which a
\* cancellation refuses, and only then is the new browser the session's.
ReopenDone ==
  /\ pc = "configure"
  /\ child = "running"
  /\ recovering
  /\ recovering' = FALSE
  /\ IF cancelled
     THEN OpeningFails("Frame") /\ UNCHANGED <<running, relaunches>>
     ELSE running' = TRUE /\ relaunches' = relaunches + 1 /\ pc' = "render" /\ UNCHANGED result
  /\ UNCHANGED <<engine, event, events_processed, cancelled>>

ConfigureFails ==
  /\ pc = "configure"
  /\ \E error \in {"Cdp", "NavigationFailed"} : OpeningFails(error)
  /\ UNCHANGED <<running, recovering, engine, loop, cancelled>>

\* finish_startup_failure.
Abandon ==
  /\ pc = "abandon"
  /\ \E failed \in BOOLEAN : CleanUp(failed) /\ cleanup' = failed
  /\ pc' = "close"
  /\ UNCHANGED <<running, recovering, loop, cancelled, operation>>

-----------------------------------------------------------------------------
(* run_loop. *)

\* The rest of the select arm: the event, if that is why the loop woke up.
Resume == IF event = "none" THEN "select" ELSE "handle"

First ==
  /\ pc = "first"
  /\ IF cancelled THEN EndWith("Cancelled") ELSE pc' = "render" /\ UNCHANGED result
  /\ UNCHANGED <<running, recovering, engine, loop, cancelled>>

Mut_CancelledOnlyWithAnEvent ==
  /\ pc = "select"
  /\ cancelled
  /\ event # "none"
  /\ EndWith("Cancelled")
  /\ UNCHANGED <<running, recovering, engine, loop, cancelled>>

SelectCancelled ==
  /\ pc = "select"
  /\ cancelled
  /\ EndWith("Cancelled")
  /\ UNCHANGED <<running, recovering, engine, loop, cancelled>>

Mut_TickOnlyWakes ==
  /\ pc = "select"
  /\ pc' = Resume
  /\ UNCHANGED <<running, recovering, engine, loop, cancelled, result>>

\* crash_poll.
SelectTick ==
  /\ pc = "select"
  /\ pc' = "recover"
  /\ UNCHANGED <<running, recovering, engine, loop, cancelled, result>>

SelectEndOfInput ==
  /\ pc = "select"
  /\ EndWith("EndOfInput")
  /\ UNCHANGED <<running, recovering, engine, loop, cancelled>>

SelectEvent ==
  /\ pc = "select"
  /\ events_processed < MaxEvents
  /\ events_processed' = events_processed + 1
  /\ \/ EndWith("Interactive") /\ UNCHANGED event
     \/ event' \in Events /\ pc' = "recover" /\ UNCHANGED result
  /\ UNCHANGED <<running, recovering, engine, relaunches, cancelled>>

SelectEventLimit ==
  /\ pc = "select"
  /\ events_processed >= MaxEvents
  /\ EndWith("EventLimit")
  /\ UNCHANGED <<running, recovering, engine, loop, cancelled>>

RenderDone ==
  /\ pc = "render"
  /\ ~cancelled
  /\ child = "running"
  /\ pc' = Resume
  /\ UNCHANGED <<running, recovering, engine, loop, cancelled, result>>

RenderFails ==
  /\ pc = "render"
  /\ \/ cancelled /\ EndWith("Aborted")
     \/ ~cancelled /\ \E error \in {"Cdp", "Frame", "Io"} : EndWith(error)
  /\ UNCHANGED <<running, recovering, engine, loop, cancelled>>

-----------------------------------------------------------------------------
(* recover_if_browser_exited. *)

BrowserRuns ==
  /\ pc = "recover"
  /\ child = "running"
  /\ pc' = Resume
  /\ UNCHANGED <<running, recovering, engine, loop, cancelled, result>>

\* The poll fails, or it finds the browser gone and cannot remove its data.
PollFails ==
  /\ pc = "recover"
  /\ child' \in {child, IF child = "exited" THEN "reaped" ELSE child}
  /\ EndWith("Engine")
  /\ UNCHANGED <<running, recovering, directories, cdp, leaked, launches, loop, cancelled>>

Mut_BrowserGoneDropsEvent ==
  /\ pc = "recover"
  /\ child \in {"exited", "reaped"}
  /\ child' = "reaped"
  /\ directories' = FALSE
  /\ IF relaunches >= MaxRelaunches
     THEN EndWith("RecoveryExhausted") /\ UNCHANGED <<running, event>>
     ELSE running' = FALSE /\ event' = "none" /\ pc' = "retire" /\ UNCHANGED result
  /\ UNCHANGED <<recovering, cdp, leaked, launches, events_processed, relaunches, cancelled>>

Mut_RelaunchBeforeCleanup ==
  /\ pc = "recover"
  /\ child \in {"exited", "reaped"}
  /\ child' = "reaped"
  /\ directories' = FALSE
  /\ IF relaunches >= MaxRelaunches
     THEN EndWith("RecoveryExhausted") /\ UNCHANGED <<running, recovering>>
     ELSE running' = FALSE /\ recovering' = TRUE /\ pc' = "launch" /\ UNCHANGED result
  /\ UNCHANGED <<cdp, leaked, launches, loop, cancelled>>

BrowserGone ==
  /\ pc = "recover"
  /\ child \in {"exited", "reaped"}
  /\ child' = "reaped"
  /\ directories' = FALSE
  /\ IF relaunches >= MaxRelaunches
     THEN EndWith("RecoveryExhausted") /\ UNCHANGED running
     ELSE running' = FALSE /\ pc' = "retire" /\ UNCHANGED result
  /\ UNCHANGED <<recovering, cdp, leaked, launches, loop, cancelled>>

\* The exited browser's own cleanup; a connection that is simply gone is no error.
Retire ==
  /\ pc = "retire"
  /\ \E failed \in BOOLEAN :
       /\ CleanUp(failed)
       /\ IF failed \/ cancelled
          THEN EndWith(IF failed THEN "RecoveryCleanup" ELSE "Aborted") /\ UNCHANGED recovering
          ELSE pc' = "launch" /\ recovering' = TRUE /\ UNCHANGED result
  /\ UNCHANGED <<running, loop, cancelled>>

-----------------------------------------------------------------------------
(* The event. *)

HandleQuit ==
  /\ pc = "handle"
  /\ event = "quit"
  /\ event' = "none"
  /\ EndWith("Quit")
  /\ UNCHANGED <<running, recovering, engine, events_processed, relaunches, cancelled>>

HandleUnsupported ==
  /\ pc = "handle"
  /\ event = "unsupported"
  /\ event' = "none"
  /\ EndWith("UnsupportedEvent")
  /\ UNCHANGED <<running, recovering, engine, events_processed, relaunches, cancelled>>

\* The address bar took the key: its line is drawn, Chrome is not asked.
HandleLocally ==
  /\ pc = "handle"
  /\ event = "input"
  /\ event' = "none"
  /\ \/ pc' = "select" /\ UNCHANGED result
     \/ EndWith("Io")
  /\ UNCHANGED <<running, recovering, engine, events_processed, relaunches, cancelled>>

\* The event is forwarded to Chrome, or navigates, reloads, zooms or resizes it.
\* Navigating and reloading do not look at the cancellation; the render does.
HandleRemotely ==
  /\ pc = "handle"
  /\ event \in {"input", "resize"}
  /\ event = "resize" => ~cancelled
  /\ child = "running"
  /\ event' = "none"
  /\ pc' = "render"
  /\ UNCHANGED <<running, recovering, engine, events_processed, relaunches, cancelled, result>>

HandleFails ==
  /\ pc = "handle"
  /\ event \in {"input", "resize"}
  /\ event' = "none"
  /\ \/ cancelled /\ EndWith("Aborted")
     \/ \E error \in {"Cdp", "NavigationFailed", "Input", "Frame", "InvalidRequest"} : EndWith(error)
  /\ UNCHANGED <<running, recovering, engine, events_processed, relaunches, cancelled>>

-----------------------------------------------------------------------------
(* The end of run_external_interactive. *)

Mut_CloseOnlyAfterReport ==
  /\ pc = "close"
  /\ IF running /\ operation \in Reports
     THEN \E failed \in BOOLEAN : CleanUp(failed) /\ cleanup' = failed
     ELSE UNCHANGED <<engine, cleanup>>
  /\ running' = FALSE
  /\ pc' = "done"
  /\ UNCHANGED <<recovering, loop, cancelled, operation>>

Close ==
  /\ pc = "close"
  /\ IF running
     THEN \E failed \in BOOLEAN : CleanUp(failed) /\ cleanup' = failed
     ELSE UNCHANGED <<engine, cleanup>>
  /\ running' = FALSE
  /\ pc' = "done"
  /\ UNCHANGED <<recovering, loop, cancelled, operation>>

-----------------------------------------------------------------------------

Open    == Start \/ LaunchDone \/ LaunchFails \/ ConnectDone \/ ConnectFails
           \/ ConfigureDone \/ ReopenDone \/ ConfigureFails \/ Abandon
Wake    == SelectTick \/ SelectEvent \/ SelectEventLimit \/ SelectEndOfInput
Display == First \/ RenderDone \/ RenderFails
Recover == BrowserRuns \/ PollFails \/ BrowserGone \/ Retire
Handle  == HandleQuit \/ HandleUnsupported \/ HandleLocally \/ HandleRemotely \/ HandleFails

Next == BrowserExits \/ Cancel \/ Open \/ SelectCancelled \/ Wake \/ Display \/ Recover \/ Handle \/ Close

Spec == Init /\ [][Next]_vars

\* Launches and CDP calls have deadlines, and the timer ticks.  select! picks at
\* random among the branches that are ready: one that stays ready is taken.
Fairness ==
  /\ WF_vars(Open)
  /\ WF_vars(Display)
  /\ WF_vars(Recover)
  /\ WF_vars(Handle)
  /\ WF_vars(Close)
  /\ WF_vars(SelectTick)
  /\ SF_vars(SelectCancelled)

FairSpec == Spec /\ Fairness

-----------------------------------------------------------------------------

\* The state has its declared shape.
TypeOK ==
  /\ pc \in Places
  /\ running \in BOOLEAN
  /\ recovering \in BOOLEAN
  /\ child \in {"none", "running", "exited", "reaped"}
  /\ directories \in BOOLEAN
  /\ cdp \in BOOLEAN
  /\ leaked \in SUBSET {"launch", "guard"}
  /\ event \in {"none"} \cup Events
  /\ events_processed \in 0..MaxEvents
  /\ relaunches \in 0..MaxRelaunches
  /\ launches \in 0..(1 + MaxRelaunches)
  /\ cancelled \in BOOLEAN
  /\ operation \in {"none"} \cup Reports \cup Errors
  /\ cleanup \in BOOLEAN

Reported == cleanup \/ operation = "RecoveryCleanup"

\* docs/architecture.md, session lifecycle: however the session ends, with a
\* report, an error, a cancellation or in the middle of a recovery, the
\* connection is closed, the browser waited for and its directories removed; a
\* cleanup that failed is reported beside the operation's own result.  What a
\* failed launch leaves is only logged, and excepted here.
LeavesNothingUnreported ==
  pc = "done" /\ ~Reported /\ "launch" \notin leaked =>
    ~cdp /\ ~directories /\ child \in {"none", "reaped"}

\* A browser is only launched once the one before it was waited for, and its
\* directories removed: there are never two.
OneBrowserAtATime ==
  [][launches' > launches => child \in {"none", "reaped"} /\ ~directories /\ ~cdp]_vars

\* The loop never meets a session without a browser (StateUnavailable) or without
\* an open connection, however recoveries, failures and cancellations alternate.
AlwaysAvailable == pc \in Looping => running /\ cdp

\* An event taken from the stream is handled even when the browser it was meant
\* for had to be replaced first, and it is not handled twice.
EventSurvivesRecovery == [][event # "none" /\ event' # event => pc = "handle" /\ event' = "none"]_vars

\* A cancelled session ends.
CancellationEnds == cancelled ~> pc = "done"

\* An exit of the browser is noticed while the session waits for input: it is
\* waited for, or the session is over.
ExitNoticed == (running /\ child = "exited") ~> (child = "reaped" \/ pc = "done")
=============================================================================
