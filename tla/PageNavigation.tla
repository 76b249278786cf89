--------------------------- MODULE PageNavigation ---------------------------
(***************************************************************************)
(* Which page Chrome shows an interactive session, and which load events   *)
(* its waits take: the navigations of                                      *)
(* apps/termglide/src/external_interactive.rs over the event queue of      *)
(* crates/tg-network/src/cdp.rs.                                           *)
(*                                                                         *)
(* The session navigates when it opens a browser and when an address is    *)
(* submitted, and waits for one Page.loadEventFired each time.  A reload,  *)
(* a followed link and a script navigate without a wait: their events stay *)
(* in the queue, from where the next wait takes them.                      *)
(***************************************************************************)
EXTENDS Integers, SequencesExt

CONSTANTS
  Addresses,      \* what can be navigated to
  Blank,          \* about:blank, which a browser is launched with
  MaxEvents,      \* CdpLimits.max_events
  MaxNavigations, \* bound: documents Chrome shows in one behaviour
  MaxRelaunches   \* ExternalInteractiveLimits.max_relaunches

ASSUME ConstantsAssumption ==
  /\ Blank \notin Addresses
  /\ MaxEvents \in Nat \ {0}
  /\ MaxNavigations \in Nat \ {0}
  /\ MaxRelaunches \in Nat

VARIABLES
  pc,         \* what the session waits for
  opening,    \* whether it navigates for open_running_engine or for the user
  requested,  \* the address it navigates to
  target,     \* ExternalInteractiveState.target, where a recovery returns to
  relaunches,
  events,     \* CdpSession.events: read and not waited for
  wire,       \* sent by Chrome and not read
  document,   \* what Chrome shows: its address and number
  loaded,     \* whether its load event was sent
  taken,      \* whether it has the document of the last Page.navigate
  awaited,    \* history: number of the document the session navigated to
  answered,   \* history: number of the document whose load ended the last wait
  entered,    \* history: the address the user asked for last
  strayed     \* history: a navigation nobody waits for, in this browser

session == <<pc, opening, requested, target, relaunches>>
chrome  == <<document, loaded, taken>>
history == <<awaited, answered, entered, strayed>>
vars    == <<session, events, wire, chrome, history>>

Load     == "Page.loadEventFired"
Event    == [method : {Load, "Page.frameNavigated"}, document : 1..MaxNavigations]
Navigated(number) == [method |-> "Page.frameNavigated", document |-> number]
Loaded(number)    == [method |-> Load, document |-> number]

Init ==
  /\ pc = "navigate"
  /\ opening = TRUE
  /\ target \in Addresses
  /\ requested = target
  /\ relaunches = 0
  /\ events = << >>
  /\ wire = << >>
  /\ document = [address |-> Blank, number |-> 1]
  /\ loaded \in BOOLEAN
  /\ taken = FALSE
  /\ awaited = 0
  /\ answered = 0
  /\ entered = target
  /\ strayed = ~loaded

-----------------------------------------------------------------------------
(* Chrome. *)

Commit(address) ==
  /\ document.number < MaxNavigations
  /\ document' = [address |-> address, number |-> document.number + 1]
  /\ loaded' = FALSE
  /\ wire' = Append(wire, Navigated(document.number + 1))

\* A link, a script, or a reload the session asked for.
Strays ==
  /\ pc # "failed"
  /\ \E address \in Addresses : Commit(address)
  /\ strayed' = TRUE
  /\ UNCHANGED <<session, events, taken, awaited, answered, entered>>

Navigates ==
  /\ pc = "navigate"
  /\ ~taken
  /\ Commit(requested)
  /\ taken' = TRUE
  /\ awaited' = document.number + 1
  /\ UNCHANGED <<session, events, answered, entered, strayed>>

\* A document that is left before it has loaded sends no load event.
Loads ==
  /\ pc # "failed"
  /\ ~loaded
  /\ loaded' = TRUE
  /\ wire' = Append(wire, Loaded(document.number))
  /\ UNCHANGED <<session, events, document, taken, history>>

-----------------------------------------------------------------------------
(* Reading the socket. *)

Fail ==
  /\ pc' = "failed"
  /\ UNCHANGED <<opening, requested, target, relaunches, events, wire, chrome, history>>

\* push_event fails with EventLimit.
Overflows(count) == Len(events) + count > MaxEvents

\* A command reads every event sent before its reply into the queue.
ReadReply(next) ==
  \E count \in 0..Len(wire) :
    IF Overflows(count) THEN Fail
    ELSE /\ events' = events \o SubSeq(wire, 1, count)
         /\ wire' = SubSeq(wire, count + 1, Len(wire))
         /\ pc' = next
         /\ UNCHANGED <<opening, requested, target, relaunches, chrome, history>>

\* A timeout, a lost connection, an error in a reply: the session ends.
OperationFails == pc \notin {"select", "failed"} /\ Fail

-----------------------------------------------------------------------------
(* Navigating and waiting for the load. *)

\* Page.navigate is answered once Chrome has the document.
NavigateDone ==
  /\ pc = "navigate"
  /\ taken
  /\ ReadReply("load")

Mut_ArriveKeepsTarget(event) ==
  /\ pc' = "select"
  /\ answered' = event.document
  /\ opening' = FALSE
  /\ UNCHANGED <<requested, target, relaunches, chrome, awaited, entered, strayed>>

\* Only an address the user submitted becomes the target, once it has loaded.
Arrive(event) ==
  /\ pc' = "select"
  /\ answered' = event.document
  /\ target' = IF opening THEN target ELSE requested
  /\ opening' = FALSE
  /\ UNCHANGED <<requested, relaunches, chrome, awaited, entered, strayed>>

Mut_TakeQueuedKeepsIt ==
  /\ pc = "load"
  /\ \E index \in DOMAIN events : events[index].method = Load /\ Arrive(events[index])
  /\ UNCHANGED <<events, wire>>

\* wait_for_event_in_session takes the oldest queued load event first.
TakeQueued ==
  /\ pc = "load"
  /\ \E index \in DOMAIN events :
       /\ events[index].method = Load
       /\ \A earlier \in 1..(index - 1) : events[earlier].method # Load
       /\ events' = RemoveAt(events, index)
       /\ Arrive(events[index])
  /\ UNCHANGED wire

TakeArriving ==
  /\ pc = "load"
  /\ \A index \in DOMAIN events : events[index].method # Load
  /\ wire # << >>
  /\ IF Head(wire).method = Load
     THEN Arrive(Head(wire)) /\ wire' = Tail(wire) /\ UNCHANGED events
     ELSE IF Overflows(1) THEN Fail
     ELSE /\ events' = Append(events, Head(wire))
          /\ wire' = Tail(wire)
          /\ UNCHANGED <<session, chrome, history>>

-----------------------------------------------------------------------------
(* The event loop. *)

Submit ==
  /\ pc = "select"
  /\ \E address \in Addresses :
       /\ requested' = address
       /\ entered' = address
  /\ pc' = "navigate"
  /\ taken' = FALSE
  /\ UNCHANGED <<opening, target, relaunches, events, wire, document, loaded, awaited, answered, strayed>>

\* A reload, an input, new metrics or a capture: one reply each, no load.
Command ==
  /\ pc = "select"
  /\ pc' = "command"
  /\ UNCHANGED <<opening, requested, target, relaunches, events, wire, chrome, history>>

CommandDone ==
  /\ pc = "command"
  /\ ReadReply("select")

\* Chrome is gone: another one, on another connection, goes to the target.
Recover ==
  /\ pc = "select"
  /\ relaunches < MaxRelaunches
  /\ document.number < MaxNavigations
  /\ relaunches' = relaunches + 1
  /\ pc' = "navigate"
  /\ opening' = TRUE
  /\ requested' = target
  /\ events' = << >>
  /\ wire' = << >>
  /\ document' = [address |-> Blank, number |-> document.number + 1]
  /\ loaded' \in BOOLEAN
  /\ taken' = FALSE
  /\ strayed' = ~loaded'
  /\ UNCHANGED <<target, awaited, answered, entered>>

-----------------------------------------------------------------------------

Browser == Strays \/ Navigates \/ Loads
Wait    == NavigateDone \/ TakeQueued \/ TakeArriving \/ OperationFails
Next    == Browser \/ Wait \/ Submit \/ Command \/ CommandDone \/ Recover

Spec == Init /\ [][Next]_vars

-----------------------------------------------------------------------------
(* Properties. *)

\* Unless this browser went somewhere by itself, the session waits for events
\* over a loaded page, the one the user asked for last, after any number of
\* recoveries; otherwise the wait may end with the load of an earlier page
\* (navigate_to_url, configure_target, recover_if_browser_exited).
ShownIsLoaded ==
  (pc = "select" /\ ~strayed) =>
     /\ document.address = entered
     /\ loaded
     /\ answered = awaited /\ awaited = document.number

\* The load of a document ends one wait at most, and loads end them in the order
\* they came in (wait_for_event_in_session).
LoadsAnswerOnce == [][pc = "load" /\ pc' = "select" => answered < answered']_vars
=============================================================================
