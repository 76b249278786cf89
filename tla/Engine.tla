-------------------------------- MODULE Engine --------------------------------
(***************************************************************************)
(* What launch_external_engine and ExternalEngineProcess, in               *)
(* crates/tg-browser/src/external_engine.rs, promise their owner.          *)
(*                                                                         *)
(* A launch is decided once.  It fails, or hands over a guard.  The guard  *)
(* may answer that its browser is gone, and is dropped.  A failed launch   *)
(* and a dropped guard leave no process and no files, unless their own     *)
(* cleanup met an error.  How a browser is started, polled, killed and     *)
(* waited for, and how its directories are removed, is not the owner's     *)
(* concern: EngineProcess implements this module.                          *)
(***************************************************************************)

VARIABLES
  guard,   \* "launching", "failed", "held", "called", "dropping" or "gone"
  process, \* "none", "alive" until it was waited for, then "reaped"
  files,   \* whether anything of the temporary directories exists
  answer,  \* whether the last call reported that the browser is gone
  cleared, \* whether a call ever removed everything
  excused  \* whether the cleanup that ended last met an error

engine == <<guard, process, files, answer, cleared, excused>>

EngineInit ==
  /\ guard = "launching"
  /\ process = "none"
  /\ files = FALSE
  /\ answer = FALSE
  /\ cleared = FALSE
  /\ excused = FALSE

Clean == process # "alive" /\ ~files

\* The directories come first, then the browser in them.
EnginePrepares ==
  /\ guard = "launching"
  /\ process = "none"
  /\ \/ files' = TRUE /\ UNCHANGED process
     \/ files /\ process' = "alive" /\ UNCHANGED files
  /\ UNCHANGED <<guard, answer, cleared, excused>>

\* The browser is waited for, by a failed launch or by a call of its owner.
EngineReaps ==
  /\ guard \in {"launching", "called", "dropping"}
  /\ process = "alive"
  /\ process' = "reaped"
  /\ UNCHANGED <<guard, files, answer, cleared, excused>>

EngineReady ==
  /\ guard = "launching"
  /\ process = "alive"
  /\ guard' = "held"
  /\ UNCHANGED <<process, files, answer, cleared, excused>>

\* Files only come and go when no browser runs in them: while it cleans up, the
\* helpers of a dead browser may still write.  What is left behind has an error
\* to show for it, and what was cleared away stays away.
EngineEnds(end, met) ==
  /\ guard' = end
  /\ excused' = met
  /\ UNCHANGED process
  /\ files' \in BOOLEAN
  /\ files' # files => process # "alive" /\ ~cleared
  /\ cleared' \in {cleared, TRUE}
  /\ ~met \/ cleared' => Clean'

LaunchFails ==
  /\ guard = "launching"
  /\ \E met \in BOOLEAN : EngineEnds("failed", met)
  /\ UNCHANGED answer

\* try_wait or shutdown, which may find the browser gone as it is called.
GuardCalled ==
  /\ guard = "held"
  /\ guard' = "called"
  /\ answer' = FALSE
  /\ process' \in {process, "reaped"}
  /\ excused' \in {excused, FALSE}
  /\ UNCHANGED <<files, cleared>>

\* The owner is only told that the browser is gone when all of it is.
GuardAnswers ==
  /\ guard = "called"
  /\ \E met \in BOOLEAN : EngineEnds("held", met)
  /\ answer' \in BOOLEAN
  /\ answer' => cleared'

\* A poll that finds the browser alive, or fails, ends as it is made.
GuardPolled ==
  /\ guard = "held"
  /\ answer' = FALSE
  /\ UNCHANGED <<guard, process, files, cleared, excused>>

GuardDropped ==
  /\ guard = "held"
  /\ guard' = "dropping"
  /\ excused' = FALSE
  /\ answer' = FALSE
  /\ UNCHANGED <<process, files, cleared>>

DropDone ==
  /\ guard = "dropping"
  /\ \E met \in BOOLEAN : EngineEnds("gone", met)
  /\ UNCHANGED answer

EngineNext ==
  EnginePrepares \/ EngineReaps \/ EngineReady \/ LaunchFails \/ GuardCalled \/ GuardAnswers
  \/ GuardPolled \/ GuardDropped \/ DropDone

EngineSpec == EngineInit /\ [][EngineNext]_engine
=============================================================================
