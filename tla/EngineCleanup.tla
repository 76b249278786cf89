---------------------------- MODULE EngineCleanup ----------------------------
(***************************************************************************)
(* A supervised browser together with the removal of its directories:      *)
(* EngineProcess, whose Remove takes one step, with each removal run step  *)
(* by step as DirectoryCleanup does it, against the helpers of the dead    *)
(* browser and the clock.  remove_engine_directories, in                   *)
(* crates/tg-browser/src/external_engine.rs, runs the one cleanup and then *)
(* the other.                                                              *)
(*                                                                         *)
(* A directory that was seen to stay away stays away: what a helper does   *)
(* to it later is outside the code's reach.                                *)
(***************************************************************************)
EXTENDS EngineProcess, DirectoryCleanup

VARIABLES
  removing,       \* which directory a running cleanup removes, if any
  scratch_cleanup \* what the scratch directory's cleanup returned and left

joined == <<vars, cleanup, removing, scratch_cleanup>>

JoinedInit ==
  /\ Init
  /\ CleanupInit
  /\ ~present
  /\ removing = "none"
  /\ scratch_cleanup = [result |-> "removed", left |-> FALSE]

\* Everything but the removal of the directories of a browser that ran.
EngineSteps ==
  /\ Environment \/ Prepare \/ Poll \/ SystemFails \/ Owner
     \/ PollChild \/ Kill \/ PollAgain \/ WaitForExit \/ SkipRemoval
  /\ UNCHANGED <<cleanup, removing, scratch_cleanup>>

StartCleanup(exists) ==
  /\ now' = 0
  /\ present' = exists
  /\ verify_absence' = FALSE
  /\ step' = "sweep"
  /\ wake' = 0
  /\ swept' = {}

RemoveScratch ==
  /\ pc = "remove"
  /\ ~cleaned
  /\ removing = "none"
  /\ removing' = "scratch"
  /\ StartCleanup(scratch)
  /\ UNCHANGED <<vars, scratch_cleanup>>

\* The profile is cleaned up whether or not the scratch directory could be.
RemoveProfile ==
  /\ removing = "scratch"
  /\ step \in {"removed", "failed"}
  /\ removing' = "profile"
  /\ scratch_cleanup' = [result |-> step, left |-> present]
  /\ StartCleanup(profile)
  /\ UNCHANGED vars

CleanupSteps ==
  /\ removing # "none"
  /\ CleanupNext
  /\ UNCHANGED <<vars, removing, scratch_cleanup>>

Mut_ScratchErrorLost ==
  /\ removing = "profile"
  /\ step \in {"removed", "failed"}
  /\ removing' = "none"
  /\ profile' = present
  /\ scratch' = scratch_cleanup.left
  /\ RemovalReturns(step = "removed")
  /\ Finish
  /\ UNCHANGED <<cleanup, scratch_cleanup>>

\* Both results count, and both were waited for.
RemovalDone ==
  /\ removing = "profile"
  /\ step \in {"removed", "failed"}
  /\ removing' = "none"
  /\ profile' = present
  /\ scratch' = scratch_cleanup.left
  /\ RemovalReturns(step = "removed" /\ scratch_cleanup.result = "removed")
  /\ Finish
  /\ UNCHANGED <<cleanup, scratch_cleanup>>

JoinedNext == EngineSteps \/ RemoveScratch \/ RemoveProfile \/ CleanupSteps \/ RemovalDone

JoinedSpec == JoinedInit /\ [][JoinedNext]_joined

\* The launching or owning thread runs, time passes, and a killed browser dies;
\* nothing makes a helper let go of a directory.
JoinedFairness ==
  /\ WF_joined(EngineSteps /\ (Prepare \/ Poll \/ PollChild \/ Kill \/ PollAgain \/ WaitForExit \/ SkipRemoval))
  /\ WF_joined(EngineSteps /\ StartupTimeElapses)
  /\ WF_joined(EngineSteps /\ BrowserDies)
  /\ WF_joined(RemoveScratch)
  /\ WF_joined(RemoveProfile)
  /\ WF_joined(RemovalDone)
  /\ WF_joined(CleanupSteps /\ (Sweep \/ Check \/ Wake))
  /\ WF_joined(CleanupSteps /\ Tick)

JoinedFairSpec == JoinedSpec /\ JoinedFairness

-----------------------------------------------------------------------------

\* To a browser's supervisor the two cleanups, with all the sweeps, pauses and
\* helpers in them, are one removal: remove_engine_directories succeeds only if
\* both directories are gone, and tries the second whatever became of the first.
RemovalIsOneStep == Spec
=============================================================================
