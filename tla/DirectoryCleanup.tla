--------------------------- MODULE DirectoryCleanup ---------------------------
(***************************************************************************)
(* Removal of one temporary browser directory:                             *)
(* remove_temporary_directory_with of crates/tg-browser/src/               *)
(* external_engine.rs.                                                     *)
(*                                                                         *)
(* Chromium's helpers may recreate the directory, or hold files in it,     *)
(* after the supervised process exited.  The code sweeps until a second    *)
(* sweep finds nothing, within a deadline.  Time passes at any point: the  *)
(* removal is slow, and a sleep may last longer than asked.                *)
(***************************************************************************)
EXTENDS Integers

CONSTANTS
  Timeout,        \* PROFILE_CLEANUP_TIMEOUT
  PollInterval,   \* PROFILE_CLEANUP_POLL_INTERVAL, the pause after a failure
  SettleInterval, \* PROFILE_CLEANUP_SETTLE_INTERVAL, the pause before verifying
  MaxTime         \* bound: the clock stops there

ASSUME IntervalsAssumption ==
  /\ Timeout \in Nat
  /\ PollInterval \in Nat \ {0}
  /\ SettleInterval \in Nat
  /\ MaxTime \in Nat
  /\ MaxTime >= Timeout

VARIABLES
  now,            \* time since cleanup started
  present,        \* whether the directory exists
  verify_absence, \* whether the last sweep left it missing
  step,           \* "sweep", "check", "pause" or the result
  wake,           \* when a pause ends
  swept           \* history: when the last sweep was clean, {} if it failed

cleanup == <<now, present, verify_absence, step, wake, swept>>

Minimum(a, b) == IF a <= b THEN a ELSE b

CleanupInit ==
  /\ now = 0
  /\ present \in BOOLEAN
  /\ verify_absence = FALSE
  /\ step = "sweep"
  /\ wake = 0
  /\ swept = {}

-----------------------------------------------------------------------------

Return(result) ==
  /\ step' = result
  /\ UNCHANGED <<now, wake>>

Pause(interval) ==
  /\ step' = "pause"
  /\ wake' = now + Minimum(interval, Timeout - now)
  /\ UNCHANGED now

\* remove_dir_all succeeds.
SweepRemoves ==
  /\ step = "sweep"
  /\ present
  /\ present' = FALSE
  /\ swept' = {now}
  /\ IF SettleInterval = 0
     THEN Return("removed") /\ UNCHANGED verify_absence
     ELSE Return("check") /\ verify_absence' = TRUE

\* remove_dir_all finds nothing.
SweepFindsNothing ==
  /\ step = "sweep"
  /\ ~present
  /\ UNCHANGED present
  /\ IF verify_absence \/ SettleInterval = 0
     THEN Return("removed") /\ UNCHANGED <<verify_absence, swept>>
     ELSE Return("check") /\ verify_absence' = TRUE /\ swept' = {now}

Mut_SweepFailsKeepsVerification ==
  /\ step = "sweep"
  /\ UNCHANGED <<present, verify_absence>>
  /\ swept' = {}
  /\ IF now >= Timeout THEN Return("failed") ELSE Pause(PollInterval)

\* remove_dir_all fails part-way: a helper still uses the directory.
SweepFails ==
  /\ step = "sweep"
  /\ UNCHANGED present
  /\ verify_absence' = FALSE
  /\ swept' = {}
  /\ IF now >= Timeout THEN Return("failed") ELSE Pause(PollInterval)

Check ==
  /\ step = "check"
  /\ IF now >= Timeout THEN Return("failed") ELSE Pause(SettleInterval)
  /\ UNCHANGED <<present, verify_absence, swept>>

Wake ==
  /\ step = "pause"
  /\ now >= wake
  /\ step' = "sweep"
  /\ UNCHANGED <<now, present, verify_absence, wake, swept>>

\* A helper recreates the directory, or removes what it made.
Helper ==
  /\ step \in {"sweep", "check", "pause"}
  /\ present' = ~present
  /\ UNCHANGED <<now, verify_absence, step, wake, swept>>

Tick ==
  /\ step \in {"sweep", "check", "pause"}
  /\ now < MaxTime
  /\ now' = now + 1
  /\ UNCHANGED <<present, verify_absence, step, wake, swept>>

Sweep == SweepRemoves \/ SweepFindsNothing \/ SweepFails

CleanupNext == Sweep \/ Check \/ Wake \/ Helper \/ Tick

CleanupSpec == CleanupInit /\ [][CleanupNext]_cleanup

-----------------------------------------------------------------------------

\* The state has its declared shape.
CleanupTypeOK ==
  /\ now \in 0..MaxTime
  /\ present \in BOOLEAN
  /\ verify_absence \in BOOLEAN
  /\ step \in {"sweep", "check", "pause", "removed", "failed"}
  /\ wake \in 0..MaxTime
  /\ swept \in SUBSET (0..MaxTime)

\* Success means the directory is gone when cleanup returns, and that the sweep
\* that found it missing followed another clean one by the settle interval, with
\* no failure in between, unless the deadline cut the pause short.
SettledOrAtDeadline ==
  step = "removed" => /\ ~present
                      /\ swept # {} \/ SettleInterval = 0
                      /\ \A time \in swept : now - time >= SettleInterval \/ now >= Timeout

\* Cleanup gives up only at its deadline: a helper that lets go earlier never
\* costs an error.
FailsOnlyAtDeadline == step = "failed" => now >= Timeout
=============================================================================
