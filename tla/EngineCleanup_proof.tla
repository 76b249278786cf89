------------------------- MODULE EngineCleanup_proof -------------------------
(***************************************************************************)
(* Proofs about a supervised browser (EngineProcess), the removal of a     *)
(* directory (DirectoryCleanup) and the two together (EngineCleanup), for  *)
(* every number of polls and shutdowns, every deadline and every interval. *)
(***************************************************************************)
EXTENDS EngineCleanup, TLAPS

-----------------------------------------------------------------------------
(* The supervised browser. *)

\* Before Chrome is spawned there is no process, and only what the launcher has
\* created so far.
NotSpawned ==
  pc \in {"profile", "scratch", "spawn"} =>
    /\ child = "none"
    /\ ~cleaned
    /\ ~fault
    /\ pc = "profile" => ~profile
    /\ pc # "spawn" => ~scratch

\* A poll belongs to no termination.
NotTerminating == pc \in Launching => job = "none"

\* A termination knows what it is part of; a failed launch has its error already.
HasJob ==
  /\ pc \in Terminating => job \in {"launch", "shutdown", "drop"}
  /\ pc = "remove" => job \in Jobs \ {"none"}
  /\ pc \in Terminating \cup {"remove"} /\ job = "launch" => outcome \in Errors

\* Directories are only removed once the browser was waited for.
WaitedFor == pc = "remove" => child = "reaped"

\* Each termination ends with nothing left, or with a fault.
EndsClean ==
  /\ FailedLaunchLeavesNothing
  /\ DropLeavesNothing
  /\ SuccessMeansRemoved

\* The two halves of TypeOK, which different provers handle.
Shape ==
  /\ pc \in Launching \cup Terminating \cup {"remove", "owned", "failed", "gone"}
  /\ job \in Jobs
  /\ child \in {"none", "running", "killed", "exited", "reaped"}
  /\ active_port \in {"missing", "partial", "unreadable", "complete"}
  /\ outcome \in {"none", "ok"} \cup Errors
  /\ attempts \in 0..MaxAttempts
  /\ pc = "failed" => outcome \in Errors

Flags ==
  /\ profile \in BOOLEAN
  /\ scratch \in BOOLEAN
  /\ malformed \in BOOLEAN
  /\ cleaned \in BOOLEAN
  /\ cancelled \in BOOLEAN
  /\ expired \in BOOLEAN
  /\ fault \in BOOLEAN

LEMMA TypeParts == TypeOK <=> Shape /\ Flags
BY DEF TypeOK, Shape, Flags

IInv == Shape /\ Flags /\ NotSpawned /\ NotTerminating /\ HasJob /\ WaitedFor /\ EndsClean

LEMMA InitIInv == Init => IInv
<1> SUFFICES ASSUME Init PROVE IInv
  OBVIOUS
<1> USE DEF Init, Launching, Terminating, Jobs, Errors
<1>1. attempts \in 0..MaxAttempts
  BY AttemptsAssumption
<1>2. Shape
  BY <1>1, Zenon DEF Shape
<1>3. Flags
  BY DEF Flags
<1>4. NotSpawned /\ NotTerminating /\ HasJob /\ WaitedFor
  BY Zenon DEF NotSpawned, NotTerminating, HasJob, WaitedFor
<1>5. EndsClean
  BY Zenon DEF EndsClean, FailedLaunchLeavesNothing, DropLeavesNothing, SuccessMeansRemoved
<1> QED BY <1>2, <1>3, <1>4, <1>5 DEF IInv

LEMMA OneMoreAttempt ==
  ASSUME attempts \in 0..MaxAttempts, attempts < MaxAttempts, attempts' = attempts + 1
  PROVE  attempts' \in 0..MaxAttempts
BY AttemptsAssumption

USE DEF directories, browser, launch
LEMMA StepKeepsIInv == IInv /\ [Next]_vars => IInv'
<1> SUFFICES ASSUME IInv, [Next]_vars PROVE IInv'
  OBVIOUS
<1> USE AttemptsAssumption DEF IInv, Launching, Terminating, Jobs, Errors
<1>1. ASSUME BrowserWritesPort PROVE IInv'
  <2>1. Shape'
    BY <1>1 DEF BrowserWritesPort, Shape, HasJob
  <2>2. Flags'
    BY <1>1 DEF BrowserWritesPort, Flags
  <2>3. (NotSpawned /\ NotTerminating /\ HasJob /\ WaitedFor)'
    BY <1>1 DEF BrowserWritesPort, Shape, NotSpawned, NotTerminating, HasJob, WaitedFor
  <2>4. EndsClean'
    BY <1>1 DEF BrowserWritesPort, Shape, NotSpawned, NotTerminating, HasJob, WaitedFor, EndsClean,
       FailedLaunchLeavesNothing, DropLeavesNothing, SuccessMeansRemoved, NothingLeft
  <2> QED BY <2>1, <2>2, <2>3, <2>4
<1>2. ASSUME BrowserExits PROVE IInv'
  <2>1. Shape'
    BY <1>2 DEF BrowserExits, Shape, HasJob
  <2>2. Flags'
    BY <1>2 DEF BrowserExits, Flags
  <2>3. (NotSpawned /\ NotTerminating /\ HasJob /\ WaitedFor)'
    BY <1>2 DEF BrowserExits, Shape, NotSpawned, NotTerminating, HasJob, WaitedFor
  <2>4. EndsClean'
    BY <1>2 DEF BrowserExits, Shape, NotSpawned, NotTerminating, HasJob, WaitedFor, EndsClean,
       FailedLaunchLeavesNothing, DropLeavesNothing, SuccessMeansRemoved, NothingLeft
  <2> QED BY <2>1, <2>2, <2>3, <2>4
<1>3. ASSUME BrowserDies PROVE IInv'
  <2>1. Shape'
    BY <1>3 DEF BrowserDies, Shape, HasJob
  <2>2. Flags'
    BY <1>3 DEF BrowserDies, Flags
  <2>3. (NotSpawned /\ NotTerminating /\ HasJob /\ WaitedFor)'
    BY <1>3 DEF BrowserDies, Shape, NotSpawned, NotTerminating, HasJob, WaitedFor
  <2>4. EndsClean'
    BY <1>3 DEF BrowserDies, Shape, NotSpawned, NotTerminating, HasJob, WaitedFor, EndsClean,
       FailedLaunchLeavesNothing, DropLeavesNothing, SuccessMeansRemoved, NothingLeft
  <2> QED BY <2>1, <2>2, <2>3, <2>4
<1>4. ASSUME Cancel PROVE IInv'
  <2>1. Shape'
    BY ZenonT(40), <1>4 DEF Cancel, Shape, HasJob
  <2>2. Flags'
    BY <1>4 DEF Cancel, Flags
  <2>3. (NotSpawned /\ NotTerminating /\ HasJob /\ WaitedFor)'
    BY <1>4 DEF Cancel, Shape, NotSpawned, NotTerminating, HasJob, WaitedFor
  <2>4. EndsClean'
    BY <1>4 DEF Cancel, Shape, NotSpawned, NotTerminating, HasJob, WaitedFor, EndsClean,
       FailedLaunchLeavesNothing, DropLeavesNothing, SuccessMeansRemoved, NothingLeft
  <2> QED BY <2>1, <2>2, <2>3, <2>4
<1>5. ASSUME StartupTimeElapses PROVE IInv'
  <2>1. Shape'
    BY <1>5 DEF StartupTimeElapses, Shape, HasJob
  <2>2. Flags'
    BY <1>5 DEF StartupTimeElapses, Flags
  <2>3. (NotSpawned /\ NotTerminating /\ HasJob /\ WaitedFor)'
    BY <1>5 DEF StartupTimeElapses, Shape, NotSpawned, NotTerminating, HasJob, WaitedFor
  <2>4. EndsClean'
    BY <1>5 DEF StartupTimeElapses, Shape, NotSpawned, NotTerminating, HasJob, WaitedFor, EndsClean,
       FailedLaunchLeavesNothing, DropLeavesNothing, SuccessMeansRemoved, NothingLeft
  <2> QED BY <2>1, <2>2, <2>3, <2>4
<1>6. ASSUME RefuseLaunch PROVE IInv'
  <2>1. Shape'
    BY <1>6 DEF RefuseLaunch, Abort, Shape, HasJob
  <2>2. Flags'
    BY <1>6 DEF RefuseLaunch, Abort, Flags
  <2>3. (NotSpawned /\ NotTerminating /\ HasJob /\ WaitedFor)'
    BY <1>6 DEF RefuseLaunch, Abort, Shape, NotSpawned, NotTerminating, HasJob, WaitedFor
  <2>4. EndsClean'
    BY <1>6 DEF RefuseLaunch, Abort, Shape, NotSpawned, NotTerminating, HasJob, WaitedFor, EndsClean,
       FailedLaunchLeavesNothing, DropLeavesNothing, SuccessMeansRemoved, NothingLeft
  <2> QED BY <2>1, <2>2, <2>3, <2>4
<1>7. ASSUME CreateProfile PROVE IInv'
  <2>1. Shape'
    BY <1>7 DEF CreateProfile, Abort, Shape, HasJob
  <2>2. Flags'
    BY <1>7 DEF CreateProfile, Abort, Flags
  <2>3. (NotSpawned /\ NotTerminating /\ HasJob /\ WaitedFor)'
    <3>1. CASE pc' = "scratch"
      BY <1>7, <3>1 DEF CreateProfile, Abort, Flags, NotSpawned, NotTerminating, HasJob, WaitedFor
    <3>2. CASE pc' = "failed"
      BY <3>2 DEF NotSpawned, NotTerminating, HasJob, WaitedFor
    <3> QED BY <1>7, <3>1, <3>2 DEF CreateProfile, Abort
  <2>4. EndsClean'
    BY <1>7 DEF CreateProfile, Abort, Shape, NotSpawned, NotTerminating, HasJob, WaitedFor, EndsClean,
       FailedLaunchLeavesNothing, DropLeavesNothing, SuccessMeansRemoved, NothingLeft
  <2> QED BY <2>1, <2>2, <2>3, <2>4
<1>8. ASSUME CreateScratch PROVE IInv'
  <2>1. Shape'
    BY <1>8 DEF CreateScratch, Abort, Shape, HasJob
  <2>2. Flags'
    BY <1>8 DEF CreateScratch, Abort, Flags
  <2>3. (NotSpawned /\ NotTerminating /\ HasJob /\ WaitedFor)'
    <3>1. CASE pc' = "spawn"
      BY <1>8, <3>1 DEF CreateScratch, Abort, Flags, NotSpawned, NotTerminating, HasJob, WaitedFor
    <3>2. CASE pc' = "failed"
      BY <3>2 DEF NotSpawned, NotTerminating, HasJob, WaitedFor
    <3> QED BY <1>8, <3>1, <3>2 DEF CreateScratch, Abort
  <2>4. EndsClean'
    <3>1. CASE pc' = "spawn"
      BY <1>8, <3>1 DEF CreateScratch, Abort, NotSpawned, NotTerminating, EndsClean,
       FailedLaunchLeavesNothing, DropLeavesNothing, SuccessMeansRemoved, NothingLeft
    <3>2. CASE pc' = "failed"
      <4>1. child' = "none" /\ job' = "none" /\ ~cleaned'
        BY <1>8, <3>2 DEF CreateScratch, Abort, NotSpawned, NotTerminating
      <4>2. fault' \/ (~profile' /\ ~scratch')
        BY <1>8, <3>2, <2>2, Zenon DEF CreateScratch, Flags
      <4> QED
        BY <3>2, <4>1, <4>2 DEF EndsClean,
       FailedLaunchLeavesNothing, DropLeavesNothing, SuccessMeansRemoved, NothingLeft
    <3> QED BY <1>8, <3>1, <3>2 DEF CreateScratch, Abort
  <2> QED BY <2>1, <2>2, <2>3, <2>4
<1>9. ASSUME CancelBeforeSpawn PROVE IInv'
  <2>1. Shape'
    BY <1>9 DEF CancelBeforeSpawn, Abort, RemoveDirectories, Shape, HasJob
  <2>2. Flags'
    BY <1>9 DEF CancelBeforeSpawn, Abort, RemoveDirectories, Flags
  <2>3. (NotSpawned /\ NotTerminating /\ HasJob /\ WaitedFor)'
    BY <1>9 DEF CancelBeforeSpawn, Abort, RemoveDirectories, Shape, NotSpawned, NotTerminating, HasJob, WaitedFor
  <2>4. EndsClean'
    <3>1. pc' = "failed" /\ job' = "none" /\ child' = "none" /\ ~cleaned'
      <4>1. pc = "spawn" /\ pc' = "failed" /\ UNCHANGED <<job, child, cleaned>>
        BY <1>9, Zenon DEF CancelBeforeSpawn, Abort
      <4> QED
        BY <4>1 DEF NotSpawned, NotTerminating
    <3>2. ~fault' => ~profile' /\ ~scratch'
      BY <1>9 DEF CancelBeforeSpawn, RemoveDirectories
    <3> QED
      BY <3>1, <3>2 DEF EndsClean, FailedLaunchLeavesNothing,
             DropLeavesNothing, SuccessMeansRemoved, NothingLeft
  <2> QED BY <2>1, <2>2, <2>3, <2>4
<1>10. ASSUME SpawnFails PROVE IInv'
  <2>1. Shape'
    BY <1>10 DEF SpawnFails, Abort, RemoveDirectories, Shape, HasJob
  <2>2. Flags'
    BY <1>10 DEF SpawnFails, Abort, RemoveDirectories, Flags
  <2>3. (NotSpawned /\ NotTerminating /\ HasJob /\ WaitedFor)'
    BY <1>10 DEF SpawnFails, Abort, RemoveDirectories, Shape, NotSpawned, NotTerminating, HasJob, WaitedFor
  <2>4. EndsClean'
    BY <1>10 DEF SpawnFails, Abort, RemoveDirectories, Shape, NotSpawned, NotTerminating, HasJob, WaitedFor, EndsClean,
       FailedLaunchLeavesNothing, DropLeavesNothing, SuccessMeansRemoved, NothingLeft
  <2> QED BY <2>1, <2>2, <2>3, <2>4
<1>11. ASSUME Spawn PROVE IInv'
  <2>1. Shape'
    BY <1>11 DEF Spawn, Shape, HasJob
  <2>2. Flags'
    BY <1>11 DEF Spawn, Flags
  <2>3. (NotSpawned /\ NotTerminating /\ HasJob /\ WaitedFor)'
    BY <1>11 DEF Spawn, Shape, NotSpawned, NotTerminating, HasJob, WaitedFor
  <2>4. EndsClean'
    BY <1>11 DEF Spawn, Shape, NotSpawned, NotTerminating, HasJob, WaitedFor, EndsClean,
       FailedLaunchLeavesNothing, DropLeavesNothing, SuccessMeansRemoved, NothingLeft
  <2> QED BY <2>1, <2>2, <2>3, <2>4
<1>12. ASSUME PollCancelled PROVE IInv'
  <2>1. Shape'
    BY <1>12 DEF PollCancelled, FailStartup, Shape, HasJob
  <2>2. Flags'
    BY <1>12 DEF PollCancelled, FailStartup, Flags
  <2>3. (NotSpawned /\ NotTerminating /\ HasJob /\ WaitedFor)'
    BY <1>12 DEF PollCancelled, FailStartup, Shape, NotSpawned, NotTerminating, HasJob, WaitedFor
  <2>4. EndsClean'
    BY <1>12 DEF PollCancelled, FailStartup, Shape, NotSpawned, NotTerminating, HasJob, WaitedFor, EndsClean,
       FailedLaunchLeavesNothing, DropLeavesNothing, SuccessMeansRemoved, NothingLeft
  <2> QED BY <2>1, <2>2, <2>3, <2>4
<1>13. ASSUME PollFails PROVE IInv'
  <2>1. Shape'
    BY <1>13 DEF PollFails, FailStartup, Shape, HasJob
  <2>2. Flags'
    BY <1>13 DEF PollFails, FailStartup, Flags
  <2>3. (NotSpawned /\ NotTerminating /\ HasJob /\ WaitedFor)'
    BY <1>13 DEF PollFails, FailStartup, Shape, NotSpawned, NotTerminating, HasJob, WaitedFor
  <2>4. EndsClean'
    BY <1>13 DEF PollFails, FailStartup, Shape, NotSpawned, NotTerminating, HasJob, WaitedFor, EndsClean,
       FailedLaunchLeavesNothing, DropLeavesNothing, SuccessMeansRemoved, NothingLeft
  <2> QED BY <2>1, <2>2, <2>3, <2>4
<1>14. ASSUME PollExited PROVE IInv'
  <2>1. Shape'
    BY <1>14 DEF PollExited, FailStartup, Shape, HasJob
  <2>2. Flags'
    BY <1>14 DEF PollExited, FailStartup, Flags
  <2>3. (NotSpawned /\ NotTerminating /\ HasJob /\ WaitedFor)'
    BY <1>14 DEF PollExited, FailStartup, Shape, NotSpawned, NotTerminating, HasJob, WaitedFor
  <2>4. EndsClean'
    BY <1>14 DEF PollExited, FailStartup, Shape, NotSpawned, NotTerminating, HasJob, WaitedFor, EndsClean,
       FailedLaunchLeavesNothing, DropLeavesNothing, SuccessMeansRemoved, NothingLeft
  <2> QED BY <2>1, <2>2, <2>3, <2>4
<1>15. ASSUME PollReady PROVE IInv'
  <2>1. Shape'
    BY <1>15 DEF PollReady, Shape, HasJob
  <2>2. Flags'
    BY <1>15 DEF PollReady, Flags
  <2>3. (NotSpawned /\ NotTerminating /\ HasJob /\ WaitedFor)'
    BY <1>15 DEF PollReady, Shape, NotSpawned, NotTerminating, HasJob, WaitedFor
  <2>4. EndsClean'
    BY <1>15 DEF PollReady, Shape, NotSpawned, NotTerminating, HasJob, WaitedFor, EndsClean,
       FailedLaunchLeavesNothing, DropLeavesNothing, SuccessMeansRemoved, NothingLeft
  <2> QED BY <2>1, <2>2, <2>3, <2>4
<1>16. ASSUME PollUnreadable PROVE IInv'
  <2>1. Shape'
    BY <1>16 DEF PollUnreadable, FailStartup, Shape, HasJob
  <2>2. Flags'
    BY <1>16 DEF PollUnreadable, FailStartup, Flags
  <2>3. (NotSpawned /\ NotTerminating /\ HasJob /\ WaitedFor)'
    BY <1>16 DEF PollUnreadable, FailStartup, Shape, NotSpawned, NotTerminating, HasJob, WaitedFor
  <2>4. EndsClean'
    BY <1>16 DEF PollUnreadable, FailStartup, Shape, NotSpawned, NotTerminating, HasJob, WaitedFor, EndsClean,
       FailedLaunchLeavesNothing, DropLeavesNothing, SuccessMeansRemoved, NothingLeft
  <2> QED BY <2>1, <2>2, <2>3, <2>4
<1>17. ASSUME PollNotReady PROVE IInv'
  <2>1. Shape'
    BY <1>17 DEF PollNotReady, FailStartup, Shape, HasJob
  <2>2. Flags'
    BY <1>17 DEF PollNotReady, FailStartup, Flags
  <2>3. (NotSpawned /\ NotTerminating /\ HasJob /\ WaitedFor)'
    BY <1>17 DEF PollNotReady, FailStartup, Shape, NotSpawned, NotTerminating, HasJob, WaitedFor
  <2>4. EndsClean'
    BY <1>17 DEF PollNotReady, FailStartup, Shape, NotSpawned, NotTerminating, HasJob, WaitedFor, EndsClean,
       FailedLaunchLeavesNothing, DropLeavesNothing, SuccessMeansRemoved, NothingLeft
  <2> QED BY <2>1, <2>2, <2>3, <2>4
<1>18. ASSUME PollChild PROVE IInv'
  <2>1. Shape'
    BY <1>18 DEF PollChild, Reap, TerminationFails, Shape, HasJob
  <2>2. Flags'
    BY <1>18 DEF PollChild, Reap, TerminationFails, Flags
  <2>3. (NotSpawned /\ NotTerminating /\ HasJob /\ WaitedFor)'
    BY <1>18 DEF PollChild, Reap, TerminationFails, Shape, NotSpawned, NotTerminating, HasJob, WaitedFor
  <2>4. EndsClean'
    <3>1. CASE TerminationFails
      <4>1. fault' /\ (outcome' # "ok" \/ job' = "launch")
        BY <3>1 DEF TerminationFails
      <4>2. fault' /\ UNCHANGED <<job, profile, scratch, child, cleaned>>
        BY <3>1 DEF TerminationFails
      <4> QED
        BY <4>1, <4>2 DEF EndsClean,
               FailedLaunchLeavesNothing, DropLeavesNothing, SuccessMeansRemoved, NothingLeft
    <3>2. CASE ~TerminationFails
      <4>1. pc' \in {"remove", "kill"}
        BY <1>18, <3>2 DEF PollChild, Reap
      <4>2. UNCHANGED <<profile, scratch, cleaned>> /\ child' \in {child, "reaped"}
        BY <1>18, <3>2 DEF PollChild, Reap
      <4> QED
        BY <4>1, <4>2 DEF EndsClean,
               FailedLaunchLeavesNothing, DropLeavesNothing, SuccessMeansRemoved, NothingLeft
    <3> QED BY <3>1, <3>2
  <2> QED BY <2>1, <2>2, <2>3, <2>4
<1>19. ASSUME Kill PROVE IInv'
  <2>1. Shape'
    BY <1>19 DEF Kill, Shape, HasJob
  <2>2. Flags'
    BY <1>19 DEF Kill, Flags
  <2>3. (NotSpawned /\ NotTerminating /\ HasJob /\ WaitedFor)'
    BY <1>19 DEF Kill, Shape, NotSpawned, NotTerminating, HasJob, WaitedFor
  <2>4. EndsClean'
    BY <1>19 DEF Kill, Shape, NotSpawned, NotTerminating, HasJob, WaitedFor, EndsClean,
       FailedLaunchLeavesNothing, DropLeavesNothing, SuccessMeansRemoved, NothingLeft
  <2> QED BY <2>1, <2>2, <2>3, <2>4
<1>20. ASSUME PollAgain PROVE IInv'
  <2>1. Shape'
    BY <1>20 DEF PollAgain, Reap, TerminationFails, Shape, HasJob
  <2>2. Flags'
    BY <1>20 DEF PollAgain, Reap, TerminationFails, Flags
  <2>3. (NotSpawned /\ NotTerminating /\ HasJob /\ WaitedFor)'
    BY <1>20 DEF PollAgain, Reap, TerminationFails, Shape, NotSpawned, NotTerminating, HasJob, WaitedFor
  <2>4. EndsClean'
    <3>1. CASE TerminationFails
      <4>1. fault' /\ (outcome' # "ok" \/ job' = "launch")
        BY <3>1 DEF TerminationFails
      <4>2. fault' /\ UNCHANGED <<job, profile, scratch, child, cleaned>>
        BY <3>1 DEF TerminationFails
      <4> QED
        BY <4>1, <4>2 DEF EndsClean,
               FailedLaunchLeavesNothing, DropLeavesNothing, SuccessMeansRemoved, NothingLeft
    <3>2. CASE ~TerminationFails
      <4>1. pc' \in {"remove", "kill"}
        BY <1>20, <3>2 DEF PollAgain, Reap
      <4>2. UNCHANGED <<profile, scratch, cleaned>> /\ child' \in {child, "reaped"}
        BY <1>20, <3>2 DEF PollAgain, Reap
      <4> QED
        BY <4>1, <4>2 DEF EndsClean,
               FailedLaunchLeavesNothing, DropLeavesNothing, SuccessMeansRemoved, NothingLeft
    <3> QED BY <3>1, <3>2
  <2> QED BY <2>1, <2>2, <2>3, <2>4
<1>21. ASSUME WaitForExit PROVE IInv'
  <2>1. Shape'
    BY <1>21 DEF WaitForExit, Reap, Shape, HasJob
  <2>2. Flags'
    BY <1>21 DEF WaitForExit, Reap, Flags
  <2>3. (NotSpawned /\ NotTerminating /\ HasJob /\ WaitedFor)'
    BY <1>21 DEF WaitForExit, Reap, Shape, NotSpawned, NotTerminating, HasJob, WaitedFor
  <2>4. EndsClean'
    BY <1>21 DEF WaitForExit, Reap, Shape, NotSpawned, NotTerminating, HasJob, WaitedFor, EndsClean,
       FailedLaunchLeavesNothing, DropLeavesNothing, SuccessMeansRemoved, NothingLeft
  <2> QED BY <2>1, <2>2, <2>3, <2>4
<1>22. ASSUME WaitFails PROVE IInv'
  <2>1. Shape'
    BY <1>22 DEF WaitFails, TerminationFails, Shape, HasJob
  <2>2. Flags'
    BY <1>22 DEF WaitFails, TerminationFails, Flags
  <2>3. (NotSpawned /\ NotTerminating /\ HasJob /\ WaitedFor)'
    BY <1>22 DEF WaitFails, TerminationFails, Shape, NotSpawned, NotTerminating, HasJob, WaitedFor
  <2>4. EndsClean'
    BY <1>22 DEF WaitFails, TerminationFails, Shape, NotSpawned, NotTerminating, HasJob, WaitedFor, EndsClean,
       FailedLaunchLeavesNothing, DropLeavesNothing, SuccessMeansRemoved, NothingLeft
  <2> QED BY <2>1, <2>2, <2>3, <2>4
<1>23. ASSUME Remove \/ SkipRemoval PROVE IInv'
  <2> DEFINE next == CASE job = "launch" -> "failed" [] job = "drop" -> "gone" [] OTHER -> "owned"
  <2>1. pc = "remove" /\ child = "reaped" /\ pc' = next /\ next \in {"failed", "gone", "owned"}
        /\ UNCHANGED <<job, child, active_port, malformed, cancelled, expired, attempts>>
    BY <1>23 DEF Remove, SkipRemoval, Finish, WaitedFor
  <2>2. outcome' \in {"none", "ok"} \cup Errors /\ (job = "launch" => outcome' \in Errors)
    BY <1>23, <2>1 DEF Remove, SkipRemoval, RemovalReturns, Shape, HasJob
  <2>3. Shape'
    <3>1. pc' = "failed" => job = "launch"
      BY <2>1, Zenon
    <3> QED BY <2>1, <2>2, <3>1 DEF Shape
  <2>4. Flags'
    BY <1>23, <2>1 DEF Remove, SkipRemoval, RemoveDirectories, RemovalReturns, Flags
  <2>5. (NotSpawned /\ NotTerminating /\ HasJob /\ WaitedFor)'
    BY <2>1 DEF NotSpawned, NotTerminating, HasJob, WaitedFor
  <2>6. (cleaned' \/ ~fault' \/ (job' # "launch" /\ outcome' = "ok")) => ~profile' /\ ~scratch'
    <3>1. CASE SkipRemoval
      BY <3>1 DEF SkipRemoval, EndsClean, SuccessMeansRemoved, NothingLeft
    <3>2. CASE Remove
      <4>1. PICK ok \in BOOLEAN : RemoveDirectories(ok) /\ RemovalReturns(ok)
        BY <3>2 DEF Remove
      <4>2. CASE ok
        BY <4>1, <4>2 DEF RemoveDirectories
      <4>3. CASE ~ok
        BY <2>1, <4>1, <4>3 DEF RemovalReturns
      <4> QED BY <4>2, <4>3
    <3> QED BY <1>23, <3>1, <3>2
  <2>7. EndsClean'
    BY <2>1, <2>6 DEF EndsClean, FailedLaunchLeavesNothing, DropLeavesNothing, SuccessMeansRemoved, NothingLeft
  <2> QED BY <2>3, <2>4, <2>5, <2>7
<1>24. ASSUME TryWait PROVE IInv'
  <2>1. Shape'
    <3>1. attempts' \in 0..MaxAttempts
      <4>1. attempts < MaxAttempts /\ attempts' = attempts + 1
        BY <1>24, Zenon DEF TryWait
      <4> QED
        BY <4>1, OneMoreAttempt DEF Shape
    <3>2. QED
      BY <1>24, <3>1, Zenon DEF TryWait, Shape, HasJob
  <2>2. Flags'
    BY <1>24 DEF TryWait, Flags
  <2>3. (NotSpawned /\ NotTerminating /\ HasJob /\ WaitedFor)'
    BY <1>24 DEF TryWait, Shape, NotSpawned, NotTerminating, HasJob, WaitedFor
  <2>4. EndsClean'
    BY <1>24 DEF TryWait, Shape, NotSpawned, NotTerminating, HasJob, WaitedFor, EndsClean,
       FailedLaunchLeavesNothing, DropLeavesNothing, SuccessMeansRemoved, NothingLeft
  <2> QED BY <2>1, <2>2, <2>3, <2>4
<1>25. ASSUME Shutdown PROVE IInv'
  <2>1. Shape'
    <3>1. attempts' \in 0..MaxAttempts
      BY <1>25, OneMoreAttempt, Zenon DEF Shutdown, Shape
    <3>2. QED
      BY <1>25, <3>1, Zenon DEF Shutdown, Shape, HasJob
  <2>2. Flags'
    BY <1>25 DEF Shutdown, Flags
  <2>3. (NotSpawned /\ NotTerminating /\ HasJob /\ WaitedFor)'
    BY <1>25 DEF Shutdown, Shape, NotSpawned, NotTerminating, HasJob, WaitedFor
  <2>4. EndsClean'
    BY <1>25 DEF Shutdown, Shape, NotSpawned, NotTerminating, HasJob, WaitedFor, EndsClean,
       FailedLaunchLeavesNothing, DropLeavesNothing, SuccessMeansRemoved, NothingLeft
  <2> QED BY <2>1, <2>2, <2>3, <2>4
<1>26. ASSUME DropGuard PROVE IInv'
  <2>1. Shape'
    BY <1>26 DEF DropGuard, Shape, HasJob
  <2>2. Flags'
    BY <1>26 DEF DropGuard, Flags
  <2>3. (NotSpawned /\ NotTerminating /\ HasJob /\ WaitedFor)'
    BY <1>26 DEF DropGuard, Shape, NotSpawned, NotTerminating, HasJob, WaitedFor
  <2>4. EndsClean'
    BY <1>26 DEF DropGuard, Shape, NotSpawned, NotTerminating, HasJob, WaitedFor, EndsClean,
       FailedLaunchLeavesNothing, DropLeavesNothing, SuccessMeansRemoved, NothingLeft
  <2> QED BY <2>1, <2>2, <2>3, <2>4
<1>27. ASSUME UNCHANGED vars PROVE IInv'
  <2> USE <1>27 DEF vars
  <2>1. Shape'
    <3>1. /\ pc' = pc /\ job' = job /\ child' = child
          /\ active_port' = active_port /\ outcome' = outcome /\ attempts' = attempts
      BY Zenon
    <3> QED BY <3>1 DEF Shape
  <2>2. Flags'
    BY DEF Flags
  <2>3. (NotSpawned /\ NotTerminating /\ HasJob /\ WaitedFor)'
    BY DEF NotSpawned, NotTerminating, HasJob, WaitedFor
  <2>4. EndsClean'
    BY DEF EndsClean,
       FailedLaunchLeavesNothing, DropLeavesNothing, SuccessMeansRemoved, NothingLeft
  <2> QED BY <2>1, <2>2, <2>3, <2>4
<1> QED
  BY <1>1, <1>2, <1>3, <1>4, <1>5, <1>6, <1>7, <1>8, <1>9, <1>10, <1>11, <1>12, <1>13, <1>14, <1>15, <1>16, <1>17, <1>18, <1>19, <1>20, <1>21, <1>22, <1>23, <1>24, <1>25, <1>26, <1>27
     DEF Next, Environment, Prepare, Poll, Terminate, SystemFails, Owner

LEMMA Invariance == Spec => []IInv
<1>1. IInv /\ [Next]_vars => IInv'
  BY StepKeepsIInv
<1> QED BY InitIInv, <1>1, PTL DEF Spec

-----------------------------------------------------------------------------

\* The state of a supervised browser keeps its declared shape, and a failed
\* launch always has an error.
THEOREM TypeCorrect == Spec => []TypeOK
<1>1. IInv => TypeOK
  BY TypeParts DEF IInv
<1> QED BY Invariance, <1>1, PTL

\* A launch that fails leaves no process and no directory, unless its cleanup
\* met an error.
THEOREM FailedLaunchIsClean == Spec => []FailedLaunchLeavesNothing
<1>1. IInv => FailedLaunchLeavesNothing
  BY DEF IInv, EndsClean
<1> QED BY Invariance, <1>1, PTL

\* A dropped guard leaves no process and no directory, unless its cleanup met
\* an error.
THEOREM DropIsClean == Spec => []DropLeavesNothing
<1>1. IInv => DropLeavesNothing
  BY DEF IInv, EndsClean
<1> QED BY Invariance, <1>1, PTL

\* A shutdown reports success, and sets its flag, only once all is removed.
THEOREM SuccessIsReal == Spec => []SuccessMeansRemoved
<1>1. IInv => SuccessMeansRemoved
  BY DEF IInv, EndsClean
<1> QED BY Invariance, <1>1, PTL

\* No directory is removed while a browser may still run in it.
THEOREM BrowserOutlived == Spec => NoRemovalUnderBrowser
<1> DEFINE Removes == (profile /\ ~profile') \/ (scratch /\ ~scratch') => child \in {"none", "reaped"}
<1>1. IInv /\ [Next]_vars => [Removes]_vars
  <2> SUFFICES ASSUME IInv, Next PROVE Removes
    OBVIOUS
  <2>1. CASE Environment
    BY <2>1, Zenon DEF Environment, BrowserWritesPort, BrowserExits, BrowserDies, Cancel, StartupTimeElapses
  <2>2. CASE Prepare
    BY <2>2 DEF Prepare, RefuseLaunch, CreateProfile, CreateScratch, CancelBeforeSpawn, SpawnFails,
                Spawn, IInv, NotSpawned
  <2>3. CASE Poll
    BY <2>3, Zenon DEF Poll, PollCancelled, PollExited, PollReady, PollUnreadable, PollNotReady
  <2>4. CASE Terminate
    <3>1. CASE Remove \/ SkipRemoval
      BY <3>1 DEF Remove, SkipRemoval, IInv, WaitedFor
    <3>2. CASE ~(Remove \/ SkipRemoval)
      BY <2>4, <3>2, Zenon DEF Terminate, PollChild, Kill, PollAgain, WaitForExit, Reap, TerminationFails
    <3> QED BY <3>1, <3>2
  <2>5. CASE SystemFails
    BY <2>5, Zenon DEF SystemFails, PollFails, WaitFails, TerminationFails
  <2>6. CASE Owner
    BY <2>6, Zenon DEF Owner, TryWait, Shutdown, DropGuard
  <2> QED BY <2>1, <2>2, <2>3, <2>4, <2>5, <2>6 DEF Next
<1>2. Spec => [][Removes]_vars
  BY Invariance, <1>1, PTL DEF Spec
<1> QED BY <1>2 DEF NoRemovalUnderBrowser









-----------------------------------------------------------------------------
(* The supervised process implements Engine. *)

\* Once the profile exists it stays until a launch ends, and nothing is ended,
\* or held, before it was spawned.
Standing ==
  /\ pc \in {"scratch", "spawn"} => profile
  /\ pc \in Terminating \cup {"remove", "owned", "polling"} => child # "none"

LEMMA InitStanding == Init => Standing
BY Zenon DEF Init, Standing, Terminating

LEMMA StepKeepsStanding == IInv /\ Standing /\ [Next]_vars => Standing'
<1> SUFFICES ASSUME IInv, Standing, [Next]_vars PROVE Standing'
  OBVIOUS
<1> USE DEF Standing, Terminating, Launching
<1>1. CASE Environment
  BY <1>1 DEF Environment, BrowserWritesPort, BrowserExits, BrowserDies, Cancel, StartupTimeElapses
<1>2. CASE Prepare
  BY <1>2 DEF Prepare, RefuseLaunch, CreateProfile, CreateScratch, CancelBeforeSpawn, SpawnFails,
              Spawn, Abort
<1>3. CASE Poll
  BY <1>3 DEF Poll, PollCancelled, PollExited, PollReady, PollUnreadable, PollNotReady, FailStartup
<1>4. CASE Terminate
  <2>1. CASE PollChild
    <3>1. child # "none" /\ pc' \in {"remove", "kill", "failed", "owned", "gone"} /\ child' \in {child, "reaped"}
      BY <2>1, Zenon DEF IInv, HasJob, PollChild, Reap, TerminationFails
    <3> QED BY <3>1
  <2>2. CASE Kill
    BY <2>2 DEF Kill
  <2>3. CASE PollAgain \/ WaitForExit
    <3>1. child # "none" /\ pc' \in {"remove", "failed", "owned", "gone"} /\ child' \in {child, "reaped"}
      BY <2>3, Zenon DEF IInv, HasJob, PollAgain, WaitForExit, Reap, TerminationFails
    <3> QED BY <3>1
  <2>4. CASE Remove \/ SkipRemoval
    <3>1. child # "none" /\ pc' \in {"failed", "owned", "gone"} /\ child' = child
      BY <2>4 DEF Remove, SkipRemoval, Finish
    <3> QED BY <3>1
  <2> QED BY <1>4, <2>1, <2>2, <2>3, <2>4 DEF Terminate
<1>5. CASE SystemFails
  <2>1. child # "none" /\ pc' \in {"poll child", "failed", "owned", "gone"} /\ child' = child
    BY <1>5, Zenon DEF IInv, HasJob, SystemFails, PollFails, WaitFails, FailStartup, TerminationFails
  <2> QED BY <2>1
<1>6. CASE Owner
  BY <1>6 DEF Owner, TryWait, Shutdown, DropGuard
<1>7. CASE UNCHANGED vars
  BY <1>7 DEF vars
<1> QED BY <1>1, <1>2, <1>3, <1>4, <1>5, <1>6, <1>7 DEF Next

\* What the owner sees of each control state.
GuardTable ==
  /\ pc \in Launching => Guard = "launching"
  /\ pc \in Terminating \cup {"remove"} =>
       /\ job = "launch" => Guard = "launching"
       /\ job \in {"try_wait", "shutdown"} => Guard = "called"
       /\ job = "drop" => Guard = "dropping"
  /\ pc = "owned" => Guard = "held"
  /\ pc \in {"failed", "gone"} => Guard = pc

LEMMA GuardSeen == GuardTable /\ GuardTable'
BY DEF GuardTable, Guard, Launching, Terminating

Answer == pc = "owned" /\ job \in {"shutdown", "try_wait"} /\ outcome = "ok"

LEMMA Stutters ==
  ASSUME UNCHANGED <<Guard, Process, profile, scratch, cleaned, fault>>, Answer' <=> Answer
  PROVE  UNCHANGED Promise!engine
BY DEF Promise!engine, Answer

LEMMA SameGuard ==
  ASSUME UNCHANGED <<pc, job>>
  PROVE  Guard' = Guard
BY Zenon DEF Guard

\* How the calls that end a termination, or a removal, look to the owner.
LEMMA EndImplements ==
  ASSUME IInv, IInv', pc \in Terminating \cup {"remove"}, UNCHANGED <<job, child>>,
         pc' = CASE job = "launch" -> "failed" [] job = "drop" -> "gone" [] OTHER -> "owned",
         profile' # profile \/ scratch' # scratch => child = "reaped",
         cleaned => UNCHANGED <<profile, scratch, cleaned>>,
         cleaned' => ~profile' /\ ~scratch' /\ child = "reaped",
         fault' \in BOOLEAN, ~fault' => ~profile' /\ ~scratch' /\ child = "reaped",
         Answer' => cleaned'
  PROVE  Promise!EngineNext
<1>1. job \in {"launch", "try_wait", "shutdown", "drop"}
  BY DEF IInv, HasJob, Jobs, Terminating
<1>2. Process' = Process /\ (child = "reaped" => Process # "alive")
  BY DEF Process
<1>3. profile \in BOOLEAN /\ scratch \in BOOLEAN /\ profile' \in BOOLEAN /\ scratch' \in BOOLEAN
      /\ cleaned \in BOOLEAN /\ cleaned' \in BOOLEAN
  BY DEF IInv, Flags
<1>4. /\ (profile \/ scratch)' # (profile \/ scratch) => Process # "alive" /\ ~cleaned
      /\ cleaned' \in {cleaned, TRUE}
      /\ ~fault' => Process' # "alive" /\ ~(profile \/ scratch)'
      /\ cleaned' => Process' # "alive" /\ ~(profile \/ scratch)'
  BY <1>2, <1>3
<1>5. \A end \in {"failed", "held", "gone"} : Guard' = end => Promise!EngineEnds(end, fault')
  BY <1>2, <1>3, <1>4 DEF Promise!EngineEnds, Promise!Clean
<1>6. CASE job = "launch"
  <2>1. Guard = "launching" /\ Guard' = "failed" /\ ~Answer /\ ~Answer'
    BY <1>6, GuardSeen DEF GuardTable, Answer
  <2> QED BY <1>5, <2>1 DEF Promise!EngineNext, Promise!LaunchFails, Answer
<1>7. CASE job = "drop"
  <2>1. Guard = "dropping" /\ Guard' = "gone" /\ ~Answer /\ ~Answer'
    BY <1>7, GuardSeen DEF GuardTable, Answer
  <2> QED BY <1>5, <2>1 DEF Promise!EngineNext, Promise!DropDone, Answer
<1>8. CASE job \in {"try_wait", "shutdown"}
  <2>1. Guard = "called" /\ Guard' = "held"
    BY <1>8, GuardSeen DEF GuardTable
  <2>2. Answer' \in BOOLEAN
    BY DEF Answer
  <2> QED BY <1>4, <1>5, <2>1, <2>2 DEF Promise!EngineNext, Promise!GuardAnswers, Answer
<1> QED BY <1>1, <1>6, <1>7, <1>8

LEMMA TerminationFailureImplements ==
  ASSUME IInv, IInv', Standing, pc \in Terminating, TerminationFails
  PROVE  Promise!EngineNext
<1>1. pc' = CASE job = "launch" -> "failed" [] job = "drop" -> "gone" [] OTHER -> "owned"
  <2>1. job \in {"launch", "shutdown", "drop"}
    BY DEF IInv, HasJob
  <2> QED BY <2>1 DEF TerminationFails
<1>2. UNCHANGED <<job, child, profile, scratch, cleaned>> /\ fault' = TRUE
  BY Zenon DEF TerminationFails
<1>5. cleaned => ~profile /\ ~scratch /\ child = "reaped"
  <2>1. cleaned => NothingLeft
    BY DEF IInv, EndsClean, SuccessMeansRemoved
  <2>2. child # "none"
    BY DEF Standing
  <2> QED BY <2>1, <2>2 DEF NothingLeft
<1>3. ~Answer'
  <2>1. job = "launch" \/ outcome' = "ProcessIo"
    BY DEF TerminationFails
  <2> QED BY <1>2, <2>1 DEF Answer
<1>4. profile \in BOOLEAN /\ scratch \in BOOLEAN
  BY DEF IInv, Flags
<1> QED BY <1>1, <1>2, <1>3, <1>4, <1>5, EndImplements

LEMMA ReapImplements ==
  ASSUME IInv, pc \in Terminating, child # "none", child' = "reaped", pc' = "remove",
         UNCHANGED <<job, profile, scratch, cleaned, fault>>
  PROVE  [Promise!EngineNext]_(Promise!engine)
<1>1. job \in {"launch", "shutdown", "drop"}
  BY DEF IInv, HasJob
<1>2. Guard' = Guard /\ Guard \in {"launching", "called", "dropping"}
  BY <1>1, GuardSeen DEF GuardTable
<1>3. ~Answer /\ ~Answer'
  BY DEF Answer, Terminating
<1>4. CASE child = "reaped"
  <2>1. Process' = Process
    BY <1>4 DEF Process
  <2> QED BY <1>2, <1>3, <2>1, Stutters
<1>5. CASE child # "reaped"
  <2>1. Process = "alive" /\ Process' = "reaped"
    BY <1>5 DEF Process
  <2>2. (profile \/ scratch)' = (profile \/ scratch) /\ fault' = fault
    OBVIOUS
  <2>3. Promise!EngineReaps
    BY <1>2, <1>3, <2>1, <2>2 DEF Promise!EngineReaps, Answer
  <2> QED BY <2>3 DEF Promise!EngineNext
<1> QED BY <1>4, <1>5

LEMMA StepImplements ==
  IInv /\ IInv' /\ Standing /\ Standing' /\ [Next]_vars => [Promise!EngineNext]_(Promise!engine)
<1> SUFFICES ASSUME IInv, IInv', Standing, Standing', [Next]_vars
             PROVE  [Promise!EngineNext]_(Promise!engine)
  OBVIOUS
<1> USE DEF Standing
<1>1. CASE Environment
  <2>1. UNCHANGED <<pc, job, profile, scratch, cleaned, fault, outcome>>
    BY <1>1, Zenon DEF Environment, BrowserWritesPort, BrowserExits, BrowserDies, Cancel, StartupTimeElapses
  <2>2. Process' = Process
    <3>1. child' = child \/ (child \in {"running", "killed"} /\ child' = "exited")
      BY <1>1, Zenon DEF Environment, BrowserWritesPort, BrowserExits, BrowserDies, Cancel, StartupTimeElapses
    <3> QED BY <3>1 DEF Process
  <2>3. Guard' = Guard /\ Answer' = Answer
    BY <2>1, SameGuard DEF Answer
  <2> QED BY <2>1, <2>2, <2>3, Stutters
<1>2. CASE Prepare
  <2>1. pc \in {"profile", "scratch", "spawn"} /\ Guard = "launching"
    BY <1>2, GuardSeen, Zenon DEF Prepare, RefuseLaunch, CreateProfile, CreateScratch, CancelBeforeSpawn,
       SpawnFails, Spawn, GuardTable, Launching
  <2>2. child = "none" /\ ~fault /\ Process = "none" /\ job = "none"
    BY <2>1 DEF IInv, NotSpawned, NotTerminating, Process, Launching
  <2>3. ~Answer
    BY <2>1 DEF Answer
  <2>4. profile \in BOOLEAN /\ scratch \in BOOLEAN /\ fault \in BOOLEAN
        /\ profile' \in BOOLEAN /\ scratch' \in BOOLEAN /\ fault' \in BOOLEAN
    BY DEF IInv, Flags
  <2>5. CASE pc' = "failed"
    <3>1. child' = child /\ cleaned' = FALSE /\ cleaned = FALSE
          /\ Guard' = "failed" /\ Process' = Process /\ ~Answer'
      <4>1. child' = child /\ cleaned' = cleaned
        BY <1>2, <2>5, Zenon DEF Prepare, RefuseLaunch, CreateProfile, CreateScratch, CancelBeforeSpawn,
           SpawnFails, Spawn, Abort
      <4>2. ~cleaned /\ cleaned \in BOOLEAN
        BY <2>1 DEF IInv, NotSpawned, Flags
      <4> QED BY <2>5, <4>1, <4>2, GuardSeen DEF GuardTable, Process, Answer
    <3>2. ~fault' => ~profile' /\ ~scratch'
      BY <2>2, <2>5, <3>1 DEF IInv, EndsClean, FailedLaunchLeavesNothing, NothingLeft
    <3>4. Promise!LaunchFails
      BY <2>1, <2>2, <2>3, <2>4, <3>1, <3>2 DEF Promise!LaunchFails, Promise!EngineEnds, Promise!Clean, Answer
    <3> QED BY <3>4 DEF Promise!EngineNext
  <2>6. CASE pc' # "failed"
    <3>1. CASE CreateProfile
      <4>1. profile' /\ UNCHANGED <<scratch, child, cleaned, fault>> /\ pc' = "scratch"
        BY <2>6, <3>1 DEF CreateProfile, Abort
      <4>2. Guard' = "launching" /\ Process' = Process /\ ~Answer'
        BY <4>1, GuardSeen DEF GuardTable, Process, Answer, Launching
      <4>3. Promise!EnginePrepares
        BY <2>1, <2>2, <2>3, <2>4, <4>1, <4>2 DEF Promise!EnginePrepares, Answer
      <4> QED BY <4>3 DEF Promise!EngineNext
    <3>2. CASE CreateScratch
      <4>1. profile' /\ profile /\ UNCHANGED <<child, cleaned, fault>> /\ pc' = "spawn"
        BY <2>6, <3>2 DEF CreateScratch, Abort
      <4>2. Guard' = "launching" /\ Process' = Process /\ ~Answer'
        BY <4>1, GuardSeen DEF GuardTable, Process, Answer, Launching
      <4>3. (profile \/ scratch)' = (profile \/ scratch)
        BY <2>4, <4>1
      <4> QED BY <2>1, <2>3, <4>1, <4>2, <4>3 DEF Promise!engine, Answer
    <3>3. CASE Spawn
      <4>1. profile /\ UNCHANGED <<profile, scratch, cleaned, fault>> /\ pc' = "polling" /\ child' = "running"
        BY <3>3 DEF Spawn
      <4>2. Guard' = "launching" /\ Process' = "alive" /\ ~Answer'
        BY <4>1, GuardSeen DEF GuardTable, Process, Answer, Launching
      <4>3. Promise!EnginePrepares
        BY <2>1, <2>2, <2>3, <2>4, <4>1, <4>2 DEF Promise!EnginePrepares, Answer
      <4> QED BY <4>3 DEF Promise!EngineNext
    <3>4. CASE RefuseLaunch \/ CancelBeforeSpawn \/ SpawnFails
      BY <2>6, <3>4 DEF RefuseLaunch, CancelBeforeSpawn, SpawnFails, Abort
    <3> QED BY <1>2, <3>1, <3>2, <3>3, <3>4 DEF Prepare
  <2> QED BY <2>5, <2>6
<1>3. CASE Poll \/ PollFails
  <2>1. pc = "polling" /\ UNCHANGED <<profile, scratch, cleaned, fault>>
    BY <1>3, Zenon DEF Poll, PollCancelled, PollFails, PollExited, PollReady, PollUnreadable, PollNotReady
  <2>2. Guard = "launching" /\ child # "none" /\ ~Answer
    BY <2>1, GuardSeen DEF GuardTable, Launching, Answer
  <2>3. CASE PollReady
    <3>1. Guard' = "held" /\ Process = "alive" /\ Process' = "alive"
      BY <2>3, GuardSeen DEF PollReady, GuardTable, Process
    <3>2. job' = "none"
      BY <2>1, <2>3 DEF PollReady, IInv, NotTerminating, Launching
    <3>3. ~Answer'
      BY <3>2 DEF Answer
    <3>4. Promise!EngineReady
      BY <2>1, <2>2, <3>1, <3>3 DEF Promise!EngineReady, Answer
    <3> QED BY <3>4 DEF Promise!EngineNext
  <2>4. CASE ~PollReady
    <3>1. pc' = "polling" \/ (pc' = "poll child" /\ job' = "launch")
      BY <1>3, <2>1, <2>4, Zenon DEF Poll, PollCancelled, PollFails, PollExited, PollUnreadable,
         PollNotReady, FailStartup
    <3>2. Guard' = "launching" /\ ~Answer'
      BY <3>1, GuardSeen DEF GuardTable, Launching, Terminating, Answer
    <3>3. child' = child \/ (child = "exited" /\ child' = "reaped")
      BY <1>3, <2>4, Zenon DEF Poll, PollCancelled, PollFails, PollExited, PollUnreadable, PollNotReady
    <3>4. Process' = Process \/ (Process = "alive" /\ Process' = "reaped")
      BY <3>3 DEF Process
    <3>5. CASE Process' = Process
      BY <2>1, <2>2, <3>2, <3>5 DEF Promise!engine, Answer
    <3>6. CASE Process = "alive" /\ Process' = "reaped"
      <4>1. Promise!EngineReaps
        BY <2>1, <2>2, <3>2, <3>6 DEF Promise!EngineReaps, Answer
      <4> QED BY <4>1 DEF Promise!EngineNext
    <3> QED BY <3>4, <3>5, <3>6
  <2> QED BY <2>3, <2>4
<1>4. CASE Terminate \/ WaitFails
  <2>1. CASE TerminationFails /\ pc \in Terminating
    BY <2>1, TerminationFailureImplements
  <2>2. CASE pc \in Terminating /\ Reap("remove")
    <3>1. child' = "reaped" /\ pc' = "remove" /\ UNCHANGED <<job, profile, scratch, cleaned, fault>>
      BY <2>2, Zenon DEF Reap
    <3> QED BY <2>2, <3>1, ReapImplements
  <2>3. CASE pc \in Terminating /\ pc' \in Terminating
             /\ UNCHANGED <<job, profile, scratch, cleaned, fault>>
             /\ (child' = child \/ (child = "running" /\ child' = "killed"))
    <3>1. job \in {"launch", "shutdown", "drop"}
      BY <2>3 DEF IInv, HasJob
    <3>2. Guard' = Guard /\ ~Answer /\ ~Answer'
      BY <2>3, <3>1, GuardSeen DEF GuardTable, Answer, Terminating
    <3>3. Process' = Process
      BY <2>3 DEF Process
    <3> QED BY <2>3, <3>2, <3>3, Stutters
  <2>4. CASE Remove \/ SkipRemoval
    <3>1. pc = "remove" /\ UNCHANGED <<job, child>> /\ child = "reaped"
          /\ pc' = CASE job = "launch" -> "failed" [] job = "drop" -> "gone" [] OTHER -> "owned"
      BY <2>4 DEF Remove, SkipRemoval, Finish, IInv, WaitedFor
    <3>2. fault' \in BOOLEAN
      BY DEF IInv, Flags
    <3>3. /\ ~fault' => ~profile' /\ ~scratch'
          /\ cleaned' => ~profile' /\ ~scratch'
          /\ cleaned => UNCHANGED <<profile, scratch, cleaned>>
          /\ Answer' => cleaned'
      <4>1. CASE SkipRemoval
        BY <4>1 DEF SkipRemoval, IInv, EndsClean, SuccessMeansRemoved, NothingLeft
      <4>2. CASE Remove
        <5>1. PICK ok \in BOOLEAN : RemoveDirectories(ok) /\ RemovalReturns(ok)
          BY <4>2 DEF Remove
        <5>2. ~cleaned
          BY <4>2 DEF Remove
        <5>3. CASE ok
          BY <3>1, <5>1, <5>2, <5>3 DEF RemoveDirectories, RemovalReturns, Answer
        <5>4. CASE ~ok
          BY <3>1, <5>1, <5>2, <5>4 DEF RemovalReturns, Answer
        <5> QED BY <5>3, <5>4
      <4> QED BY <2>4, <4>1, <4>2
    <3> QED BY <3>1, <3>2, <3>3, EndImplements
  <2>5. CASE PollChild \/ Kill \/ PollAgain \/ WaitForExit \/ WaitFails
    <3>1. CASE PollChild
      BY <2>1, <2>2, <2>3, <3>1, Zenon DEF PollChild, Terminating
    <3>2. CASE Kill
      <4>1. pc \in Terminating /\ pc' \in Terminating /\ UNCHANGED <<job, profile, scratch, cleaned, fault>>
        BY <3>2, Zenon DEF Kill, Terminating
      <4>2. child' = child \/ (child = "running" /\ child' = "killed")
        BY <3>2 DEF Kill
      <4> QED BY <2>3, <4>1, <4>2
    <3>3. CASE PollAgain \/ WaitForExit \/ WaitFails
      BY <2>1, <2>2, <3>3, Zenon DEF PollAgain, WaitForExit, WaitFails, Terminating
    <3> QED BY <2>5, <3>1, <3>2, <3>3
  <2> QED BY <1>4, <2>4, <2>5 DEF Terminate
<1>5. CASE Owner
  <2>1. pc = "owned" /\ Guard = "held" /\ UNCHANGED <<profile, scratch, cleaned>>
    BY <1>5, GuardSeen, Zenon DEF Owner, TryWait, Shutdown, DropGuard, GuardTable
  <2>2. Answer \in BOOLEAN /\ fault \in BOOLEAN /\ fault' \in BOOLEAN
    BY DEF Answer, IInv, Flags
  <2>3. CASE pc' = "owned"
    <3>1. job' = "none" /\ UNCHANGED <<child, fault>>
      BY <1>5, <2>3 DEF Owner, TryWait, Shutdown, DropGuard
    <3>2. Guard' = "held" /\ ~Answer' /\ Process' = Process
      BY <2>3, <3>1, GuardSeen DEF GuardTable, Answer, Process
    <3>3. Promise!GuardPolled
      BY <2>1, <3>1, <3>2 DEF Promise!GuardPolled, Answer
    <3> QED BY <3>3 DEF Promise!EngineNext
  <2>4. CASE pc' # "owned" /\ ~DropGuard
    <3>1. pc' \in Terminating \cup {"remove"} /\ job' \in {"try_wait", "shutdown"} /\ child' \in {child, "reaped"}
          /\ fault' \in {fault, FALSE}
      BY <1>5, <2>4 DEF Owner, TryWait, Shutdown, Terminating
    <3>2. Guard' = "called" /\ ~Answer' /\ Process' \in {Process, "reaped"}
      BY <3>1, GuardSeen DEF GuardTable, Answer, Process, Terminating
    <3>3. Promise!GuardCalled
      BY <2>1, <3>1, <3>2 DEF Promise!GuardCalled, Answer
    <3> QED BY <3>3 DEF Promise!EngineNext
  <2>5. CASE DropGuard
    <3>1. pc' \in Terminating /\ job' = "drop" /\ UNCHANGED child /\ fault' = FALSE
      BY <2>5 DEF DropGuard, Terminating
    <3>2. Guard' = "dropping" /\ ~Answer' /\ Process' = Process
      BY <3>1, GuardSeen DEF GuardTable, Answer, Process, Terminating
    <3>3. Promise!GuardDropped
      BY <2>1, <3>1, <3>2 DEF Promise!GuardDropped, Answer
    <3> QED BY <3>3 DEF Promise!EngineNext
  <2> QED BY <2>3, <2>4, <2>5
<1>6. CASE UNCHANGED vars
  <2>1. UNCHANGED <<pc, job, profile, scratch, cleaned, fault, outcome, child>>
    BY <1>6, Zenon DEF vars
  <2>2. Process' = Process /\ Guard' = Guard /\ Answer' = Answer
    BY <2>1, SameGuard DEF Process, Answer
  <2> QED BY <2>1, <2>2, Stutters
<1> QED BY <1>1, <1>2, <1>3, <1>4, <1>5, <1>6 DEF Next, SystemFails

\* Every behaviour of the supervised process is one that Engine allows its owner
\* to see.
THEOREM KeepsPromise == Spec => ImplementsEngine
<1>1. Init => Promise!EngineInit
  BY GuardSeen DEF Init, Promise!EngineInit, GuardTable, Launching, Process
<1>2. IInv /\ Standing /\ [Next]_vars => IInv' /\ Standing'
  BY StepKeepsIInv, StepKeepsStanding
<1>3. IInv /\ IInv' /\ Standing /\ Standing' /\ [Next]_vars => [Promise!EngineNext]_(Promise!engine)
  BY StepImplements
<1>4. Spec => Promise!EngineSpec
  BY <1>1, <1>2, <1>3, InitIInv, InitStanding, PTL DEF Spec, Promise!EngineSpec
<1> QED BY <1>4 DEF ImplementsEngine

-----------------------------------------------------------------------------
(* The removal of one directory. *)

\* Once a sweep was clean, the next one comes a settle interval later, or at
\* the deadline.
Verifying ==
  verify_absence =>
    /\ swept # {}
    /\ SettleInterval > 0
    /\ \A time \in swept :
         /\ time <= now
         /\ step = "pause" => wake >= time + SettleInterval \/ wake >= Timeout
         /\ step = "sweep" => now >= time + SettleInterval \/ now >= Timeout

CleanupInv ==
  /\ CleanupTypeOK
  /\ Verifying
  /\ step = "check" => verify_absence
  /\ step # "removed" /\ ~verify_absence => swept = {}
  /\ SettledOrAtDeadline
  /\ FailsOnlyAtDeadline

LEMMA InitCleanupInv == CleanupInit => CleanupInv
<1> SUFFICES ASSUME CleanupInit PROVE CleanupInv
  OBVIOUS
<1>1. CleanupTypeOK
  <2>1. now \in 0..MaxTime
    BY IntervalsAssumption DEF CleanupInit
  <2>2. present \in BOOLEAN
    BY IntervalsAssumption DEF CleanupInit
  <2>3. swept \in SUBSET (0..MaxTime)
    BY IntervalsAssumption DEF CleanupInit
  <2> QED  BY <2>1, <2>2, <2>3 DEF CleanupInit, CleanupTypeOK
<1>2. Verifying /\ SettledOrAtDeadline /\ FailsOnlyAtDeadline
  BY DEF CleanupInit, Verifying, SettledOrAtDeadline, FailsOnlyAtDeadline
<1> QED  BY <1>1, <1>2 DEF CleanupInv, CleanupInit

LEMMA NextCleanupInv == CleanupInv /\ [CleanupNext]_cleanup => CleanupInv'
<1> SUFFICES ASSUME CleanupInv, [CleanupNext]_cleanup PROVE CleanupInv'
  OBVIOUS
<1> USE IntervalsAssumption DEF CleanupInv, CleanupTypeOK, Verifying, SettledOrAtDeadline, FailsOnlyAtDeadline
<1>1. CASE SweepRemoves
  <2>1. present' \in BOOLEAN /\ verify_absence' \in BOOLEAN
    BY <1>1 DEF SweepRemoves
  <2>2. CleanupTypeOK'
    BY <1>1, <2>1 DEF SweepRemoves, Return
  <2>3. Verifying' /\ (step = "check" => verify_absence)'
        /\ (step # "removed" /\ ~verify_absence => swept = {})'
    BY <1>1 DEF SweepRemoves, Return
  <2>4. SettledOrAtDeadline' /\ FailsOnlyAtDeadline'
    BY <1>1 DEF SweepRemoves, Return
  <2> QED  BY <2>2, <2>3, <2>4
<1>2. CASE SweepFindsNothing
  <2>1. present' \in BOOLEAN /\ verify_absence' \in BOOLEAN /\ ~present'
    BY <1>2 DEF SweepFindsNothing
  <2>2. CleanupTypeOK'
    BY <1>2, <2>1 DEF SweepFindsNothing, Return
  <2>3. CASE verify_absence \/ SettleInterval = 0
    <3>1. step = "sweep" /\ step' = "removed" /\ UNCHANGED <<now, verify_absence, swept>>
      BY <1>2, <2>3 DEF SweepFindsNothing, Return
    <3> QED  BY <2>1, <2>2, <2>3, <3>1
  <2>4. CASE ~verify_absence /\ SettleInterval # 0
    <3>1. step' = "check" /\ verify_absence' /\ swept' = {now} /\ now' = now
      BY <1>2, <2>4 DEF SweepFindsNothing, Return
    <3> QED  BY <2>2, <2>4, <3>1
  <2> QED  BY <2>3, <2>4
<1>3. CASE SweepFails
  <2>1. present' \in BOOLEAN /\ verify_absence' \in BOOLEAN /\ ~verify_absence'
    BY <1>3 DEF SweepFails
  <2>2. CleanupTypeOK'
    BY <1>3, <2>1 DEF SweepFails, Return, Pause, Minimum
  <2>3. step' \in {"failed", "pause"} /\ now' = now
    BY <1>3 DEF SweepFails, Return, Pause
  <2>4. step' = "failed" => now >= Timeout
    BY <1>3 DEF SweepFails, Return, Pause
  <2>5. swept' = {} /\ step' # "removed" /\ step' # "check"
    BY <1>3, <2>3 DEF SweepFails
  <2>6. Verifying' /\ SettledOrAtDeadline' /\ FailsOnlyAtDeadline'
    BY <2>1, <2>3, <2>4, <2>5
  <2> QED  BY <2>1, <2>2, <2>5, <2>6
<1>4. CASE Check
  BY <1>4 DEF Check, Return, Pause, Minimum
<1>5. CASE Wake
  BY <1>5 DEF Wake
<1>6. CASE Helper
  BY <1>6 DEF Helper
<1>7. CASE Tick
  BY <1>7 DEF Tick
<1>8. CASE UNCHANGED cleanup
  BY <1>8 DEF cleanup
<1> QED
  BY <1>1, <1>2, <1>3, <1>4, <1>5, <1>6, <1>7, <1>8 DEF CleanupNext, Sweep

LEMMA CleanupInductive == CleanupSpec => []CleanupInv
BY InitCleanupInv, NextCleanupInv, PTL DEF CleanupSpec

\* The clock, the pause and the verdict keep their shape.
THEOREM CleanupTypeCorrect == CleanupSpec => []CleanupTypeOK
BY CleanupInductive, PTL DEF CleanupInv

\* A removal reported done followed two clean sweeps a settle interval apart, or
\* reached its deadline, and left no directory.
THEOREM RemovedIsSettled == CleanupSpec => []SettledOrAtDeadline
BY CleanupInductive, PTL DEF CleanupInv

\* A removal that fails has used its whole deadline.
THEOREM FailureUsesDeadline == CleanupSpec => []FailsOnlyAtDeadline
BY CleanupInductive, PTL DEF CleanupInv

-----------------------------------------------------------------------------
(* The two together: why the step that EngineProcess takes for a removal may *)
(* stand for two runs of DirectoryCleanup. *)

\* Cleanups only run where Remove is enabled, and keep it so.
OnlyWhileRemoving ==
  /\ removing \in {"none", "scratch", "profile"}
  /\ removing # "none" => pc = "remove" /\ ~cleaned

\* A cleanup that succeeded left nothing, and so did the one before it.
RemovedIsGone ==
  /\ present \in BOOLEAN
  /\ step = "removed" => ~present
  /\ scratch_cleanup \in [result : {"removed", "failed"}, left : BOOLEAN]
  /\ scratch_cleanup.result = "removed" => ~scratch_cleanup.left

JoinedInv == IInv /\ OnlyWhileRemoving /\ RemovedIsGone

LEMMA InitJoinedInv == JoinedInit => JoinedInv
<1> SUFFICES ASSUME JoinedInit PROVE JoinedInv
  OBVIOUS
<1>1. removing = "none" /\ scratch_cleanup = [result |-> "removed", left |-> FALSE]
      /\ present \in BOOLEAN /\ step = "sweep" /\ ~present
  BY DEF JoinedInit, CleanupInit
<1> QED BY <1>1, InitIInv DEF JoinedInv, JoinedInit, OnlyWhileRemoving, RemovedIsGone

LEMMA EngineStepKeepsRemoving ==
  ASSUME OnlyWhileRemoving, EngineSteps
  PROVE  OnlyWhileRemoving'
<1>1. UNCHANGED removing
  BY DEF EngineSteps
<1>2. pc = "remove" /\ ~cleaned => pc' = "remove" /\ cleaned' = cleaned
  <2> SUFFICES ASSUME pc = "remove", ~cleaned PROVE pc' = "remove" /\ cleaned' = cleaned
    OBVIOUS
  <2>1. Environment
    BY Zenon DEF EngineSteps, Prepare, RefuseLaunch, CreateProfile, CreateScratch, CancelBeforeSpawn,
       SpawnFails, Spawn, Poll, PollCancelled, PollExited, PollReady, PollUnreadable, PollNotReady,
       SystemFails, PollFails, WaitFails, Owner, TryWait, Shutdown, DropGuard, PollChild, Kill,
       PollAgain, WaitForExit, SkipRemoval
  <2> QED
    BY <2>1, Zenon DEF Environment, BrowserWritesPort, BrowserExits, BrowserDies, Cancel,
       StartupTimeElapses, directories
<1> QED BY <1>1, <1>2 DEF OnlyWhileRemoving

LEMMA CleanupKeepsRemoved ==
  ASSUME present \in BOOLEAN, step = "removed" => ~present, CleanupNext
  PROVE  present' \in BOOLEAN /\ (step' = "removed" => ~present')
<1>1. CASE SweepRemoves \/ SweepFindsNothing
  <2>1. ~present'
    BY <1>1, Zenon DEF SweepRemoves, SweepFindsNothing
  <2>2. present' \in BOOLEAN
    BY <1>1 DEF SweepRemoves, SweepFindsNothing
  <2> QED BY <2>1, <2>2
<1>4. CASE SweepFails
  <2>1. present' = present /\ step' \in {"failed", "pause"}
    BY <1>4, Zenon DEF SweepFails, Return, Pause
  <2> QED BY <2>1
<1>2. CASE Check
  BY <1>2 DEF Check, Return, Pause
<1>3. CASE Wake \/ Helper \/ Tick
  BY <1>3 DEF Wake, Helper, Tick
<1> QED BY <1>1, <1>2, <1>3, <1>4 DEF CleanupNext, Sweep

LEMMA StepIsRemoval == JoinedInv /\ [JoinedNext]_joined => [Next]_vars
<1> SUFFICES ASSUME JoinedInv, JoinedNext PROVE [Next]_vars
  BY DEF joined
<1> USE DEF JoinedInv
<1>1. CASE EngineSteps
  BY <1>1, Zenon DEF EngineSteps, Next, Terminate
<1>2. CASE RemoveScratch \/ RemoveProfile \/ CleanupSteps
  BY <1>2, Zenon DEF RemoveScratch, RemoveProfile, CleanupSteps
<1>3. CASE RemovalDone
  <2> DEFINE both == step = "removed" /\ scratch_cleanup.result = "removed"
  <2>1. pc = "remove" /\ ~cleaned /\ RemovalReturns(both) /\ Finish
    BY <1>3 DEF RemovalDone, OnlyWhileRemoving
  <2>2. RemoveDirectories(both)
    BY <1>3 DEF RemovalDone, RemovedIsGone, RemoveDirectories
  <2>3. both \in BOOLEAN
    OBVIOUS
  <2> HIDE DEF both
  <2>4. Remove
    BY <2>1, <2>2, <2>3, Zenon DEF Remove
  <2> QED BY <2>4 DEF Next, Terminate
<1> QED BY <1>1, <1>2, <1>3 DEF JoinedNext

LEMMA NextJoinedInv == JoinedInv /\ [JoinedNext]_joined => JoinedInv'
<1> SUFFICES ASSUME JoinedInv, [JoinedNext]_joined PROVE JoinedInv'
  OBVIOUS
<1> USE DEF JoinedInv
<1>1. IInv'
  BY StepKeepsIInv, StepIsRemoval
<1>2. CASE EngineSteps
  <2>1. RemovedIsGone'
    BY <1>2, Zenon DEF EngineSteps, RemovedIsGone, cleanup
  <2> QED BY <1>1, <1>2, <2>1, EngineStepKeepsRemoving
<1>3. CASE RemoveScratch
  <2>1. OnlyWhileRemoving'
    BY <1>3 DEF RemoveScratch, OnlyWhileRemoving, vars, directories
  <2>2. RemovedIsGone'
    BY <1>3 DEF RemoveScratch, StartCleanup, RemovedIsGone, IInv, Flags
  <2> QED BY <1>1, <2>1, <2>2
<1>4. CASE RemoveProfile
  <2>1. OnlyWhileRemoving'
    BY <1>4 DEF RemoveProfile, OnlyWhileRemoving, vars, directories
  <2>2. RemovedIsGone'
    BY <1>4 DEF RemoveProfile, StartCleanup, RemovedIsGone, IInv, Flags
  <2> QED BY <1>1, <2>1, <2>2
<1>5. CASE CleanupSteps
  <2>1. OnlyWhileRemoving'
    BY <1>5 DEF CleanupSteps, OnlyWhileRemoving, vars, directories
  <2>2. RemovedIsGone'
    BY <1>5, CleanupKeepsRemoved DEF CleanupSteps, RemovedIsGone
  <2> QED BY <1>1, <2>1, <2>2
<1>6. CASE RemovalDone
  <2>1. OnlyWhileRemoving'
    BY <1>6 DEF RemovalDone, OnlyWhileRemoving
  <2>2. RemovedIsGone'
    BY <1>6, Zenon DEF RemovalDone, RemovedIsGone, cleanup
  <2> QED BY <1>1, <2>1, <2>2
<1>7. CASE UNCHANGED joined
  BY <1>1, <1>7 DEF joined, vars, directories, cleanup, OnlyWhileRemoving, RemovedIsGone
<1> QED BY <1>2, <1>3, <1>4, <1>5, <1>6, <1>7 DEF JoinedNext

-----------------------------------------------------------------------------

\* The supervisor may count on one removal step: whatever the helpers do and
\* however the deadline falls, the two cleanups succeed together only when both
\* directories are gone.
THEOREM CleanupsAreOneRemoval == JoinedSpec => RemovalIsOneStep
<1>1. JoinedInit => Init
  BY DEF JoinedInit
<1>2. JoinedSpec => Spec
  BY <1>1, InitJoinedInv, NextJoinedInv, StepIsRemoval, PTL DEF JoinedSpec, Spec
<1> QED BY <1>2 DEF RemovalIsOneStep

\* So the supervisor with its cleanups keeps the promises of Engine.
THEOREM CleanupsKeepPromise == JoinedSpec => ImplementsEngine
BY CleanupsAreOneRemoval, KeepsPromise DEF RemovalIsOneStep
=============================================================================
