----------------------- MODULE InteractiveSession_proof -----------------------
(***************************************************************************)
(* Proofs about InteractiveSession, for every event limit and relaunch     *)
(* budget.                                                                 *)
(***************************************************************************)
EXTENDS InteractiveSession, TLAPS

\* The parts of TypeOK, which different provers handle.
Shape ==
  /\ pc \in Places
  /\ child \in {"none", "running", "exited", "reaped"}
  /\ event \in {"none"} \cup Events
  /\ operation \in {"none"} \cup Reports \cup Errors

Flags ==
  /\ running \in BOOLEAN
  /\ recovering \in BOOLEAN
  /\ directories \in BOOLEAN
  /\ cdp \in BOOLEAN
  /\ cancelled \in BOOLEAN
  /\ cleanup \in BOOLEAN

Leaks == leaked \in SUBSET {"launch", "guard"}

Counters ==
  /\ events_processed \in 0..MaxEvents
  /\ relaunches \in 0..MaxRelaunches
  /\ launches \in 0..(1 + MaxRelaunches)

LEMMA TypeParts == TypeOK <=> Shape /\ Flags /\ Leaks /\ Counters
BY DEF TypeOK, Shape, Flags, Leaks, Counters

\* What has been launched is what has been counted, plus the browser being
\* opened; a recovery only starts within its budget.
Budget ==
  /\ pc \in {"start", "launch"} /\ ~recovering => launches = 0 /\ relaunches = 0
  /\ pc = "launch" /\ recovering => launches = 1 + relaunches /\ relaunches < MaxRelaunches
  /\ pc \in {"connect", "configure"} /\ ~recovering => launches = 1 /\ relaunches = 0
  /\ pc \in {"connect", "configure"} /\ recovering => launches = 2 + relaunches /\ relaunches < MaxRelaunches
  /\ pc \in Looping \cup {"first", "retire"} => launches = 1 + relaunches
  /\ pc = "retire" => relaunches < MaxRelaunches
  /\ pc \in Looping \cup {"start", "first", "retire"} => ~recovering

\* Who holds the browser: nobody before a launch, the opening function until it
\* returns, then the loop, until it is retired or the session closes.
Custody ==
  /\ pc \in {"start", "launch", "retire"} => child \in {"none", "reaped"} /\ ~directories
  /\ pc \in {"start", "launch", "connect"} => ~cdp
  /\ pc = "configure" => cdp
  /\ pc \in Opening \cup {"start", "retire"} => ~running
  /\ pc \in Looping \cup {"first"} => running /\ cdp
  /\ pc \in {"close", "done"} /\ ~running /\ ~Reported /\ "launch" \notin leaked =>
       child \in {"none", "reaped"} /\ ~directories /\ ~cdp
  /\ pc = "done" => ~running

\* An event is only pending on the way to its handler.
Pending ==
  /\ pc \in {"start", "first", "select"} => event = "none"
  /\ pc \in {"launch", "connect", "configure"} /\ ~recovering => event = "none"

IInv == Shape /\ Flags /\ Leaks /\ Counters /\ Budget /\ Custody /\ Pending

LEMMA InitIInv == Init => IInv
<1> SUFFICES ASSUME Init PROVE IInv
  OBVIOUS
<1> USE LimitsAssumption DEF Init, Places, Opening, Looping, Events, Reports, Errors
<1>1. Shape
  BY DEF Shape
<1>2. Flags
  BY DEF Flags
<1>3. Leaks /\ Counters
  BY DEF Leaks, Counters
<1>4. Budget
  BY DEF Budget
<1>5. Custody
  BY DEF Custody
<1>6. Pending
  BY DEF Pending
<1> QED BY <1>1, <1>2, <1>3, <1>4, <1>5, <1>6 DEF IInv

USE DEF engine, loop, result

LEMMA StepKeepsIInv == IInv /\ [Next]_vars => IInv'
<1> SUFFICES ASSUME IInv, [Next]_vars PROVE IInv'
  OBVIOUS
<1> USE LimitsAssumption DEF IInv, Places, Opening, Looping, Events, Reports, Errors
<1>1. ASSUME BrowserExits PROVE IInv'
  <2>1. Shape'
    BY <1>1 DEF BrowserExits, Shape
  <2>2. Flags'
    BY <1>1 DEF BrowserExits, Flags
  <2>3. Leaks'
    BY <1>1 DEF BrowserExits, Leaks
  <2>4. Counters'
    BY <1>1 DEF BrowserExits, Counters, Budget
  <2>5. Budget'
    BY <1>1 DEF BrowserExits, Counters, Budget
  <2>6. Custody'
    BY <1>1 DEF BrowserExits, Shape, Custody, Reported
  <2>7. Pending'
    BY <1>1 DEF BrowserExits, Pending, Budget
  <2> QED BY <2>1, <2>2, <2>3, <2>4, <2>5, <2>6, <2>7
<1>2. ASSUME Cancel PROVE IInv'
  <2>1. Shape'
    BY <1>2 DEF Cancel, Shape
  <2>2. Flags'
    BY <1>2 DEF Cancel, Flags
  <2>3. Leaks'
    BY <1>2 DEF Cancel, Leaks
  <2>4. Counters'
    BY <1>2 DEF Cancel, Counters, Budget
  <2>5. Budget'
    BY <1>2 DEF Cancel, Counters, Budget
  <2>6. Custody'
    BY <1>2 DEF Cancel, Shape, Custody, Reported
  <2>7. Pending'
    BY <1>2 DEF Cancel, Pending, Budget
  <2> QED BY <2>1, <2>2, <2>3, <2>4, <2>5, <2>6, <2>7
<1>3. ASSUME Start PROVE IInv'
  <2>1. Shape'
    BY <1>3 DEF Start, EndWith, Shape
  <2>2. Flags'
    BY <1>3 DEF Start, EndWith, Flags
  <2>3. Leaks'
    BY <1>3 DEF Start, EndWith, Leaks
  <2>4. Counters'
    BY <1>3 DEF Start, EndWith, Counters, Budget
  <2>5. Budget'
    BY <1>3 DEF Start, EndWith, Counters, Budget
  <2>6. Custody'
    BY <1>3 DEF Start, EndWith, Shape, Custody, Reported
  <2>7. Pending'
    BY <1>3 DEF Start, EndWith, Pending, Budget
  <2> QED BY <2>1, <2>2, <2>3, <2>4, <2>5, <2>6, <2>7
<1>4. ASSUME LaunchDone PROVE IInv'
  <2>1. Shape'
    BY <1>4 DEF LaunchDone, Shape
  <2>2. Flags'
    BY <1>4 DEF LaunchDone, Flags
  <2>3. Leaks'
    BY <1>4 DEF LaunchDone, Leaks
  <2>4. Counters'
    BY <1>4 DEF LaunchDone, Counters, Budget
  <2>5. Budget'
    BY <1>4 DEF LaunchDone, Counters, Budget
  <2>6. Custody'
    BY <1>4 DEF LaunchDone, Shape, Custody, Reported
  <2>7. Pending'
    BY <1>4 DEF LaunchDone, Pending, Budget
  <2> QED BY <2>1, <2>2, <2>3, <2>4, <2>5, <2>6, <2>7
<1>5. ASSUME LaunchFails PROVE IInv'
  <2>1. Shape'
    BY <1>5 DEF LaunchFails, EndWith, Shape
  <2>2. Flags'
    BY <1>5 DEF LaunchFails, EndWith, Flags
  <2>3. Leaks'
    BY <1>5 DEF LaunchFails, EndWith, Leaks
  <2>4. Counters'
    BY <1>5 DEF LaunchFails, EndWith, Counters, Budget
  <2>5. Budget'
    BY <1>5 DEF LaunchFails, EndWith, Counters, Budget
  <2>6. Custody'
    BY <1>5 DEF LaunchFails, EndWith, Shape, Custody, Reported
  <2>7. Pending'
    BY <1>5 DEF LaunchFails, EndWith, Pending, Budget
  <2> QED BY <2>1, <2>2, <2>3, <2>4, <2>5, <2>6, <2>7
<1>6. ASSUME ConnectDone PROVE IInv'
  <2>1. Shape'
    BY <1>6 DEF ConnectDone, Shape
  <2>2. Flags'
    BY <1>6 DEF ConnectDone, Flags
  <2>3. Leaks'
    BY <1>6 DEF ConnectDone, Leaks
  <2>4. Counters'
    BY <1>6 DEF ConnectDone, Counters, Budget
  <2>5. Budget'
    BY <1>6 DEF ConnectDone, Counters, Budget
  <2>6. Custody'
    BY <1>6 DEF ConnectDone, Shape, Custody, Reported
  <2>7. Pending'
    BY <1>6 DEF ConnectDone, Pending, Budget
  <2> QED BY <2>1, <2>2, <2>3, <2>4, <2>5, <2>6, <2>7
<1>7. ASSUME ConnectFails PROVE IInv'
  <2>1. Shape'
    BY <1>7 DEF ConnectFails, OpeningFails, Shape
  <2>2. Flags'
    BY <1>7 DEF ConnectFails, OpeningFails, Flags
  <2>3. Leaks'
    BY <1>7 DEF ConnectFails, OpeningFails, Leaks
  <2>4. Counters'
    BY <1>7 DEF ConnectFails, OpeningFails, Counters, Budget
  <2>5. Budget'
    BY <1>7 DEF ConnectFails, OpeningFails, Counters, Budget
  <2>6. Custody'
    BY <1>7 DEF ConnectFails, OpeningFails, Shape, Custody, Reported
  <2>7. Pending'
    BY <1>7 DEF ConnectFails, OpeningFails, Pending, Budget
  <2> QED BY <2>1, <2>2, <2>3, <2>4, <2>5, <2>6, <2>7
<1>8. ASSUME ConfigureDone PROVE IInv'
  <2>1. Shape'
    BY <1>8 DEF ConfigureDone, Shape
  <2>2. Flags'
    BY <1>8 DEF ConfigureDone, Flags
  <2>3. Leaks'
    BY <1>8 DEF ConfigureDone, Leaks
  <2>4. Counters'
    BY <1>8 DEF ConfigureDone, Counters, Budget
  <2>5. Budget'
    BY <1>8 DEF ConfigureDone, Counters, Budget
  <2>6. Custody'
    BY <1>8 DEF ConfigureDone, Shape, Custody, Reported
  <2>7. Pending'
    BY <1>8 DEF ConfigureDone, Pending, Budget
  <2> QED BY <2>1, <2>2, <2>3, <2>4, <2>5, <2>6, <2>7
<1>9. ASSUME ReopenDone PROVE IInv'
  <2>1. Shape'
    BY <1>9 DEF ReopenDone, OpeningFails, Shape
  <2>2. Flags'
    BY <1>9 DEF ReopenDone, OpeningFails, Flags
  <2>3. Leaks'
    BY <1>9 DEF ReopenDone, OpeningFails, Leaks
  <2>4. Counters'
    BY <1>9 DEF ReopenDone, OpeningFails, Counters, Budget
  <2>5. Budget'
    BY <1>9 DEF ReopenDone, OpeningFails, Counters, Budget
  <2>6. Custody'
    BY <1>9 DEF ReopenDone, OpeningFails, Shape, Custody, Reported
  <2>7. Pending'
    BY <1>9 DEF ReopenDone, OpeningFails, Pending, Budget
  <2> QED BY <2>1, <2>2, <2>3, <2>4, <2>5, <2>6, <2>7
<1>10. ASSUME ConfigureFails PROVE IInv'
  <2>1. Shape'
    BY <1>10 DEF ConfigureFails, OpeningFails, Shape
  <2>2. Flags'
    BY <1>10 DEF ConfigureFails, OpeningFails, Flags
  <2>3. Leaks'
    BY <1>10 DEF ConfigureFails, OpeningFails, Leaks
  <2>4. Counters'
    BY <1>10 DEF ConfigureFails, OpeningFails, Counters, Budget
  <2>5. Budget'
    BY <1>10 DEF ConfigureFails, OpeningFails, Counters, Budget
  <2>6. Custody'
    BY <1>10 DEF ConfigureFails, OpeningFails, Shape, Custody, Reported
  <2>7. Pending'
    BY <1>10 DEF ConfigureFails, OpeningFails, Pending, Budget
  <2> QED BY <2>1, <2>2, <2>3, <2>4, <2>5, <2>6, <2>7
<1>11. ASSUME Abandon PROVE IInv'
  <2>1. Shape'
    BY <1>11 DEF Abandon, CleanUp, Shape
  <2>2. Flags'
    BY <1>11 DEF Abandon, CleanUp, Flags
  <2>3. Leaks'
    BY <1>11 DEF Abandon, CleanUp, Leaks
  <2>4. Counters'
    BY <1>11 DEF Abandon, CleanUp, Counters, Budget
  <2>5. Budget'
    BY <1>11 DEF Abandon, CleanUp, Counters, Budget
  <2>6. Custody'
    BY <1>11 DEF Abandon, CleanUp, Shape, Custody, Reported
  <2>7. Pending'
    BY <1>11 DEF Abandon, CleanUp, Pending, Budget
  <2> QED BY <2>1, <2>2, <2>3, <2>4, <2>5, <2>6, <2>7
<1>12. ASSUME First PROVE IInv'
  <2>1. Shape'
    BY <1>12 DEF First, EndWith, Shape
  <2>2. Flags'
    BY <1>12 DEF First, EndWith, Flags
  <2>3. Leaks'
    BY <1>12 DEF First, EndWith, Leaks
  <2>4. Counters'
    BY <1>12 DEF First, EndWith, Counters, Budget
  <2>5. Budget'
    BY <1>12 DEF First, EndWith, Counters, Budget
  <2>6. Custody'
    BY <1>12 DEF First, EndWith, Shape, Custody, Reported
  <2>7. Pending'
    BY <1>12 DEF First, EndWith, Pending, Budget
  <2> QED BY <2>1, <2>2, <2>3, <2>4, <2>5, <2>6, <2>7
<1>13. ASSUME SelectCancelled PROVE IInv'
  <2>1. Shape'
    BY <1>13 DEF SelectCancelled, EndWith, Shape
  <2>2. Flags'
    BY <1>13 DEF SelectCancelled, EndWith, Flags
  <2>3. Leaks'
    BY <1>13 DEF SelectCancelled, EndWith, Leaks
  <2>4. Counters'
    BY <1>13 DEF SelectCancelled, EndWith, Counters, Budget
  <2>5. Budget'
    BY <1>13 DEF SelectCancelled, EndWith, Counters, Budget
  <2>6. Custody'
    BY <1>13 DEF SelectCancelled, EndWith, Shape, Custody, Reported
  <2>7. Pending'
    BY <1>13 DEF SelectCancelled, EndWith, Pending, Budget
  <2> QED BY <2>1, <2>2, <2>3, <2>4, <2>5, <2>6, <2>7
<1>14. ASSUME SelectTick PROVE IInv'
  <2>1. Shape'
    BY <1>14 DEF SelectTick, Shape
  <2>2. Flags'
    BY <1>14 DEF SelectTick, Flags
  <2>3. Leaks'
    BY <1>14 DEF SelectTick, Leaks
  <2>4. Counters'
    BY <1>14 DEF SelectTick, Counters, Budget
  <2>5. Budget'
    BY <1>14 DEF SelectTick, Counters, Budget
  <2>6. Custody'
    BY <1>14 DEF SelectTick, Shape, Custody, Reported
  <2>7. Pending'
    BY <1>14 DEF SelectTick, Pending, Budget
  <2> QED BY <2>1, <2>2, <2>3, <2>4, <2>5, <2>6, <2>7
<1>15. ASSUME SelectEndOfInput PROVE IInv'
  <2>1. Shape'
    BY <1>15 DEF SelectEndOfInput, EndWith, Shape
  <2>2. Flags'
    BY <1>15 DEF SelectEndOfInput, EndWith, Flags
  <2>3. Leaks'
    BY <1>15 DEF SelectEndOfInput, EndWith, Leaks
  <2>4. Counters'
    BY <1>15 DEF SelectEndOfInput, EndWith, Counters, Budget
  <2>5. Budget'
    BY <1>15 DEF SelectEndOfInput, EndWith, Counters, Budget
  <2>6. Custody'
    BY <1>15 DEF SelectEndOfInput, EndWith, Shape, Custody, Reported
  <2>7. Pending'
    BY <1>15 DEF SelectEndOfInput, EndWith, Pending, Budget
  <2> QED BY <2>1, <2>2, <2>3, <2>4, <2>5, <2>6, <2>7
<1>16. ASSUME SelectEvent PROVE IInv'
  <2>1. Shape'
    BY <1>16 DEF SelectEvent, EndWith, Shape
  <2>2. Flags'
    BY <1>16 DEF SelectEvent, EndWith, Flags
  <2>3. Leaks'
    BY <1>16 DEF SelectEvent, EndWith, Leaks
  <2>4. Counters'
    BY <1>16 DEF SelectEvent, EndWith, Counters, Budget
  <2>5. Budget'
    BY <1>16 DEF SelectEvent, EndWith, Counters, Budget
  <2>6. Custody'
    BY <1>16 DEF SelectEvent, EndWith, Shape, Custody, Reported
  <2>7. Pending'
    BY <1>16 DEF SelectEvent, EndWith, Pending, Budget
  <2> QED BY <2>1, <2>2, <2>3, <2>4, <2>5, <2>6, <2>7
<1>17. ASSUME SelectEventLimit PROVE IInv'
  <2>1. Shape'
    BY <1>17 DEF SelectEventLimit, EndWith, Shape
  <2>2. Flags'
    BY <1>17 DEF SelectEventLimit, EndWith, Flags
  <2>3. Leaks'
    BY <1>17 DEF SelectEventLimit, EndWith, Leaks
  <2>4. Counters'
    BY <1>17 DEF SelectEventLimit, EndWith, Counters, Budget
  <2>5. Budget'
    BY <1>17 DEF SelectEventLimit, EndWith, Counters, Budget
  <2>6. Custody'
    BY <1>17 DEF SelectEventLimit, EndWith, Shape, Custody, Reported
  <2>7. Pending'
    BY <1>17 DEF SelectEventLimit, EndWith, Pending, Budget
  <2> QED BY <2>1, <2>2, <2>3, <2>4, <2>5, <2>6, <2>7
<1>18. ASSUME RenderDone PROVE IInv'
  <2>1. Shape'
    BY <1>18 DEF RenderDone, Resume, Shape
  <2>2. Flags'
    BY <1>18 DEF RenderDone, Resume, Flags
  <2>3. Leaks'
    BY <1>18 DEF RenderDone, Resume, Leaks
  <2>4. Counters'
    BY <1>18 DEF RenderDone, Resume, Counters, Budget
  <2>5. Budget'
    BY <1>18 DEF RenderDone, Resume, Counters, Budget
  <2>6. Custody'
    BY <1>18 DEF RenderDone, Resume, Shape, Custody, Reported
  <2>7. Pending'
    BY <1>18 DEF RenderDone, Resume, Pending, Budget
  <2> QED BY <2>1, <2>2, <2>3, <2>4, <2>5, <2>6, <2>7
<1>19. ASSUME RenderFails PROVE IInv'
  <2>1. Shape'
    BY <1>19 DEF RenderFails, EndWith, Shape
  <2>2. Flags'
    BY <1>19 DEF RenderFails, EndWith, Flags
  <2>3. Leaks'
    BY <1>19 DEF RenderFails, EndWith, Leaks
  <2>4. Counters'
    BY <1>19 DEF RenderFails, EndWith, Counters, Budget
  <2>5. Budget'
    BY <1>19 DEF RenderFails, EndWith, Counters, Budget
  <2>6. Custody'
    BY <1>19 DEF RenderFails, EndWith, Shape, Custody, Reported
  <2>7. Pending'
    BY <1>19 DEF RenderFails, EndWith, Pending, Budget
  <2> QED BY <2>1, <2>2, <2>3, <2>4, <2>5, <2>6, <2>7
<1>20. ASSUME BrowserRuns PROVE IInv'
  <2>1. Shape'
    BY <1>20 DEF BrowserRuns, Resume, Shape
  <2>2. Flags'
    BY <1>20 DEF BrowserRuns, Resume, Flags
  <2>3. Leaks'
    BY <1>20 DEF BrowserRuns, Resume, Leaks
  <2>4. Counters'
    BY <1>20 DEF BrowserRuns, Resume, Counters, Budget
  <2>5. Budget'
    BY <1>20 DEF BrowserRuns, Resume, Counters, Budget
  <2>6. Custody'
    BY <1>20 DEF BrowserRuns, Resume, Shape, Custody, Reported
  <2>7. Pending'
    BY <1>20 DEF BrowserRuns, Resume, Pending, Budget
  <2> QED BY <2>1, <2>2, <2>3, <2>4, <2>5, <2>6, <2>7
<1>21. ASSUME PollFails PROVE IInv'
  <2>1. Shape'
    BY <1>21 DEF PollFails, EndWith, Shape
  <2>2. Flags'
    BY <1>21 DEF PollFails, EndWith, Flags
  <2>3. Leaks'
    BY <1>21 DEF PollFails, EndWith, Leaks
  <2>4. Counters'
    BY <1>21 DEF PollFails, EndWith, Counters, Budget
  <2>5. Budget'
    BY <1>21 DEF PollFails, EndWith, Counters, Budget
  <2>6. Custody'
    BY <1>21 DEF PollFails, EndWith, Shape, Custody, Reported
  <2>7. Pending'
    BY <1>21 DEF PollFails, EndWith, Pending, Budget
  <2> QED BY <2>1, <2>2, <2>3, <2>4, <2>5, <2>6, <2>7
<1>22. ASSUME BrowserGone PROVE IInv'
  <2>1. Shape'
    BY <1>22 DEF BrowserGone, EndWith, Shape
  <2>2. Flags'
    BY <1>22 DEF BrowserGone, EndWith, Flags
  <2>3. Leaks'
    BY <1>22 DEF BrowserGone, EndWith, Leaks
  <2>4. Counters'
    BY <1>22 DEF BrowserGone, EndWith, Counters, Budget
  <2>5. Budget'
    BY <1>22 DEF BrowserGone, EndWith, Counters, Budget
  <2>6. Custody'
    BY <1>22 DEF BrowserGone, EndWith, Shape, Custody, Reported
  <2>7. Pending'
    BY <1>22 DEF BrowserGone, EndWith, Pending, Budget
  <2> QED BY <2>1, <2>2, <2>3, <2>4, <2>5, <2>6, <2>7
<1>23. ASSUME Retire PROVE IInv'
  <2>1. Shape'
    BY <1>23 DEF Retire, CleanUp, EndWith, Shape
  <2>2. Flags'
    BY <1>23 DEF Retire, CleanUp, EndWith, Flags
  <2>3. Leaks'
    BY <1>23 DEF Retire, CleanUp, EndWith, Leaks
  <2>4. Counters'
    BY <1>23 DEF Retire, CleanUp, EndWith, Counters, Budget
  <2>5. Budget'
    BY <1>23 DEF Retire, CleanUp, EndWith, Counters, Budget
  <2>6. Custody'
    BY <1>23 DEF Retire, CleanUp, EndWith, Shape, Custody, Reported
  <2>7. Pending'
    BY <1>23 DEF Retire, CleanUp, EndWith, Pending, Budget
  <2> QED BY <2>1, <2>2, <2>3, <2>4, <2>5, <2>6, <2>7
<1>24. ASSUME HandleQuit PROVE IInv'
  <2>1. Shape'
    BY <1>24 DEF HandleQuit, EndWith, Shape
  <2>2. Flags'
    BY <1>24 DEF HandleQuit, EndWith, Flags
  <2>3. Leaks'
    BY <1>24 DEF HandleQuit, EndWith, Leaks
  <2>4. Counters'
    BY <1>24 DEF HandleQuit, EndWith, Counters, Budget
  <2>5. Budget'
    BY <1>24 DEF HandleQuit, EndWith, Counters, Budget
  <2>6. Custody'
    BY <1>24 DEF HandleQuit, EndWith, Shape, Custody, Reported
  <2>7. Pending'
    BY <1>24 DEF HandleQuit, EndWith, Pending, Budget
  <2> QED BY <2>1, <2>2, <2>3, <2>4, <2>5, <2>6, <2>7
<1>25. ASSUME HandleUnsupported PROVE IInv'
  <2>1. Shape'
    BY <1>25 DEF HandleUnsupported, EndWith, Shape
  <2>2. Flags'
    BY <1>25 DEF HandleUnsupported, EndWith, Flags
  <2>3. Leaks'
    BY <1>25 DEF HandleUnsupported, EndWith, Leaks
  <2>4. Counters'
    BY <1>25 DEF HandleUnsupported, EndWith, Counters, Budget
  <2>5. Budget'
    BY <1>25 DEF HandleUnsupported, EndWith, Counters, Budget
  <2>6. Custody'
    BY <1>25 DEF HandleUnsupported, EndWith, Shape, Custody, Reported
  <2>7. Pending'
    BY <1>25 DEF HandleUnsupported, EndWith, Pending, Budget
  <2> QED BY <2>1, <2>2, <2>3, <2>4, <2>5, <2>6, <2>7
<1>26. ASSUME HandleLocally PROVE IInv'
  <2>1. Shape'
    BY <1>26 DEF HandleLocally, EndWith, Shape
  <2>2. Flags'
    BY <1>26 DEF HandleLocally, EndWith, Flags
  <2>3. Leaks'
    BY <1>26 DEF HandleLocally, EndWith, Leaks
  <2>4. Counters'
    BY <1>26 DEF HandleLocally, EndWith, Counters, Budget
  <2>5. Budget'
    BY <1>26 DEF HandleLocally, EndWith, Counters, Budget
  <2>6. Custody'
    BY <1>26 DEF HandleLocally, EndWith, Shape, Custody, Reported
  <2>7. Pending'
    BY <1>26 DEF HandleLocally, EndWith, Pending, Budget
  <2> QED BY <2>1, <2>2, <2>3, <2>4, <2>5, <2>6, <2>7
<1>27. ASSUME HandleRemotely PROVE IInv'
  <2>1. Shape'
    BY <1>27 DEF HandleRemotely, Shape
  <2>2. Flags'
    BY <1>27 DEF HandleRemotely, Flags
  <2>3. Leaks'
    BY <1>27 DEF HandleRemotely, Leaks
  <2>4. Counters'
    BY <1>27 DEF HandleRemotely, Counters, Budget
  <2>5. Budget'
    BY <1>27 DEF HandleRemotely, Counters, Budget
  <2>6. Custody'
    BY <1>27 DEF HandleRemotely, Shape, Custody, Reported
  <2>7. Pending'
    BY <1>27 DEF HandleRemotely, Pending, Budget
  <2> QED BY <2>1, <2>2, <2>3, <2>4, <2>5, <2>6, <2>7
<1>28. ASSUME HandleFails PROVE IInv'
  <2>1. Shape'
    BY <1>28 DEF HandleFails, EndWith, Shape
  <2>2. Flags'
    BY <1>28 DEF HandleFails, EndWith, Flags
  <2>3. Leaks'
    BY <1>28 DEF HandleFails, EndWith, Leaks
  <2>4. Counters'
    BY <1>28 DEF HandleFails, EndWith, Counters, Budget
  <2>5. Budget'
    BY <1>28 DEF HandleFails, EndWith, Counters, Budget
  <2>6. Custody'
    BY <1>28 DEF HandleFails, EndWith, Shape, Custody, Reported
  <2>7. Pending'
    BY <1>28 DEF HandleFails, EndWith, Pending, Budget
  <2> QED BY <2>1, <2>2, <2>3, <2>4, <2>5, <2>6, <2>7
<1>29. ASSUME Close PROVE IInv'
  <2>1. Shape'
    BY <1>29 DEF Close, CleanUp, Shape
  <2>2. Flags'
    BY <1>29 DEF Close, CleanUp, Flags
  <2>3. Leaks'
    BY <1>29 DEF Close, CleanUp, Leaks
  <2>4. Counters'
    BY <1>29 DEF Close, CleanUp, Counters, Budget
  <2>5. Budget'
    BY <1>29 DEF Close, CleanUp, Counters, Budget
  <2>6. Custody'
    <3>1. pc' = "done" /\ ~running'
      BY <1>29 DEF Close
    <3>2. CASE running
      <4>1. cleanup' \/ (child' = "reaped" /\ ~directories' /\ ~cdp')
        <5>1. PICK failed \in BOOLEAN : CleanUp(failed) /\ cleanup' = failed
          BY <1>29, <3>2, Zenon DEF Close
        <5>2. CASE failed = TRUE
          BY <5>1, <5>2
        <5>3. CASE failed = FALSE
          BY <5>1, <5>3, Zenon DEF CleanUp
        <5> QED BY <5>1, <5>2, <5>3
      <4> QED BY <3>1, <4>1 DEF Custody, Reported
    <3>3. CASE ~running
      <4>1. UNCHANGED <<child, directories, cdp, leaked, operation, cleanup>> /\ pc = "close"
        BY <1>29, <3>3, Zenon DEF Close
      <4> QED BY <3>1, <3>3, <4>1 DEF Custody, Reported
    <3> QED BY <3>2, <3>3
  <2>7. Pending'
    BY <1>29 DEF Close, CleanUp, Pending, Budget
  <2> QED BY <2>1, <2>2, <2>3, <2>4, <2>5, <2>6, <2>7
<1>30. ASSUME UNCHANGED vars PROVE IInv'
  <2>1. Shape'
    BY <1>30 DEF vars, Shape
  <2>2. Flags'
    BY <1>30 DEF vars, Flags
  <2>3. Leaks'
    BY <1>30 DEF vars, Leaks
  <2>4. Counters'
    BY <1>30 DEF vars, Counters, Budget
  <2>5. Budget'
    BY <1>30 DEF vars, Counters, Budget
  <2>6. Custody'
    BY <1>30 DEF vars, Shape, Custody, Reported
  <2>7. Pending'
    BY <1>30 DEF vars, Pending, Budget
  <2> QED BY <2>1, <2>2, <2>3, <2>4, <2>5, <2>6, <2>7
<1> QED
  BY <1>1, <1>2, <1>3, <1>4, <1>5, <1>6, <1>7, <1>8, <1>9, <1>10, <1>11, <1>12, <1>13, <1>14, <1>15, <1>16, <1>17, <1>18, <1>19, <1>20, <1>21, <1>22, <1>23, <1>24, <1>25, <1>26, <1>27, <1>28, <1>29, <1>30
     DEF Next, Open, Wake, Display, Recover, Handle

LEMMA Invariance == Spec => []IInv
BY InitIInv, StepKeepsIInv, PTL DEF Spec

-----------------------------------------------------------------------------

\* The state of a session keeps its declared shape; in particular at most one
\* browser more than the relaunch budget is ever started.
THEOREM TypeCorrect == Spec => []TypeOK
<1>1. IInv => TypeOK
  BY TypeParts DEF IInv
<1> QED BY Invariance, <1>1, PTL

\* However a session ends, nothing is left that its result does not report.
THEOREM NothingLeftSilently == Spec => []LeavesNothingUnreported
<1>1. IInv => LeavesNothingUnreported
  BY DEF IInv, Custody, LeavesNothingUnreported
<1> QED BY Invariance, <1>1, PTL

\* The loop always has a browser and a connection to work with.
THEOREM LoopAlwaysAvailable == Spec => []AlwaysAvailable
<1>1. IInv => AlwaysAvailable
  BY DEF IInv, Custody, AlwaysAvailable
<1> QED BY Invariance, <1>1, PTL

\* A browser is only started once the one before it is gone.
THEOREM NeverTwoBrowsers == Spec => OneBrowserAtATime
<1> DEFINE Alone == launches' > launches => child \in {"none", "reaped"} /\ ~directories /\ ~cdp
<1>1. IInv /\ [Next]_vars => [Alone]_vars
  <2> SUFFICES ASSUME IInv, Next PROVE Alone
    OBVIOUS
  <2>1. CASE pc = "launch"
    BY <2>1 DEF IInv, Custody
  <2>2. CASE pc # "launch"
    <3>1. launches' = launches
      BY <2>2, Zenon DEF Next, Open, Wake, Display, Recover, Handle, BrowserExits, Cancel, Start, LaunchDone, LaunchFails, ConnectDone, ConnectFails, ConfigureDone, ReopenDone, ConfigureFails, Abandon, First, SelectCancelled, SelectTick, SelectEndOfInput, SelectEvent, SelectEventLimit, RenderDone, RenderFails, BrowserRuns, PollFails, BrowserGone, Retire, HandleQuit, HandleUnsupported, HandleLocally, HandleRemotely, HandleFails, Close, CleanUp
    <3> QED BY <3>1 DEF IInv, Counters
  <2> QED BY <2>1, <2>2
<1>2. Spec => [][Alone]_vars
  BY Invariance, <1>1, PTL DEF Spec
<1> QED BY <1>2 DEF OneBrowserAtATime

\* A recovery neither loses nor repeats the event that was taken before it.
THEOREM NoEventLost == Spec => EventSurvivesRecovery
<1> DEFINE Kept == event # "none" /\ event' # event => pc = "handle" /\ event' = "none"
<1>1. IInv /\ [Next]_vars => [Kept]_vars
  <2> SUFFICES ASSUME IInv, Next PROVE Kept
    OBVIOUS
  <2>1. CASE pc = "select"
    BY <2>1 DEF IInv, Pending
  <2>2. CASE pc # "select" /\ pc # "handle"
    <3>1. event' = event
      BY <2>2, Zenon DEF Next, Open, Wake, Display, Recover, Handle, BrowserExits, Cancel, Start, LaunchDone, LaunchFails, ConnectDone, ConnectFails, ConfigureDone, ReopenDone, ConfigureFails, Abandon, First, SelectCancelled, SelectTick, SelectEndOfInput, SelectEvent, SelectEventLimit, RenderDone, RenderFails, BrowserRuns, PollFails, BrowserGone, Retire, HandleQuit, HandleUnsupported, HandleLocally, HandleRemotely, HandleFails, Close
    <3> QED BY <3>1
  <2>3. CASE pc = "handle"
    <3>1. event' = event \/ event' = "none"
      BY <2>3, Zenon DEF Next, Open, Wake, Display, Recover, Handle, BrowserExits, Cancel, Start, LaunchDone, LaunchFails, ConnectDone, ConnectFails, ConfigureDone, ReopenDone, ConfigureFails, Abandon, First, SelectCancelled, SelectTick, SelectEndOfInput, SelectEvent, SelectEventLimit, RenderDone, RenderFails, BrowserRuns, PollFails, BrowserGone, Retire, HandleQuit, HandleUnsupported, HandleLocally, HandleRemotely, HandleFails, Close
    <3> QED BY <2>3, <3>1
  <2> QED BY <2>1, <2>2, <2>3
<1>2. Spec => [][Kept]_vars
  BY Invariance, <1>1, PTL DEF Spec
<1> QED BY <1>2 DEF EventSurvivesRecovery
=============================================================================
