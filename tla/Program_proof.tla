---------------------------- MODULE Program_proof ----------------------------
(***************************************************************************)
(* Proofs about Program: whatever fails, panics or is cancelled, and       *)
(* whatever the browser does within the promises of Engine, no output      *)
(* stands for an operation that was not cleaned up after, the terminal is  *)
(* restored, and the error the program ends with names every failure.      *)
(***************************************************************************)
EXTENDS Program, TLAPS

Commands == {"stdout", "snapshot", "doctor", "interactive"}
Failures == {"request", "terminal", "launch", "operation", "close", "shutdown", "output"}

\* Where the main task is before it has a browser, while it has one, and after.
Early   == {"start", "enter", "undo", "session"}
Running == {"connect", "operate", "close"}
Late    == {"publish", "rename", "restore", "exit", "done"}

\* What Program relies on of its browser's engine.
EngineShape ==
  /\ guard \in {"launching", "failed", "held", "called", "dropping", "gone"}
  /\ process \in {"none", "alive", "reaped"}

\* What was cleared away stays away, and what is left behind has an error to show.
Promised ==
  /\ cleared => Clean
  /\ guard = "launching" => ~cleared
  /\ guard \in {"failed", "gone"} => Clean \/ excused

Untouched == guard = "launching" /\ process = "none" /\ ~files

Shape ==
  /\ command \in Commands
  /\ pc \in Early \cup Running \cup Late \cup {"launch", "shutdown", "decide"}
  /\ worker \in {"none", "launch", "shutdown", "drop", "blocked"}
  /\ stdout \in {"free", "main"}
  /\ modes \subseteq {"raw", "screen"}
  /\ signals \in {"default", "pending", "watched", "ignored"}
  /\ cdp \in {"none", "open", "closed"}
  /\ failures \subseteq Failures
  /\ reported \subseteq Failures
  /\ output \subseteq {"partial", "temporary", "published"}
  /\ ended \in {"no", "success", "failure", "killed", "aborted"}

\* The main task and its worker: which of them has the browser, in which state.
Custody ==
  /\ pc = "launch" <=> worker = "launch" \/ (worker = "blocked" /\ pc # "shutdown")
  /\ pc = "shutdown" <=> worker \in {"shutdown", "drop"} \/ (worker = "blocked" /\ pc # "launch")
  /\ pc \in Early => Untouched
  /\ pc = "launch" => guard \in {"launching", "failed", "held"}
  /\ pc \in Running => guard = "held"
  /\ worker = "shutdown" => guard \in {"held", "called"}
  /\ worker = "drop" => guard \in {"held", "dropping", "gone"}
  /\ pc = "decide" => guard = "gone"
  /\ pc \in {"publish", "rename"} => guard = IF "launch" \in failures THEN "failed" ELSE "gone"
  /\ pc \in Late => guard \in {"failed", "gone"} \/ Untouched
  /\ cdp = "open" => pc \in {"operate", "close"}

\* A shutdown that failed is on record.
ShutdownCounts ==
  (worker = "drop" \/ pc \in {"decide", "publish", "rename"}) /\ guard # "failed"
    => cleared \/ "shutdown" \in failures

\* What is on record, and what of it the error names.
Record ==
  /\ pc \in {"start", "enter", "session", "launch"} => failures = {} /\ reported = {}
  /\ pc \in {"undo", "restore", "exit", "done"} /\ command # "doctor" => reported = failures
  /\ pc \in {"publish", "rename"} => reported = {} /\ (command # "doctor" => failures = {})
  /\ pc \in Running \cup {"shutdown", "decide"} => "launch" \notin failures

\* Only a session switches modes of the terminal, and it undoes them on its way out.
Modes ==
  /\ command # "interactive" \/ pc \in {"start", "exit", "done"} => modes = {} \/ broken
  /\ pc = "start" => modes = {}
  /\ pc \in {"enter", "undo", "session", "restore"} => command = "interactive"
  /\ pc \in {"publish", "rename"} => command # "interactive"

\* Output is the last thing that happens.
Written ==
  output # {} => /\ pc \in {"rename", "exit", "done"}
                 /\ guard \in {"failed", "gone"}
                 /\ command # "doctor" => cleared /\ failures \subseteq {"output"}

Ended ==
  /\ ended \in {"success", "failure"} => pc = "done"
  /\ pc = "done" => ended # "no"
  /\ TerminalRestored

IInv ==
  /\ EngineShape /\ Promised /\ Shape /\ Custody /\ ShutdownCounts
  /\ Record /\ Modes /\ Written /\ Ended

LEMMA InitIInv == Init => IInv
BY DEF Init, EngineInit, IInv, EngineShape, Promised, Untouched, Shape, Custody, ShutdownCounts, Record, Modes,
       Written, Ended, TerminalRestored, Clean, Commands, Early, Running, Late

-----------------------------------------------------------------------------
(* The engine's steps. *)

LEMMA EngineKeepsPromise ==
  ASSUME EngineShape, Promised, EngineNext
  PROVE  EngineShape' /\ Promised'
<1> USE DEF EngineShape, Promised, Clean
<1>1. CASE EnginePrepares
  BY <1>1 DEF EnginePrepares
<1>2. CASE EngineReaps \/ EngineReady
  BY <1>2 DEF EngineReaps, EngineReady
<1>3. CASE LaunchFails
  BY <1>3 DEF LaunchFails, EngineEnds
<1>4. CASE GuardCalled
  <2>1. guard' = "called" /\ process' \in {process, "reaped"} /\ UNCHANGED <<files, cleared>>
    BY <1>4 DEF GuardCalled
  <2> QED BY <2>1
<1>7. CASE GuardPolled \/ GuardDropped
  BY <1>7 DEF GuardPolled, GuardDropped
<1>5. CASE GuardAnswers
  BY <1>5 DEF GuardAnswers, EngineEnds
<1>6. CASE DropDone
  BY <1>6 DEF DropDone, EngineEnds
<1> QED BY <1>1, <1>2, <1>3, <1>4, <1>5, <1>6, <1>7 DEF EngineNext

-----------------------------------------------------------------------------
(* The steps of the program. *)

LEMMA NextIInv == IInv /\ [Next]_program => IInv'
<1> SUFFICES ASSUME IInv, [Next]_program PROVE IInv'
  OBVIOUS
<1> USE DEF IInv
<1>1. CASE Refuse
  <2>1. EngineShape' /\ Promised'
    BY <1>1 DEF Refuse, Main, EngineShape, Promised, Clean, engine
  <2>2. Shape'
    BY <1>1 DEF Refuse, Main, FailsEarly, Met, engine, terminal, session, Shape, Failures, Early, Running, Late, Commands
  <2>3. Custody' /\ ShutdownCounts'
    BY <1>1 DEF Refuse, Main, FailsEarly, Met, engine, terminal, session, EngineShape, Promised, Shape, Custody, ShutdownCounts, Record, Modes, Untouched, Early, Running, Late, Commands
  <2>4. Record' /\ Modes'
    BY <1>1 DEF Refuse, Main, FailsEarly, Met, engine, terminal, session, EngineShape, Promised, Shape, Custody, ShutdownCounts, Record, Modes, Untouched, Early, Running, Late, Commands
  <2>5. Written' /\ Ended'
    BY <1>1 DEF Refuse, Main, FailsEarly, Met, engine, terminal, session, EngineShape, Promised, Shape, Custody, ShutdownCounts, Record, Modes, Written, Ended, TerminalRestored, Early, Running, Late, Commands
  <2> QED BY <2>1, <2>2, <2>3, <2>4, <2>5
<1>2. CASE EnterRawMode
  <2>1. EngineShape' /\ Promised'
    BY <1>2 DEF EnterRawMode, Main, EngineShape, Promised, Clean, engine
  <2>2. Shape'
    BY <1>2 DEF EnterRawMode, Main, engine, terminal, session, Shape, Failures, Early, Running, Late, Commands
  <2>3. Custody' /\ ShutdownCounts'
    BY <1>2 DEF EnterRawMode, Main, engine, terminal, session, EngineShape, Promised, Shape, Custody, ShutdownCounts, Record, Modes, Untouched, Early, Running, Late, Commands
  <2>4. Record' /\ Modes'
    BY <1>2 DEF EnterRawMode, Main, engine, terminal, session, EngineShape, Promised, Shape, Custody, ShutdownCounts, Record, Modes, Untouched, Early, Running, Late, Commands
  <2>5. Written' /\ Ended'
    BY <1>2 DEF EnterRawMode, Main, engine, terminal, session, EngineShape, Promised, Shape, Custody, ShutdownCounts, Record, Modes, Written, Ended, TerminalRestored, Early, Running, Late, Commands
  <2> QED BY <2>1, <2>2, <2>3, <2>4, <2>5
<1>3. CASE EnterScreen
  <2>1. EngineShape' /\ Promised'
    BY <1>3 DEF EnterScreen, Main, EngineShape, Promised, Clean, engine
  <2>2. Shape'
    BY <1>3 DEF EnterScreen, Main, engine, terminal, session, Shape, Failures, Early, Running, Late, Commands
  <2>3. Custody' /\ ShutdownCounts'
    BY <1>3 DEF EnterScreen, Main, engine, terminal, session, EngineShape, Promised, Shape, Custody, ShutdownCounts, Record, Modes, Untouched, Early, Running, Late, Commands
  <2>4. Record' /\ Modes'
    BY <1>3 DEF EnterScreen, Main, engine, terminal, session, EngineShape, Promised, Shape, Custody, ShutdownCounts, Record, Modes, Untouched, Early, Running, Late, Commands
  <2>5. Written' /\ Ended'
    BY <1>3 DEF EnterScreen, Main, engine, terminal, session, EngineShape, Promised, Shape, Custody, ShutdownCounts, Record, Modes, Written, Ended, TerminalRestored, Early, Running, Late, Commands
  <2> QED BY <2>1, <2>2, <2>3, <2>4, <2>5
<1>4. CASE EnterScreenFails
  <2>1. EngineShape' /\ Promised'
    BY <1>4 DEF EnterScreenFails, Main, EngineShape, Promised, Clean, engine
  <2>2. Shape'
    BY <1>4 DEF EnterScreenFails, Main, FailsEarly, Met, engine, terminal, session, Shape, Failures, Early, Running, Late, Commands
  <2>3. Custody' /\ ShutdownCounts'
    BY <1>4 DEF EnterScreenFails, Main, FailsEarly, Met, engine, terminal, session, EngineShape, Promised, Shape, Custody, ShutdownCounts, Record, Modes, Untouched, Early, Running, Late, Commands
  <2>4. Record' /\ Modes'
    BY <1>4 DEF EnterScreenFails, Main, FailsEarly, Met, engine, terminal, session, EngineShape, Promised, Shape, Custody, ShutdownCounts, Record, Modes, Untouched, Early, Running, Late, Commands
  <2>5. Written' /\ Ended'
    BY <1>4 DEF EnterScreenFails, Main, FailsEarly, Met, engine, terminal, session, EngineShape, Promised, Shape, Custody, ShutdownCounts, Record, Modes, Written, Ended, TerminalRestored, Early, Running, Late, Commands
  <2> QED BY <2>1, <2>2, <2>3, <2>4, <2>5
<1>5. CASE UndoEnter
  <2>1. EngineShape' /\ Promised'
    BY <1>5 DEF UndoEnter, Main, EngineShape, Promised, Clean, engine
  <2>2. Shape'
    BY <1>5 DEF UndoEnter, Main, Restore, engine, terminal, session, Shape, Failures, Early, Running, Late, Commands
  <2>3. Custody' /\ ShutdownCounts'
    BY <1>5 DEF UndoEnter, Main, Restore, engine, terminal, session, EngineShape, Promised, Shape, Custody, ShutdownCounts, Record, Modes, Untouched, Early, Running, Late, Commands
  <2>4. Record' /\ Modes'
    BY <1>5 DEF UndoEnter, Main, Restore, engine, terminal, session, EngineShape, Promised, Shape, Custody, ShutdownCounts, Record, Modes, Untouched, Early, Running, Late, Commands
  <2>5. Written' /\ Ended'
    BY <1>5 DEF UndoEnter, Main, Restore, engine, terminal, session, EngineShape, Promised, Shape, Custody, ShutdownCounts, Record, Modes, Written, Ended, TerminalRestored, Early, Running, Late, Commands
  <2> QED BY <2>1, <2>2, <2>3, <2>4, <2>5
<1>6. CASE OpenSession
  <2>1. EngineShape' /\ Promised'
    BY <1>6 DEF OpenSession, Main, EngineShape, Promised, Clean, engine
  <2>2. Shape'
    BY ZenonT(40), <1>6 DEF OpenSession, Main, Met, Work, engine, terminal, session, Shape, Failures, Early, Running, Late, Commands
  <2>3. Custody' /\ ShutdownCounts'
    BY <1>6 DEF OpenSession, Main, Met, Work, engine, terminal, session, EngineShape, Promised, Shape, Custody, ShutdownCounts, Record, Modes, Untouched, Early, Running, Late, Commands
  <2>4. Record' /\ Modes'
    BY <1>6 DEF OpenSession, Main, Met, Work, engine, terminal, session, EngineShape, Promised, Shape, Custody, ShutdownCounts, Record, Modes, Untouched, Early, Running, Late, Commands
  <2>5. Written' /\ Ended'
    BY <1>6 DEF OpenSession, Main, Met, Work, engine, terminal, session, EngineShape, Promised, Shape, Custody, ShutdownCounts, Record, Modes, Written, Ended, TerminalRestored, Early, Running, Late, Commands
  <2> QED BY <2>1, <2>2, <2>3, <2>4, <2>5
<1>7. CASE StartOneShot
  <2>1. EngineShape' /\ Promised'
    BY <1>7 DEF StartOneShot, Main, EngineShape, Promised, Clean, engine
  <2>2. Shape'
    BY <1>7 DEF StartOneShot, Main, Work, engine, terminal, session, Shape, Failures, Early, Running, Late, Commands
  <2>3. Custody' /\ ShutdownCounts'
    BY <1>7 DEF StartOneShot, Main, Work, engine, terminal, session, EngineShape, Promised, Shape, Custody, ShutdownCounts, Record, Modes, Untouched, Early, Running, Late, Commands
  <2>4. Record' /\ Modes'
    BY <1>7 DEF StartOneShot, Main, Work, engine, terminal, session, EngineShape, Promised, Shape, Custody, ShutdownCounts, Record, Modes, Untouched, Early, Running, Late, Commands
  <2>5. Written' /\ Ended'
    BY <1>7 DEF StartOneShot, Main, Work, engine, terminal, session, EngineShape, Promised, Shape, Custody, ShutdownCounts, Record, Modes, Written, Ended, TerminalRestored, Early, Running, Late, Commands
  <2> QED BY <2>1, <2>2, <2>3, <2>4, <2>5
<1>8. CASE LaunchFailed
  <2>1. EngineShape' /\ Promised'
    BY <1>8 DEF LaunchFailed, Main, EngineShape, Promised, Clean, engine
  <2>2. Shape'
    BY <1>8 DEF LaunchFailed, Main, Met, Work, engine, terminal, session, Shape, Failures, Early, Running, Late, Commands
  <2>3. Custody' /\ ShutdownCounts'
    BY <1>8 DEF LaunchFailed, Main, Met, Work, engine, terminal, session, EngineShape, Promised, Shape, Custody, ShutdownCounts, Record, Modes, Untouched, Early, Running, Late, Commands
  <2>4. Record' /\ Modes'
    BY <1>8 DEF LaunchFailed, Main, Met, Work, engine, terminal, session, EngineShape, Promised, Shape, Custody, ShutdownCounts, Record, Modes, Untouched, Early, Running, Late, Commands
  <2>5. Written' /\ Ended'
    BY <1>8 DEF LaunchFailed, Main, Met, Work, engine, terminal, session, EngineShape, Promised, Shape, Custody, ShutdownCounts, Record, Modes, Written, Ended, TerminalRestored, Early, Running, Late, Commands
  <2> QED BY <2>1, <2>2, <2>3, <2>4, <2>5
<1>9. CASE Launched
  <2>1. EngineShape' /\ Promised'
    BY <1>9 DEF Launched, Main, EngineShape, Promised, Clean, engine
  <2>2. Shape'
    BY <1>9 DEF Launched, Main, Work, engine, terminal, session, Shape, Failures, Early, Running, Late, Commands
  <2>3. Custody' /\ ShutdownCounts'
    BY <1>9 DEF Launched, Main, Work, engine, terminal, session, EngineShape, Promised, Shape, Custody, ShutdownCounts, Record, Modes, Untouched, Early, Running, Late, Commands
  <2>4. Record' /\ Modes'
    BY <1>9 DEF Launched, Main, Work, engine, terminal, session, EngineShape, Promised, Shape, Custody, ShutdownCounts, Record, Modes, Untouched, Early, Running, Late, Commands
  <2>5. Written' /\ Ended'
    BY <1>9 DEF Launched, Main, Work, engine, terminal, session, EngineShape, Promised, Shape, Custody, ShutdownCounts, Record, Modes, Written, Ended, TerminalRestored, Early, Running, Late, Commands
  <2> QED BY <2>1, <2>2, <2>3, <2>4, <2>5
<1>10. CASE Connect
  <2>1. EngineShape' /\ Promised'
    BY <1>10 DEF Connect, Main, EngineShape, Promised, Clean, engine
  <2>2. Shape'
    BY <1>10 DEF Connect, Main, Met, Work, engine, terminal, session, Shape, Failures, Early, Running, Late, Commands
  <2>3. Custody' /\ ShutdownCounts'
    BY <1>10 DEF Connect, Main, Met, Work, engine, terminal, session, EngineShape, Promised, Shape, Custody, ShutdownCounts, Record, Modes, Untouched, Early, Running, Late, Commands
  <2>4. Record' /\ Modes'
    BY <1>10 DEF Connect, Main, Met, Work, engine, terminal, session, EngineShape, Promised, Shape, Custody, ShutdownCounts, Record, Modes, Untouched, Early, Running, Late, Commands
  <2>5. Written' /\ Ended'
    BY <1>10 DEF Connect, Main, Met, Work, engine, terminal, session, EngineShape, Promised, Shape, Custody, ShutdownCounts, Record, Modes, Written, Ended, TerminalRestored, Early, Running, Late, Commands
  <2> QED BY <2>1, <2>2, <2>3, <2>4, <2>5
<1>11. CASE Close
  <2>1. EngineShape' /\ Promised'
    BY <1>11 DEF Close, Main, EngineShape, Promised, Clean, engine
  <2>2. Shape'
    BY <1>11 DEF Close, Main, Met, Work, engine, terminal, session, Shape, Failures, Early, Running, Late, Commands
  <2>3. Custody' /\ ShutdownCounts'
    BY <1>11 DEF Close, Main, Met, Work, engine, terminal, session, EngineShape, Promised, Shape, Custody, ShutdownCounts, Record, Modes, Untouched, Early, Running, Late, Commands
  <2>4. Record' /\ Modes'
    BY <1>11 DEF Close, Main, Met, Work, engine, terminal, session, EngineShape, Promised, Shape, Custody, ShutdownCounts, Record, Modes, Untouched, Early, Running, Late, Commands
  <2>5. Written' /\ Ended'
    BY <1>11 DEF Close, Main, Met, Work, engine, terminal, session, EngineShape, Promised, Shape, Custody, ShutdownCounts, Record, Modes, Written, Ended, TerminalRestored, Early, Running, Late, Commands
  <2> QED BY <2>1, <2>2, <2>3, <2>4, <2>5
<1>12. CASE AwaitShutdown
  <2>1. EngineShape' /\ Promised'
    BY <1>12 DEF AwaitShutdown, Main, EngineShape, Promised, Clean, engine
  <2>2. Shape'
    BY <1>12 DEF AwaitShutdown, Main, Work, engine, terminal, session, Shape, Failures, Early, Running, Late, Commands
  <2>3. Custody' /\ ShutdownCounts'
    BY <1>12 DEF AwaitShutdown, Main, Work, engine, terminal, session, EngineShape, Promised, Shape, Custody, ShutdownCounts, Record, Modes, Untouched, Early, Running, Late, Commands
  <2>4. Record' /\ Modes'
    BY <1>12 DEF AwaitShutdown, Main, Work, engine, terminal, session, EngineShape, Promised, Shape, Custody, ShutdownCounts, Record, Modes, Untouched, Early, Running, Late, Commands
  <2>5. Written' /\ Ended'
    BY <1>12 DEF AwaitShutdown, Main, Work, engine, terminal, session, EngineShape, Promised, Shape, Custody, ShutdownCounts, Record, Modes, Written, Ended, TerminalRestored, Early, Running, Late, Commands
  <2> QED BY <2>1, <2>2, <2>3, <2>4, <2>5
<1>13. CASE Decide
  <2>1. EngineShape' /\ Promised'
    BY <1>13 DEF Decide, Main, EngineShape, Promised, Clean, engine
  <2>2. Shape'
    BY <1>13 DEF Decide, Main, finish_with_cleanup, engine, terminal, session, Shape, Failures, Early, Running, Late, Commands
  <2>3. Custody' /\ ShutdownCounts'
    BY <1>13 DEF Decide, Main, finish_with_cleanup, engine, terminal, session, EngineShape, Promised, Shape, Custody, ShutdownCounts, Record, Modes, Untouched, Early, Running, Late, Commands
  <2>4. Record' /\ Modes'
    BY <1>13 DEF Decide, Main, finish_with_cleanup, engine, terminal, session, EngineShape, Promised, Shape, Custody, ShutdownCounts, Record, Modes, Untouched, Early, Running, Late, Commands
  <2>5. Written' /\ Ended'
    BY <1>13 DEF Decide, Main, finish_with_cleanup, engine, terminal, session, EngineShape, Promised, Shape, Custody, ShutdownCounts, Record, Modes, Written, Ended, TerminalRestored, Early, Running, Late, Commands
  <2> QED BY <2>1, <2>2, <2>3, <2>4, <2>5
<1>14. CASE LeaveTerminal
  <2>1. EngineShape' /\ Promised'
    BY <1>14 DEF LeaveTerminal, Main, EngineShape, Promised, Clean, engine
  <2>2. Shape'
    BY <1>14 DEF LeaveTerminal, Main, Restore, engine, terminal, session, Shape, Failures, Early, Running, Late, Commands
  <2>3. Custody' /\ ShutdownCounts'
    BY <1>14 DEF LeaveTerminal, Main, Restore, engine, terminal, session, EngineShape, Promised, Shape, Custody, ShutdownCounts, Record, Modes, Untouched, Early, Running, Late, Commands
  <2>4. Record' /\ Modes'
    BY <1>14 DEF LeaveTerminal, Main, Restore, engine, terminal, session, EngineShape, Promised, Shape, Custody, ShutdownCounts, Record, Modes, Untouched, Early, Running, Late, Commands
  <2>5. Written' /\ Ended'
    BY <1>14 DEF LeaveTerminal, Main, Restore, engine, terminal, session, EngineShape, Promised, Shape, Custody, ShutdownCounts, Record, Modes, Written, Ended, TerminalRestored, Early, Running, Late, Commands
  <2> QED BY <2>1, <2>2, <2>3, <2>4, <2>5
<1>15. CASE WriteStdout
  <2>1. EngineShape' /\ Promised'
    BY <1>15 DEF WriteStdout, Main, EngineShape, Promised, Clean, engine
  <2>2. Shape'
    BY <1>15 DEF WriteStdout, Main, Met, engine, terminal, session, Shape, Failures, Early, Running, Late, Commands
  <2>3. Custody' /\ ShutdownCounts'
    BY <1>15 DEF WriteStdout, Main, Met, engine, terminal, session, EngineShape, Promised, Shape, Custody, ShutdownCounts, Record, Modes, Untouched, Early, Running, Late, Commands
  <2>4. Record' /\ Modes'
    BY <1>15 DEF WriteStdout, Main, Met, engine, terminal, session, EngineShape, Promised, Shape, Custody, ShutdownCounts, Record, Modes, Untouched, Early, Running, Late, Commands
  <2>5. Written' /\ Ended'
    BY <1>15 DEF WriteStdout, Main, Met, engine, terminal, session, EngineShape, Promised, Shape, Custody, ShutdownCounts, Record, Modes, Written, Ended, TerminalRestored, Early, Running, Late, Commands
  <2> QED BY <2>1, <2>2, <2>3, <2>4, <2>5
<1>16. CASE WriteTemporary
  <2>1. EngineShape' /\ Promised'
    BY <1>16 DEF WriteTemporary, Main, EngineShape, Promised, Clean, engine
  <2>2. Shape'
    BY <1>16 DEF WriteTemporary, Main, Met, engine, terminal, session, Shape, Failures, Early, Running, Late, Commands
  <2>3. Custody' /\ ShutdownCounts'
    BY <1>16 DEF WriteTemporary, Main, Met, engine, terminal, session, EngineShape, Promised, Shape, Custody, ShutdownCounts, Record, Modes, Untouched, Early, Running, Late, Commands
  <2>4. Record' /\ Modes'
    BY <1>16 DEF WriteTemporary, Main, Met, engine, terminal, session, EngineShape, Promised, Shape, Custody, ShutdownCounts, Record, Modes, Untouched, Early, Running, Late, Commands
  <2>5. Written' /\ Ended'
    BY <1>16 DEF WriteTemporary, Main, Met, engine, terminal, session, EngineShape, Promised, Shape, Custody, ShutdownCounts, Record, Modes, Written, Ended, TerminalRestored, Early, Running, Late, Commands
  <2> QED BY <2>1, <2>2, <2>3, <2>4, <2>5
<1>17. CASE Rename
  <2>1. EngineShape' /\ Promised'
    BY <1>17 DEF Rename, Main, EngineShape, Promised, Clean, engine
  <2>2. Shape'
    BY <1>17 DEF Rename, Main, Met, engine, terminal, session, Shape, Failures, Early, Running, Late, Commands
  <2>3. Custody' /\ ShutdownCounts'
    BY <1>17 DEF Rename, Main, Met, engine, terminal, session, EngineShape, Promised, Shape, Custody, ShutdownCounts, Record, Modes, Untouched, Early, Running, Late, Commands
  <2>4. Record' /\ Modes'
    BY <1>17 DEF Rename, Main, Met, engine, terminal, session, EngineShape, Promised, Shape, Custody, ShutdownCounts, Record, Modes, Untouched, Early, Running, Late, Commands
  <2>5. Written' /\ Ended'
    BY <1>17 DEF Rename, Main, Met, engine, terminal, session, EngineShape, Promised, Shape, Custody, ShutdownCounts, Record, Modes, Written, Ended, TerminalRestored, Early, Running, Late, Commands
  <2> QED BY <2>1, <2>2, <2>3, <2>4, <2>5
<1>18. CASE Exit
  <2>1. EngineShape' /\ Promised'
    BY <1>18 DEF Exit, Main, EngineShape, Promised, Clean, engine
  <2>2. Shape'
    BY <1>18 DEF Exit, Main, engine, terminal, session, Shape, Failures, Early, Running, Late, Commands
  <2>3. Custody' /\ ShutdownCounts'
    BY <1>18 DEF Exit, Main, engine, terminal, session, EngineShape, Promised, Shape, Custody, ShutdownCounts, Record, Modes, Untouched, Early, Running, Late, Commands
  <2>4. Record' /\ Modes'
    BY <1>18 DEF Exit, Main, engine, terminal, session, EngineShape, Promised, Shape, Custody, ShutdownCounts, Record, Modes, Untouched, Early, Running, Late, Commands
  <2>5. Written' /\ Ended'
    BY <1>18 DEF Exit, Main, engine, terminal, session, EngineShape, Promised, Shape, Custody, ShutdownCounts, Record, Modes, Written, Ended, TerminalRestored, Early, Running, Late, Commands
  <2> QED BY <2>1, <2>2, <2>3, <2>4, <2>5
<1>19. CASE Operate
  <2>1. EngineShape' /\ Promised'
    BY <1>19 DEF Operate, Main, EngineShape, Promised, Clean, engine
  <2>2. Shape'
    BY <1>19 DEF Operate, Main, Met, engine, terminal, session, Shape, Failures, Early, Running, Late, Commands
  <2>3. Custody' /\ ShutdownCounts'
    BY <1>19 DEF Operate, Main, Met, engine, terminal, session, EngineShape, Promised, Shape, Custody, ShutdownCounts, Record, Modes, Untouched, Early, Running, Late, Commands
  <2>4. Record' /\ Modes'
    BY <1>19 DEF Operate, Main, Met, engine, terminal, session, EngineShape, Promised, Shape, Custody, ShutdownCounts, Record, Modes, Untouched, Early, Running, Late, Commands
  <2>5. Written' /\ Ended'
    BY <1>19 DEF Operate, Main, Met, engine, terminal, session, EngineShape, Promised, Shape, Custody, ShutdownCounts, Record, Modes, Written, Ended, TerminalRestored, Early, Running, Late, Commands
  <2> QED BY <2>1, <2>2, <2>3, <2>4, <2>5
<1>20. CASE Launch
  <2>1. EngineShape' /\ Promised'
    BY <1>20, EngineKeepsPromise DEF Launch, EngineNext
  <2>2. Shape'
    BY <1>20 DEF Launch, EnginePrepares, EngineReaps, EngineReady, LaunchFails, EngineEnds, terminal, session, Shape, Failures, Early, Running, Late, Commands
  <2>3. Custody' /\ ShutdownCounts'
    BY <1>20 DEF Launch, EnginePrepares, EngineReaps, EngineReady, LaunchFails, EngineEnds, terminal, session, EngineShape, Promised, Shape, Custody, ShutdownCounts, Record, Modes, Untouched, Early, Running, Late, Commands
  <2>4. Record' /\ Modes'
    BY <1>20 DEF Launch, EnginePrepares, EngineReaps, EngineReady, LaunchFails, EngineEnds, terminal, session, EngineShape, Promised, Shape, Custody, ShutdownCounts, Record, Modes, Untouched, Early, Running, Late, Commands
  <2>5. Written' /\ Ended'
    BY <1>20 DEF Launch, EnginePrepares, EngineReaps, EngineReady, LaunchFails, EngineEnds, terminal, session, EngineShape, Promised, Shape, Custody, ShutdownCounts, Record, Modes, Written, Ended, TerminalRestored, Early, Running, Late, Commands
  <2> QED BY <2>1, <2>2, <2>3, <2>4, <2>5
<1>21. CASE Shutdown
  <2>1. EngineShape' /\ Promised'
    BY <1>21, EngineKeepsPromise DEF Shutdown, EngineNext
  <2>2. Shape'
    <3>1. failures' \in {failures, failures \cup {"shutdown"}} /\ worker' \in {worker, "drop"}
      BY <1>21 DEF Shutdown, Work
    <3>2. UNCHANGED <<command, pc, terminal, signals, cancelled, cdp, reported, output, ended>>
      BY <1>21 DEF Shutdown
    <3>3. failures' \subseteq Failures
      BY <3>1 DEF Shape, Failures
    <3> QED BY <3>1, <3>2, <3>3 DEF Shape, terminal
  <2>3. Custody' /\ ShutdownCounts'
    BY <1>21 DEF Shutdown, Work, GuardCalled, EngineReaps, GuardAnswers, EngineEnds, terminal, session, EngineShape, Promised, Shape, Custody, ShutdownCounts, Record, Modes, Untouched, Early, Running, Late, Commands
  <2>4. Record' /\ Modes'
    BY <1>21 DEF Shutdown, Work, GuardCalled, EngineReaps, GuardAnswers, EngineEnds, terminal, session, EngineShape, Promised, Shape, Custody, ShutdownCounts, Record, Modes, Untouched, Early, Running, Late, Commands
  <2>5. Written' /\ Ended'
    BY <1>21 DEF Shutdown, Work, GuardCalled, EngineReaps, GuardAnswers, EngineEnds, terminal, session, EngineShape, Promised, Shape, Custody, ShutdownCounts, Record, Modes, Written, Ended, TerminalRestored, Early, Running, Late, Commands
  <2> QED BY <2>1, <2>2, <2>3, <2>4, <2>5
<1>22. CASE Drop
  <2>1. EngineShape' /\ Promised'
    BY <1>22, EngineKeepsPromise DEF Drop, EngineNext
  <2>2. Shape'
    BY <1>22 DEF Drop, GuardDropped, EngineReaps, DropDone, EngineEnds, terminal, session, Shape, Failures, Early, Running, Late, Commands
  <2>3. Custody' /\ ShutdownCounts'
    BY <1>22 DEF Drop, GuardDropped, EngineReaps, DropDone, EngineEnds, terminal, session, EngineShape, Promised, Shape, Custody, ShutdownCounts, Record, Modes, Untouched, Early, Running, Late, Commands
  <2>4. Record' /\ Modes'
    BY <1>22 DEF Drop, GuardDropped, EngineReaps, DropDone, EngineEnds, terminal, session, EngineShape, Promised, Shape, Custody, ShutdownCounts, Record, Modes, Untouched, Early, Running, Late, Commands
  <2>5. Written' /\ Ended'
    BY <1>22 DEF Drop, GuardDropped, EngineReaps, DropDone, EngineEnds, terminal, session, EngineShape, Promised, Shape, Custody, ShutdownCounts, Record, Modes, Written, Ended, TerminalRestored, Early, Running, Late, Commands
  <2> QED BY <2>1, <2>2, <2>3, <2>4, <2>5
<1>23. CASE WatchSignals
  <2>1. EngineShape' /\ Promised'
    BY <1>23 DEF WatchSignals, EngineShape, Promised, Clean, engine
  <2>2. Shape'
    BY <1>23 DEF WatchSignals, engine, terminal, session, Shape, Failures, Early, Running, Late, Commands
  <2>3. Custody' /\ ShutdownCounts'
    BY <1>23 DEF WatchSignals, engine, terminal, session, EngineShape, Promised, Shape, Custody, ShutdownCounts, Record, Modes, Untouched, Early, Running, Late, Commands
  <2>4. Record' /\ Modes'
    BY <1>23 DEF WatchSignals, engine, terminal, session, EngineShape, Promised, Shape, Custody, ShutdownCounts, Record, Modes, Untouched, Early, Running, Late, Commands
  <2>5. Written' /\ Ended'
    BY <1>23 DEF WatchSignals, engine, terminal, session, EngineShape, Promised, Shape, Custody, ShutdownCounts, Record, Modes, Written, Ended, TerminalRestored, Early, Running, Late, Commands
  <2> QED BY <2>1, <2>2, <2>3, <2>4, <2>5
<1>24. CASE Signal
  <2>1. EngineShape' /\ Promised'
    BY <1>24 DEF Signal, EngineShape, Promised, Clean, engine
  <2>2. Shape'
    BY <1>24 DEF Signal, engine, terminal, session, Shape, Failures, Early, Running, Late, Commands
  <2>3. Custody' /\ ShutdownCounts'
    BY <1>24 DEF Signal, engine, terminal, session, EngineShape, Promised, Shape, Custody, ShutdownCounts, Record, Modes, Untouched, Early, Running, Late, Commands
  <2>4. Record' /\ Modes'
    BY <1>24 DEF Signal, engine, terminal, session, EngineShape, Promised, Shape, Custody, ShutdownCounts, Record, Modes, Untouched, Early, Running, Late, Commands
  <2>5. Written' /\ Ended'
    BY <1>24 DEF Signal, engine, terminal, session, EngineShape, Promised, Shape, Custody, ShutdownCounts, Record, Modes, Written, Ended, TerminalRestored, Early, Running, Late, Commands
  <2> QED BY <2>1, <2>2, <2>3, <2>4, <2>5
<1>25. CASE MainPanics
  <2>1. EngineShape' /\ Promised'
    BY <1>25 DEF MainPanics, EngineShape, Promised, Clean, engine
  <2>2. Shape'
    <3>1. modes' \subseteq modes
      BY <1>25 DEF MainPanics, Restore
    <3> QED BY <1>25, <3>1 DEF MainPanics, session, Shape
  <2>3. Custody' /\ ShutdownCounts'
    BY <1>25 DEF MainPanics, Restore, engine, terminal, session, EngineShape, Promised, Shape, Custody, ShutdownCounts, Record, Modes, Untouched, Early, Running, Late, Commands
  <2>4. Record' /\ Modes'
    BY <1>25 DEF MainPanics, Restore, engine, terminal, session, EngineShape, Promised, Shape, Custody, ShutdownCounts, Record, Modes, Untouched, Early, Running, Late, Commands
  <2>5. Written' /\ Ended'
    BY <1>25 DEF MainPanics, Restore, engine, terminal, session, EngineShape, Promised, Shape, Custody, ShutdownCounts, Record, Modes, Written, Ended, TerminalRestored, Early, Running, Late, Commands
  <2> QED BY <2>1, <2>2, <2>3, <2>4, <2>5
<1>26. CASE WorkerPanics
  <2>1. EngineShape' /\ Promised'
    BY <1>26 DEF WorkerPanics, EngineShape, Promised, Clean, engine
  <2>2. Shape'
    BY ZenonT(40), <1>26 DEF WorkerPanics, Restore, Work, engine, terminal, session, Shape, Failures, Early, Running, Late, Commands
  <2>3. Custody' /\ ShutdownCounts'
    BY <1>26 DEF WorkerPanics, Restore, Work, engine, terminal, session, EngineShape, Promised, Shape, Custody, ShutdownCounts, Record, Modes, Untouched, Early, Running, Late, Commands
  <2>4. Record' /\ Modes'
    BY <1>26 DEF WorkerPanics, Restore, Work, engine, terminal, session, EngineShape, Promised, Shape, Custody, ShutdownCounts, Record, Modes, Untouched, Early, Running, Late, Commands
  <2>5. Written' /\ Ended'
    BY <1>26 DEF WorkerPanics, Restore, Work, engine, terminal, session, EngineShape, Promised, Shape, Custody, ShutdownCounts, Record, Modes, Written, Ended, TerminalRestored, Early, Running, Late, Commands
  <2> QED BY <2>1, <2>2, <2>3, <2>4, <2>5
<1>27. CASE UNCHANGED program
  BY <1>27 DEF program, terminal, session, engine, EngineShape, Promised, Untouched, Shape, Custody,
     ShutdownCounts, Record, Modes, Written, Ended, TerminalRestored, Clean
<1> QED
  BY <1>1, <1>2, <1>3, <1>4, <1>5, <1>6, <1>7, <1>8, <1>9, <1>10, <1>11, <1>12, <1>13, <1>14, <1>15, <1>16, <1>17, <1>18, <1>19, <1>20, <1>21, <1>22, <1>23, <1>24, <1>25, <1>26, <1>27
  DEF Next, Run, EnterTerminal, Cleanup, Publish

LEMMA Inductive == Spec => []IInv
BY InitIInv, NextIInv, PTL DEF Spec

-----------------------------------------------------------------------------

\* A page, a snapshot or a report is only written once the connection is closed
\* and the browser's cleanup is over, and a page or snapshot only if every part of
\* it succeeded (render_for_output, diagnose, write_atomic).
THEOREM OutputFollowsCleanup == Spec => []PublishedAfterCleanup
<1>1. IInv => PublishedAfterCleanup
  <2> SUFFICES ASSUME IInv, output # {} PROVE PublishedAfterCleanup
    BY DEF PublishedAfterCleanup
  <2>1. pc \in {"rename", "exit", "done"} /\ guard \in {"failed", "gone"}
    BY DEF IInv, Written
  <2>2. cdp # "open" /\ worker = "none"
    BY <2>1 DEF IInv, Custody, Shape
  <2>3. command # "doctor" => Clean /\ failures \subseteq {"output"}
    BY DEF IInv, Written, Promised
  <2> QED BY <2>1, <2>2, <2>3 DEF PublishedAfterCleanup
<1> QED BY <1>1, Inductive, PTL

\* However the program ends by itself, and however far it got into the terminal's
\* modes, the terminal is restored, unless it refused the restoring writes
\* (enter_terminal, restore_terminal_best_effort, the panic hook).
THEOREM TerminalLeftAsFound == Spec => []TerminalRestored
BY Inductive, PTL DEF IInv, Ended

\* The error the program ends with names every failure met on the way, and no way
\* out leaves a browser or a directory without an error of their own cleanup
\* (finish_with_cleanup, preserve_operation_cleanup, finish_startup_failure).
THEOREM EveryFailureReported == Spec => []ExitAccountsForAll
<1>1. IInv => ExitAccountsForAll
  <2> SUFFICES ASSUME IInv, ended \in {"success", "failure"} PROVE ExitAccountsForAll
    BY DEF ExitAccountsForAll
  <2>1. pc = "done"
    BY DEF IInv, Ended
  <2>2. guard \in {"failed", "gone"} \/ Untouched
    BY <2>1 DEF IInv, Custody, Late
  <2>3. Clean \/ excused
    BY <2>2 DEF IInv, Promised, Untouched, Clean
  <2>4. command # "doctor" => reported = failures
    BY <2>1 DEF IInv, Record
  <2> QED BY <2>2, <2>3, <2>4 DEF ExitAccountsForAll, Untouched
<1> QED BY <1>1, Inductive, PTL
=============================================================================
