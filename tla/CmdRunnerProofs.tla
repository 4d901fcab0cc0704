-------------------------- MODULE CmdRunnerProofs --------------------------
(***************************************************************************)
(* Proofs about CmdRunner, for every pipe size and every amount of output. *)
(***************************************************************************)
EXTENDS CmdRunner, TLAPS

\* Who may be left of a child.
LEMMA MayLeaveType == \A b \in MayLeave : b \in BOOLEAN
  BY Zenon DEF MayLeave

\* Every step keeps the types.
LEMMA TypeOKStep == TypeOK /\ [Next]_vars => TypeOK'
<1> SUFFICES ASSUME TypeOK, [Next]_vars PROVE TypeOK'
  OBVIOUS
<1> USE CmdAssumption, MayLeaveType DEF Streams, Codes, callVars, runVars, childVars, TypeOK
<1>1. ASSUME NEW wait \in BOOLEAN, Run(wait) PROVE TypeOK'
  BY <1>1 DEF Run
<1>2. ASSUME Joined PROVE TypeOK'
  BY <1>2 DEF Joined
<1>3. ASSUME Terminate PROVE TypeOK'
  BY <1>3 DEF Terminate
<1>4. ASSUME Kill PROVE TypeOK'
  <2>1. heirs' \in BOOLEAN
    BY <1>4, MayLeaveType, Zenon DEF Kill, TypeOK
  <2> QED
    BY <1>4, <2>1 DEF Kill
<1>5. ASSUME Popen PROVE TypeOK'
  BY <1>5 DEF Popen
<1>6. ASSUME AssignProcess PROVE TypeOK'
  BY <1>6 DEF AssignProcess
<1>7. ASSUME LoopTest PROVE TypeOK'
  BY <1>7 DEF LoopTest
<1>8. ASSUME ReadOut PROVE TypeOK'
  BY <1>8 DEF ReadOut, ReadStream, AtEnd
<1>9. ASSUME ReadErr PROVE TypeOK'
  BY <1>9 DEF ReadErr, ReadStream, AtEnd
<1>10. ASSUME Poll PROVE TypeOK'
  BY <1>10 DEF Poll
<1>11. ASSUME SetRetcode PROVE TypeOK'
  BY <1>11 DEF SetRetcode
<1>12. ASSUME ClosePipes PROVE TypeOK'
  BY <1>12 DEF ClosePipes
<1>13. ASSUME WaitChild PROVE TypeOK'
  BY <1>13 DEF WaitChild
<1>14. ASSUME NEW s \in Streams, ChildBeginsWrite(s) PROVE TypeOK'
  BY <1>14 DEF ChildBeginsWrite
<1>15. ASSUME ChildWrites PROVE TypeOK'
  <2>1. heirs' \in BOOLEAN
    BY <1>15, MayLeaveType, Zenon DEF ChildWrites, TypeOK
  <2> QED
    BY <1>15, <2>1 DEF ChildWrites, PipesOpen
<1>16. ASSUME ChildExits PROVE TypeOK'
  <2>1. heirs' \in BOOLEAN
    BY <1>16, MayLeaveType, Zenon DEF ChildExits, TypeOK
  <2> QED
    BY <1>16, <2>1 DEF ChildExits
<1>17. ASSUME ChildDies PROVE TypeOK'
  BY <1>17 DEF ChildDies
<1>19. ASSUME PopenRaises PROVE TypeOK'
  BY <1>19 DEF PopenRaises
<1>20. ASSUME ReadRaises PROVE TypeOK'
  BY <1>20 DEF ReadRaises
<1>21. ASSUME HeirsExit PROVE TypeOK'
  <2>1. heirs' \in BOOLEAN
    BY <1>21, MayLeaveType, Zenon DEF HeirsExit, TypeOK
  <2> QED
    BY <1>21, <2>1 DEF HeirsExit
<1>18. CASE UNCHANGED vars
  BY <1>18 DEF vars
<1> HIDE DEF TypeOK
<1> QED
  BY <1>1, <1>2, <1>3, <1>4, <1>5, <1>6, <1>7, <1>8, <1>9, <1>10, <1>11,
     <1>12, <1>13, <1>14, <1>15, <1>16, <1>17, <1>18, <1>19, <1>20, <1>21
  DEF Next, Runner, Child, Callers

\* Every step keeps what is known of the child.
LEMMA ChildInvStep == TypeOK /\ ChildInv /\ [Next]_vars => ChildInv'
<1> SUFFICES ASSUME TypeOK /\ ChildInv, [Next]_vars PROVE ChildInv'
  OBVIOUS
<1> USE CmdAssumption DEF Streams, Codes, MayLeave, callVars, runVars, childVars,
      TypeOK, ChildInv
<1>1. ASSUME NEW wait \in BOOLEAN, Run(wait) PROVE ChildInv'
  BY <1>1 DEF Run
<1>2. ASSUME Joined PROVE ChildInv'
  BY <1>2 DEF Joined
<1>3. ASSUME Terminate PROVE ChildInv'
  BY <1>3 DEF Terminate
<1>4. ASSUME Kill PROVE ChildInv'
  <2>1. CASE process /\ returncode = "none" /\ child # "zombie"
    <3>1. retcode = "none" /\ child # "none"
      BY <2>1
    <3>2. CASE child = "alive"
      BY <1>4, <2>1, <3>1, <3>2 DEF Kill
    <3>3. CASE child = "closed"
      BY <1>4, <2>1, <3>1, <3>3 DEF Kill
    <3> QED
      BY <2>1, <3>1, <3>2, <3>3
  <2>2. CASE ~(process /\ returncode = "none" /\ child # "zombie")
    BY <1>4, <2>2, ZenonT(30) DEF Kill
  <2> QED
    BY <2>1, <2>2
<1>5. ASSUME Popen PROVE ChildInv'
  BY <1>5 DEF Popen
<1>6. ASSUME AssignProcess PROVE ChildInv'
  BY <1>6 DEF AssignProcess
<1>7. ASSUME LoopTest PROVE ChildInv'
  BY <1>7 DEF LoopTest
<1>8. ASSUME ReadOut PROVE ChildInv'
  BY <1>8 DEF ReadOut, ReadStream, AtEnd
<1>9. ASSUME ReadErr PROVE ChildInv'
  BY <1>9 DEF ReadErr, ReadStream, AtEnd
<1>10. ASSUME Poll PROVE ChildInv'
  BY <1>10 DEF Poll
<1>11. ASSUME SetRetcode PROVE ChildInv'
  BY <1>11 DEF SetRetcode
<1>12. ASSUME ClosePipes PROVE ChildInv'
  BY <1>12 DEF ClosePipes
<1>13. ASSUME WaitChild PROVE ChildInv'
  BY <1>13 DEF WaitChild
<1>14. ASSUME NEW s \in Streams, ChildBeginsWrite(s) PROVE ChildInv'
  BY <1>14 DEF ChildBeginsWrite
<1>15. ASSUME ChildWrites PROVE ChildInv'
  <2>1. CASE heirs
    BY <1>15, <2>1 DEF ChildWrites, PipesOpen
  <2>2. CASE ~heirs /\ child = "alive"
    <3>1. retcode = "none" /\ returncode = "none" /\ runner \notin {"new", "popen"} /\ code = "none"
      BY <2>2
    <3>2. CASE PipesOpen
      <4>1. want' = "none" /\ UNCHANGED <<callVars, runVars, child, heirs, code>>
        BY <1>15, <3>2 DEF ChildWrites
      <4> QED
        BY <4>1
    <3>3. CASE ~PipesOpen
      <4>1. child' = "closed" /\ code' = "pipe" /\ want' = "none" /\ UNCHANGED <<callVars, runVars>>
        BY <1>15, <2>2, <3>3 DEF ChildWrites
      <4> QED
        BY <2>2, <3>1, <4>1
    <3> QED
      BY <3>2, <3>3
  <2> QED
    BY <1>15, <2>1, <2>2 DEF ChildWrites
<1>16. ASSUME ChildExits PROVE ChildInv'
  BY <1>16 DEF ChildExits
<1>17. ASSUME ChildDies PROVE ChildInv'
  BY <1>17 DEF ChildDies
<1>19. ASSUME PopenRaises PROVE ChildInv'
  BY <1>19 DEF PopenRaises
<1>20. ASSUME ReadRaises PROVE ChildInv'
  BY <1>20 DEF ReadRaises
<1>21. ASSUME HeirsExit PROVE ChildInv'
  BY <1>21 DEF HeirsExit
<1>18. CASE UNCHANGED vars
  BY <1>18 DEF vars
<1> HIDE DEF ChildInv
<1> QED
  BY <1>1, <1>2, <1>3, <1>4, <1>5, <1>6, <1>7, <1>8, <1>9, <1>10, <1>11,
     <1>12, <1>13, <1>14, <1>15, <1>16, <1>17, <1>18, <1>19, <1>20, <1>21
  DEF Next, Runner, Child, Callers

\* Every step keeps what is known of a command nobody has terminated.
LEMMA UndisturbedInvStep == TypeOK /\ ChildInv /\ UndisturbedInv /\ [Next]_vars => UndisturbedInv'
<1> SUFFICES ASSUME TypeOK /\ ChildInv /\ UndisturbedInv, [Next]_vars PROVE UndisturbedInv'
  OBVIOUS
<1> USE CmdAssumption DEF Streams, Codes, MayLeave, callVars, runVars, childVars,
      TypeOK, ChildInv, UndisturbedInv
<1>1. ASSUME NEW wait \in BOOLEAN, Run(wait) PROVE UndisturbedInv'
  BY <1>1 DEF Run
<1>2. ASSUME Joined PROVE UndisturbedInv'
  BY <1>2 DEF Joined
<1>3. ASSUME Terminate PROVE UndisturbedInv'
  BY <1>3 DEF Terminate
<1>4. ASSUME Kill PROVE UndisturbedInv'
  BY <1>4 DEF Kill
<1>5. ASSUME Popen PROVE UndisturbedInv'
  BY <1>5 DEF Popen
<1>6. ASSUME AssignProcess PROVE UndisturbedInv'
  BY <1>6 DEF AssignProcess
<1>7. ASSUME LoopTest PROVE UndisturbedInv'
  BY <1>7 DEF LoopTest
<1>8. ASSUME ReadOut PROVE UndisturbedInv'
  BY <1>8 DEF ReadOut, ReadStream, AtEnd
<1>9. ASSUME ReadErr PROVE UndisturbedInv'
  BY <1>9 DEF ReadErr, ReadStream, AtEnd
<1>10. ASSUME Poll PROVE UndisturbedInv'
  BY <1>10 DEF Poll
<1>11. ASSUME SetRetcode PROVE UndisturbedInv'
  BY <1>11 DEF SetRetcode
<1>12. ASSUME ClosePipes PROVE UndisturbedInv'
  BY <1>12 DEF ClosePipes
<1>13. ASSUME WaitChild PROVE UndisturbedInv'
  BY <1>13 DEF WaitChild
<1>14. ASSUME NEW s \in Streams, ChildBeginsWrite(s) PROVE UndisturbedInv'
  BY <1>14 DEF ChildBeginsWrite
<1>15. ASSUME ChildWrites PROVE UndisturbedInv'
  BY <1>15 DEF ChildWrites, PipesOpen
<1>16. ASSUME ChildExits PROVE UndisturbedInv'
  BY <1>16 DEF ChildExits
<1>17. ASSUME ChildDies PROVE UndisturbedInv'
  BY <1>17 DEF ChildDies
<1>19. ASSUME PopenRaises PROVE UndisturbedInv'
  BY <1>19 DEF PopenRaises
<1>20. ASSUME ReadRaises PROVE UndisturbedInv'
  BY <1>20 DEF ReadRaises
<1>21. ASSUME HeirsExit PROVE UndisturbedInv'
  BY <1>21 DEF HeirsExit
<1>18. CASE UNCHANGED vars
  BY <1>18 DEF vars
<1> HIDE DEF UndisturbedInv
<1> QED
  BY <1>1, <1>2, <1>3, <1>4, <1>5, <1>6, <1>7, <1>8, <1>9, <1>10, <1>11,
     <1>12, <1>13, <1>14, <1>15, <1>16, <1>17, <1>18, <1>19, <1>20, <1>21
  DEF Next, Runner, Child, Callers

\* Every step keeps track of every line.
LEMMA OutputInvStep == TypeOK /\ ChildInv /\ UndisturbedInv /\ OutputInv /\ [Next]_vars => OutputInv'
<1> SUFFICES ASSUME TypeOK /\ ChildInv /\ UndisturbedInv /\ OutputInv, [Next]_vars PROVE OutputInv'
  OBVIOUS
<1> USE CmdAssumption DEF Streams, Codes, MayLeave, callVars, runVars, childVars,
      TypeOK, ChildInv, UndisturbedInv, OutputInv, AtEnd
<1>1. ASSUME NEW wait \in BOOLEAN, Run(wait) PROVE OutputInv'
  BY <1>1 DEF Run
<1>2. ASSUME Joined PROVE OutputInv'
  BY <1>2 DEF Joined
<1>3. ASSUME Terminate PROVE OutputInv'
  BY <1>3 DEF Terminate
<1>4. ASSUME Kill PROVE OutputInv'
  BY <1>4 DEF Kill
<1>5. ASSUME Popen PROVE OutputInv'
  BY <1>5 DEF Popen
<1>6. ASSUME AssignProcess PROVE OutputInv'
  BY <1>6 DEF AssignProcess
<1>7. ASSUME LoopTest PROVE OutputInv'
  BY <1>7 DEF LoopTest
<1>8. ASSUME ReadOut PROVE OutputInv'
  BY <1>8 DEF ReadOut, ReadStream, AtEnd
<1>9. ASSUME ReadErr PROVE OutputInv'
  <2>1. CASE pipe["err"] > 0
    <3>1. lines["err"] # wrote["err"]
      BY <1>9, <2>1 DEF ReadErr
    <3>2. isTerminate \/ returncode = "none"
      BY <1>9, <3>1 DEF ReadErr
    <3>3. /\ pipe' = [pipe EXCEPT !["err"] = @ - 1]
          /\ lines' = [lines EXCEPT !["err"] = @ + 1]
          /\ UNCHANGED <<runner, callVars, returncode, raised, child, heirs, wrote>>
      BY <1>9, <2>1 DEF ReadErr, ReadStream, AtEnd
    <3>4. \A s \in Streams : wrote'[s] = lines'[s] + pipe'[s]
      BY <1>9, <3>3 DEF ReadErr
    <3> QED
      BY <1>9, <3>2, <3>3, <3>4 DEF ReadErr
  <2>2. CASE pipe["err"] = 0
    BY <1>9, <2>2 DEF ReadErr, ReadStream, AtEnd
  <2> QED
    BY <2>1, <2>2
<1>10. ASSUME Poll PROVE OutputInv'
  <2>1. lines["out"] = wrote["out"] /\ lines["err"] = wrote["err"]
    BY <1>10 DEF Poll
  <2>2. lines = wrote
    BY <2>1
  <2> QED
    BY <1>10, <2>2 DEF Poll
<1>11. ASSUME SetRetcode PROVE OutputInv'
  BY <1>11 DEF SetRetcode
<1>12. ASSUME ClosePipes PROVE OutputInv'
  BY <1>12 DEF ClosePipes
<1>13. ASSUME WaitChild PROVE OutputInv'
  BY <1>13 DEF WaitChild
<1>14. ASSUME NEW s \in Streams, ChildBeginsWrite(s) PROVE OutputInv'
  BY <1>14 DEF ChildBeginsWrite
<1>15. ASSUME ChildWrites PROVE OutputInv'
  <2>1. /\ ~AtEnd /\ runner \notin {"readErr", "poll"} /\ (isTerminate \/ raised \/ returncode = "none")
        /\ UNCHANGED <<callVars, runVars>>
    BY <1>15 DEF ChildWrites
  <2>2. CASE PipesOpen
    <3>1. want \in Streams /\ pipe' = [pipe EXCEPT ![want] = @ + 1] /\ wrote' = [wrote EXCEPT ![want] = @ + 1]
      BY <1>15, <2>2 DEF ChildWrites
    <3>2. \A s \in Streams : wrote'[s] = lines[s] + pipe'[s]
      BY <2>2, <3>1 DEF PipesOpen
    <3> QED
      BY <2>1, <3>2
  <2>3. CASE ~PipesOpen
    BY <1>15, <2>1, <2>3 DEF ChildWrites, PipesOpen
  <2> QED
    BY <2>2, <2>3
<1>16. ASSUME ChildExits PROVE OutputInv'
  BY <1>16 DEF ChildExits
<1>17. ASSUME ChildDies PROVE OutputInv'
  BY <1>17 DEF ChildDies
<1>19. ASSUME PopenRaises PROVE OutputInv'
  BY <1>19 DEF PopenRaises
<1>20. ASSUME ReadRaises PROVE OutputInv'
  BY <1>20 DEF ReadRaises
<1>21. ASSUME HeirsExit PROVE OutputInv'
  BY <1>21 DEF HeirsExit
<1>18. CASE UNCHANGED vars
  BY <1>18 DEF vars
<1> HIDE DEF OutputInv
<1> QED
  BY <1>1, <1>2, <1>3, <1>4, <1>5, <1>6, <1>7, <1>8, <1>9, <1>10, <1>11,
     <1>12, <1>13, <1>14, <1>15, <1>16, <1>17, <1>18, <1>19, <1>20, <1>21
  DEF Next, Runner, Child, Callers

-----------------------------------------------------------------------------
\* IInv is an invariant of the runner, whatever the child writes and whenever
\* terminate() is called.
THEOREM Invariance == Spec => []IInv
<1>1. Init => IInv
  <2> SUFFICES ASSUME Init PROVE IInv
    OBVIOUS
  <2>1. TypeOK
    <3>1. /\ lines \in [Streams -> Nat] /\ wrote \in [Streams -> Nat]
          /\ pipe \in [Streams -> 0..PipeCap]
      BY CmdAssumption DEF Init
    <3> QED
      BY <3>1 DEF Init, TypeOK, Streams, Codes
  <2>2. ChildInv /\ UndisturbedInv
    BY DEF Init, ChildInv, UndisturbedInv
  <2>3. OutputInv
    BY DEF Init, OutputInv, Streams
  <2> QED
    BY <2>1, <2>2, <2>3 DEF IInv
<1>2. IInv /\ [Next]_vars => IInv'
  BY TypeOKStep, ChildInvStep, UndisturbedInvStep, OutputInvStep DEF IInv
<1> QED
  BY <1>1, <1>2, PTL DEF Spec

\* Types are kept whatever the three actors do.
THEOREM TypeCorrect == Spec => []TypeOK
<1>1. IInv => TypeOK
  BY DEF IInv
<1> QED
  BY Invariance, <1>1, PTL

\* What runwait() returns: the status of a child that has ended, or None; without
\* a terminate() None just when _execute has raised.
THEOREM RetcodeCorrect == Spec => []RetcodeIsExitStatus
<1>1. IInv => RetcodeIsExitStatus
  BY DEF IInv, ChildInv, UndisturbedInv, RetcodeIsExitStatus
<1> QED
  BY Invariance, <1>1, PTL

\* The output of a command nobody terminated is complete when the runner thread
\* ends without an exception.
THEOREM OutputIsComplete == Spec => []OutputComplete
<1>1. IInv => OutputComplete
  BY DEF IInv, ChildInv, UndisturbedInv, OutputInv, OutputComplete
<1> QED
  BY Invariance, <1>1, PTL

-----------------------------------------------------------------------------
(* How a kill takes effect: the safety half of KillEndsRunner.             *)

\* terminate() has found the process and signalled it while it was alive.
Killed == killer = "done" /\ process /\ code = "kill" /\ ~heirs

\* Steps that runner and child can still take then: the lines that are left in
\* the pipes are read, the loop is left at its next test, the child is reaped.
StepsLeft ==
  (IF child = "closed" THEN 1 ELSE 0) +
  CASE runner = "done" -> 0
    [] runner = "wait" -> 1
    [] runner = "close" -> 2
    [] runner = "retcode" -> 3
    [] runner = "loop" -> 4
    [] runner = "poll" -> 5
    [] runner = "readErr" -> 6 + pipe["err"]
    [] runner = "readOut" -> 7 + pipe["err"] + pipe["out"]

\* Once the child is killed, every step is the caller's join or brings the end of
\* the runner thread nearer: no line comes in any more, and the loop does not
\* begin another turn.
Nearer == Killed => Killed' /\ (StepsLeft' < StepsLeft \/ (Joined /\ StepsLeft' = StepsLeft))

LEMMA NearerStep == IInv /\ [Next]_vars => [Nearer]_vars
<1> SUFFICES ASSUME IInv, Next, Killed PROVE Killed' /\ (StepsLeft' < StepsLeft \/ (Joined /\ StepsLeft' = StepsLeft))
  BY DEF Nearer
<1>1. /\ child \in {"closed", "zombie"} /\ runner \notin {"new", "popen"} /\ caller # "new"
      /\ isTerminate /\ killer = "done" /\ process /\ code = "kill" /\ ~heirs /\ want = "none"
      /\ runner # "assign"
  BY DEF IInv, TypeOK, ChildInv, UndisturbedInv, Killed
<1>2. /\ pipe["err"] \in Nat /\ pipe["out"] \in Nat /\ pipe \in [Streams -> 0..PipeCap] /\ PipeCap \in Nat
  BY CmdAssumption DEF IInv, TypeOK, Streams
<1>3. CASE LoopTest \/ Poll \/ SetRetcode \/ ClosePipes \/ WaitChild
  <2>1. Killed' /\ child' = child
    <3>1. UNCHANGED <<callVars, process, child, heirs, code>>
      BY <1>3 DEF LoopTest, Poll, SetRetcode, ClosePipes, WaitChild, childVars
    <3> QED
      BY <1>1, <3>1 DEF Killed, callVars
  <2>2. <<runner, runner'>> \in {<<"poll", "loop">>, <<"loop", "retcode">>, <<"retcode", "close">>,
                                 <<"close", "wait">>, <<"wait", "done">>}
    BY <1>1, <1>3 DEF LoopTest, Poll, SetRetcode, ClosePipes, WaitChild
  <2>3. StepsLeft' < StepsLeft
    BY <2>1, <2>2 DEF StepsLeft
  <2> QED
    BY <2>1, <2>3
<1>4. CASE ReadOut
  <2>1. Killed' /\ child' = child
    BY <1>1, <1>4 DEF Killed, ReadOut, ReadStream, callVars
  <2>2. \/ pipe["out"] > 0 /\ pipe'["out"] = pipe["out"] - 1 /\ pipe'["err"] = pipe["err"] /\ runner' = "readOut"
        \/ pipe["out"] = 0 /\ pipe' = pipe /\ runner' = "readErr"
    BY <1>2, <1>4 DEF ReadOut, ReadStream, Streams
  <2>3. StepsLeft' < StepsLeft
    BY <1>2, <1>4, <2>1, <2>2 DEF ReadOut, StepsLeft
  <2> QED
    BY <2>1, <2>3
<1>5. CASE ReadErr
  <2>1. Killed' /\ child' = child
    BY <1>1, <1>5 DEF Killed, ReadErr, ReadStream, callVars
  <2>2. \/ pipe["err"] > 0 /\ pipe'["err"] = pipe["err"] - 1 /\ runner' = "readErr"
        \/ pipe["err"] = 0 /\ pipe' = pipe /\ runner' = "poll"
    BY <1>2, <1>5 DEF ReadErr, ReadStream, Streams
  <2>3. StepsLeft' < StepsLeft
    BY <1>2, <1>5, <2>1, <2>2 DEF ReadErr, StepsLeft
  <2> QED
    BY <2>1, <2>3
<1>6. CASE ChildDies
  <2>1. /\ Killed' /\ child = "closed" /\ child' = "zombie" /\ runner' = runner /\ pipe' = pipe
    BY <1>1, <1>6 DEF Killed, ChildDies, callVars, runVars
  <2>2. runner \in {"loop", "readOut", "readErr", "poll", "retcode", "close", "wait", "done"}
    BY <1>1 DEF IInv, TypeOK
  <2>3. StepsLeft' < StepsLeft
    BY <1>2, <2>1, <2>2 DEF StepsLeft
  <2> QED
    BY <2>1, <2>3
<1>7. CASE Joined
  <2>1. Killed' /\ child' = child /\ runner' = runner /\ pipe' = pipe
    BY <1>1, <1>7 DEF Killed, Joined, runVars, childVars
  <2>2. StepsLeft' = StepsLeft
    BY <2>1 DEF StepsLeft
  <2> QED
    BY <1>7, <2>1, <2>2
<1>10. CASE ReadRaises
  <2>1. Killed' /\ child' = child /\ pipe' = pipe /\ runner' = "close" /\ runner \in {"readOut", "readErr"}
    <3>1. UNCHANGED <<callVars, process, childVars>> /\ runner' = "close" /\ runner \in {"readOut", "readErr"}
      BY <1>10 DEF ReadRaises
    <3> QED
      BY <1>1, <3>1 DEF Killed, callVars, childVars
  <2>2. StepsLeft' < StepsLeft
    BY <1>2, <2>1 DEF StepsLeft
  <2> QED
    BY <2>1, <2>2
<1>8. ~Popen /\ ~PopenRaises /\ ~AssignProcess /\ ~ChildWrites /\ ~ChildExits /\ ~HeirsExit
      /\ ~Terminate /\ ~Kill
  BY <1>1 DEF Popen, PopenRaises, AssignProcess, ChildWrites, ChildExits, HeirsExit, Terminate, Kill
<1>9. (\A wait \in BOOLEAN : ~Run(wait)) /\ \A s \in Streams : ~ChildBeginsWrite(s)
  BY <1>1 DEF Run, ChildBeginsWrite
<1> QED
  BY <1>3, <1>4, <1>5, <1>6, <1>7, <1>8, <1>9, <1>10 DEF Next, Runner, Child, Callers

\* terminate() on a child that is alive: for any amount of output in the pipes,
\* and even if the child would never end, the runner thread has only a bounded
\* number of steps left, and none of them leads back into the loop.
THEOREM KillIsFinal == Spec => [][Nearer]_vars /\ [](Killed => StepsLeft \in Nat)
<1>1. IInv /\ [Next]_vars => [Nearer]_vars
  BY NearerStep
<1>2. IInv => (Killed => StepsLeft \in Nat)
  <2> SUFFICES ASSUME IInv, Killed PROVE StepsLeft \in Nat
    OBVIOUS
  <2>1. runner \in {"loop", "readOut", "readErr", "poll", "retcode", "close", "wait", "done"}
    BY DEF IInv, TypeOK, ChildInv, Killed
  <2>2. pipe["err"] \in Nat /\ pipe["out"] \in Nat
    BY CmdAssumption DEF IInv, TypeOK, Streams
  <2> QED
    BY <2>1, <2>2 DEF StepsLeft
<1> QED
  BY <1>1, <1>2, Invariance, PTL DEF Spec

=============================================================================
