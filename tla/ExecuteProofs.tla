---------------------------- MODULE ExecuteProofs ----------------------------
(***************************************************************************)
(* Proofs about Execute for every set of exit codes and signals.           *)
(***************************************************************************)
EXTENDS Execute, TLAPS

USE ExecuteAssumption

(***************************************************************************)
(* The inductive invariant holds before the first call of execute.         *)
(***************************************************************************)
LEMMA IInvInit == Init => IInv
<1> SUFFICES ASSUME Init PROVE IInv
  OBVIOUS
<1> USE DEF Init, NoResult, Alive
<1>1. TypeOK
  BY DEF TypeOK, Both
<1>2. ~NoChildYet /\ ~PastFork /\ ~Dead
  BY DEF NoChildYet, PastFork, Dead
<1>3. ParentEnds /\ ChildEnds
  BY DEF ParentEnds, ChildEnds
<1>4. Together /\ History /\ Reported
  BY <1>2 DEF Together, History, Reported
<1>5. Delivered /\ Returned
  BY <1>2 DEF Delivered, Returned
<1> QED
  BY <1>1, <1>3, <1>4, <1>5 DEF IInv

(***************************************************************************)
(* Every step of the shell, of its child and of the program preserves the  *)
(* inductive invariant.                                                    *)
(***************************************************************************)
LEMMA IInvNext == IInv /\ [Next]_vars => IInv'
<1> SUFFICES ASSUME IInv, [Next]_vars PROVE IInv'
  OBVIOUS
<1> USE DEF IInv, TypeOK, ParentEnds, ChildEnds, Together, History, Reported,
            Delivered, Returned, NoChildYet, PastFork, Dead, Both, Fail, Status,
            NoResult, Exited, Killed, Alive, NotFound, Deaths, parent, kid, vars
<1>1. CASE CallEmpty
  <2>1. TypeOK'
    BY <1>1, ZenonT(30) DEF CallEmpty, FreshCall
  <2>2. ParentEnds' /\ ChildEnds'
    BY <1>1 DEF CallEmpty, FreshCall
  <2>3. Together' /\ History'
    BY <1>1 DEF CallEmpty, FreshCall
  <2>4. Reported' /\ Delivered'
    BY <1>1 DEF CallEmpty, FreshCall
  <2>5. Returned'
    BY <1>1 DEF CallEmpty, FreshCall
  <2> QED
    BY <2>1, <2>2, <2>3, <2>4, <2>5
<1>2. CASE Call
  BY <1>2 DEF Call, FreshCall
<1>3. CASE OpenPipe
  BY <1>3 DEF OpenPipe
<1>4. CASE PipeFails
  BY <1>4 DEF PipeFails, GiveUp
<1>5. CASE SetCloseOnExec
  BY <1>5 DEF SetCloseOnExec
<1>6. CASE FcntlFails
  BY <1>6 DEF FcntlFails, GiveUp
<1>7. CASE Fork
  BY <1>7 DEF Fork
<1>8. CASE ForkFails
  BY <1>8 DEF ForkFails, GiveUp
<1>9. CASE CloseWriteEnd
  BY <1>9 DEF CloseWriteEnd
<1>10. CASE ReadReport
  <2>1. TypeOK'
    BY <1>10 DEF ReadReport
  <2>2. ParentEnds' /\ ChildEnds'
    BY <1>10 DEF ReadReport
  <2>3. Together' /\ History'
    BY <1>10 DEF ReadReport
  <2>4. Reported' /\ Delivered'
    BY <1>10 DEF ReadReport
  <2>5. Returned'
    BY <1>10 DEF ReadReport
  <2> QED
    BY <2>1, <2>2, <2>3, <2>4, <2>5
<1>11. CASE ReadInterrupted
  BY <1>11 DEF ReadInterrupted
<1>12. CASE CloseReadEnd
  <2>1. TypeOK'
    BY <1>12 DEF CloseReadEnd
  <2>2. ParentEnds' /\ ChildEnds'
    BY <1>12 DEF CloseReadEnd
  <2>3. Together' /\ History'
    BY <1>12 DEF CloseReadEnd
  <2>4. Reported' /\ Delivered'
    BY <1>12 DEF CloseReadEnd
  <2>5. Returned'
    BY <1>12 DEF CloseReadEnd
  <2> QED
    BY <2>1, <2>2, <2>3, <2>4, <2>5
<1>13. CASE WaitChild
  BY <1>13 DEF WaitChild, Outcome, ExitStatus
<1>14. CASE WaitInterrupted
  BY <1>14 DEF WaitInterrupted
<1>15. CASE WaitFails
  BY <1>15 DEF WaitFails, GiveUp
<1>16. CASE ChildClosesRead
  BY <1>16 DEF ChildClosesRead
<1>17. CASE ExecSucceeds
  BY <1>17 DEF ExecSucceeds
<1>18. CASE ExecFails
  BY <1>18 DEF ExecFails
<1>19. CASE WriteReport
  BY <1>19 DEF WriteReport
<1>20. CASE WriteBroken
  BY <1>20 DEF WriteBroken, Dies
<1>21. CASE ChildExits
  <2>1. TypeOK'
    BY <1>21, ZenonT(30) DEF ChildExits, Dies
  <2>2. ParentEnds' /\ ChildEnds'
    BY <1>21 DEF ChildExits, Dies
  <2>3. Together' /\ History'
    BY <1>21 DEF ChildExits, Dies
  <2>4. Reported' /\ Delivered'
    BY <1>21 DEF ChildExits, Dies
  <2>5. Returned'
    BY <1>21 DEF ChildExits, Dies
  <2> QED
    BY <2>1, <2>2, <2>3, <2>4, <2>5
<1>22. CASE ChildKilled
  BY <1>22 DEF ChildKilled, Dies
<1>23. CASE ProgramEnds
  BY <1>23 DEF ProgramEnds, Dies
<1>24. CASE UNCHANGED vars
  BY <1>24 DEF Outcome
<1> QED
  BY <1>1, <1>2, <1>3, <1>4, <1>5, <1>6, <1>7, <1>8, <1>9, <1>10, <1>11, <1>12,
     <1>13, <1>14, <1>15, <1>16, <1>17, <1>18, <1>19, <1>20, <1>21, <1>22, <1>23, <1>24
     DEF Next, ParentStep, Interrupted, ChildStep

(***************************************************************************)
(* The invariant holds in every state of every execution of execute().     *)
(***************************************************************************)
THEOREM Invariance == Safety => []IInv
<1>1. Init => IInv
  BY IInvInit
<1>2. IInv /\ [Next]_vars => IInv'
  BY IInvNext
<1> QED
  BY <1>1, <1>2, PTL DEF Safety

(***************************************************************************)
(* Every variable of execute() keeps to its type.                          *)
(***************************************************************************)
THEOREM TypeCorrect == Safety => []TypeOK
<1>1. IInv => TypeOK
  BY DEF IInv
<1> QED
  BY <1>1, Invariance, PTL

(***************************************************************************)
(* A call that has returned leaves no descriptor open and no child behind, *)
(* interrupted or not, with SIGCHLD ignored or not.                        *)
(***************************************************************************)
THEOREM ReturnsCleanAlways == Safety => []ReturnsClean
<1>1. IInv => ReturnsClean
  BY DEF IInv, ReturnsClean, ParentEnds, ChildEnds, Together
<1> QED
  BY <1>1, Invariance, PTL

(***************************************************************************)
(* The program never inherits an end of the pipe.                          *)
(***************************************************************************)
THEOREM ProgramNeverHoldsPipe == Safety => []ProgramHoldsNoPipe
<1>1. IInv => ProgramHoldsNoPipe
  BY DEF IInv, ProgramHoldsNoPipe, ChildEnds
<1> QED
  BY <1>1, Invariance, PTL

(***************************************************************************)
(* Status 0 comes only from a program that ran and exited 0.               *)
(***************************************************************************)
THEOREM ZeroOnlyOnSuccess == Safety => []ZeroMeansSuccess
<1>1. ASSUME IInv, result = Status(0)
      PROVE  started /\ status = Exited(0)
  <2>1. pc = "idle" /\ Dead /\ ~SigchldIgnored
    BY <1>1 DEF IInv, Returned, Fail, Status, NoResult
  <2>2. received # "errno" /\ ExitStatus(status) = 0
    BY <1>1, <2>1 DEF IInv, Returned, Outcome, Fail, Status
  <2>3. status \in Deaths
    BY <1>1, <2>1 DEF IInv, TypeOK, History, Deaths
  <2>4. CASE status \in {Killed(s) : s \in Signals}
    BY <2>2, <2>4, ExecuteAssumption DEF ExitStatus, Killed
  <2>5. CASE status \in {Exited(n) : n \in ExitCodes \cup {NotFound}}
    <3>1. status = Exited(0)
      BY <2>2, <2>5 DEF ExitStatus, Exited
    <3>2. started
      BY <1>1, <3>1 DEF IInv, History, Exited, NotFound
    <3> QED
      BY <3>1, <3>2
  <2> QED
    BY <2>3, <2>4, <2>5 DEF Deaths
<1>2. IInv => ZeroMeansSuccess
  BY <1>1 DEF ZeroMeansSuccess
<1> QED
  BY <1>2, Invariance, PTL

(***************************************************************************)
(* An exec failure that the child lived to report is returned as           *)
(* StartFailed, as long as nothing interrupts read and SIGCHLD is not      *)
(* ignored.                                                                *)
(***************************************************************************)
THEOREM FailureReported ==
    ASSUME ~Interruptible, ~SigchldIgnored
    PROVE  Safety => []FailureIsReported
<1>1. IInv => FailureIsReported
  <2> SUFFICES ASSUME IInv, pc = "idle", status.how = "exited", ~started
               PROVE  result = Fail("StartFailed")
    BY DEF FailureIsReported
  <2>1. Dead
    BY DEF IInv, History, Alive
  <2>2. ~data
    BY DEF IInv, Reported
  <2>3. received = "errno"
    BY <2>2 DEF IInv, Delivered
  <2> QED
    BY <2>1, <2>3 DEF IInv, Returned, Outcome
<1> QED
  BY <1>1, Invariance, PTL

(***************************************************************************)
(* ForkFailed and StartFailed say that no program ran, unless SIGCHLD is   *)
(* ignored.                                                                *)
(***************************************************************************)
THEOREM ErrorsMeanNothingRan ==
    ASSUME ~SigchldIgnored
    PROVE  Safety => []ErrorMeansNothingRan
<1>1. IInv => ErrorMeansNothingRan
  <2> SUFFICES ASSUME IInv, result.error \in {"ForkFailed", "StartFailed"}
               PROVE  ~started
    BY DEF ErrorMeansNothingRan
  <2>1. pc = "idle"
    BY DEF IInv, Returned, NoResult
  <2>2. CASE ~Dead
    BY <2>1, <2>2 DEF IInv, Together, History, Dead
  <2>3. CASE Dead
    BY <2>1, <2>3 DEF IInv, Returned, Reported, Outcome, Status
  <2> QED
    BY <2>2, <2>3
<1> QED
  BY <1>1, Invariance, PTL

-------------------------------------------------------------------------------
(***************************************************************************)
(* The refinement: with no interrupted read and SIGCHLD not ignored, every *)
(* step of execute() is a step of ProgramRun or changes nothing there.     *)
(***************************************************************************)
LEMMA PromiseInit == Init => Promise!Init
  BY DEF Init, Promise!Init, StageOf, CodeOf, NoResult, Promise!NoResult

(***************************************************************************)
(* The steps that ProgramRun does not see.                                 *)
(***************************************************************************)
LEMMA PromiseStutter ==
    ASSUME IInv,
           pc # "idle", pc' # "idle", result' = result,
           started' = started, status' = status
    PROVE  UNCHANGED Promise!vars
  BY DEF StageOf, CodeOf, Promise!vars

(***************************************************************************)
(* The steps that it does.                                                 *)
(***************************************************************************)
LEMMA PromiseNext ==
    ASSUME ~Interruptible, ~SigchldIgnored, IInv, IInv', [Next]_vars
    PROVE  [Promise!Next]_Promise!vars
<1> USE DEF parent, kid, vars
<1>a. child \notin {"none", "reaped"} => pc # "idle"
  BY DEF IInv, Together
<1>1. CASE CallEmpty
  BY <1>1 DEF CallEmpty, FreshCall, StageOf, CodeOf, Promise!Next, Promise!Refuse,
              Fail, Promise!Fail
<1>2. CASE Call
  BY <1>2 DEF Call, FreshCall, StageOf, CodeOf, Promise!Next, Promise!Request,
              NoResult, Promise!NoResult
<1>3. CASE PipeFails \/ FcntlFails \/ ForkFails
  <2>1. ~started /\ ~started' /\ pc # "idle" /\ pc' = "idle" /\ result' = Fail("ForkFailed")
    BY <1>3 DEF PipeFails, FcntlFails, ForkFails, GiveUp, IInv, Together,
                History, NoChildYet, Dead
  <2> QED
    BY <2>1 DEF StageOf, CodeOf, Promise!Next, Promise!NotStarted, Fail, Promise!Fail
<1>4. CASE OpenPipe \/ SetCloseOnExec \/ Fork \/ CloseWriteEnd \/ ReadReport \/ CloseReadEnd
  BY <1>4, PromiseStutter DEF OpenPipe, SetCloseOnExec, Fork, CloseWriteEnd,
     ReadReport, CloseReadEnd
<1>5. CASE ReadInterrupted \/ WaitInterrupted
  BY <1>5 DEF ReadInterrupted, WaitInterrupted
<1>6. CASE WaitFails
  BY <1>6 DEF WaitFails, IInv, Together
<1>7. CASE WaitChild
  <2>1. pc = "wait" /\ pc' = "idle" /\ result' = Outcome(received, status)
        /\ status \in Deaths /\ UNCHANGED <<started, status>>
    BY <1>7 DEF WaitChild, IInv, TypeOK, History, Dead
  <2>2. CASE started
    <3>1. /\ StageOf = "ended" /\ StageOf' = "idle"
          /\ CodeOf = ExitStatus(status) /\ CodeOf' = 0
      BY <2>1, <2>2, <1>7 DEF StageOf, CodeOf, WaitChild, IInv, History, Dead
    <3>2. received # "errno"
      BY <2>2 DEF IInv, Reported
    <3>3. result' = Status(ExitStatus(status))
      BY <2>1, <3>2 DEF Outcome
    <3> QED
      BY <3>1, <3>3 DEF Promise!Next, Promise!Return, Status, Promise!Status
  <2>3. CASE ~started /\ received = "errno"
    BY <2>1, <2>3 DEF StageOf, CodeOf, Outcome, Promise!Next, Promise!NotStarted,
                      Fail, Promise!Fail
  <2>4. CASE ~started /\ received # "errno"
    <3>1. status.how # "exited"
      BY <2>4, <2>1 DEF IInv, Delivered, Reported
    <3>2. PICK s \in Signals : status = Killed(s)
      BY <3>1, <2>1 DEF Deaths, Exited
    <3>3. result' = Status(128 + s)
      BY <3>2, <2>1, <2>4 DEF Outcome, ExitStatus, Killed
    <3>4. StageOf = "called" /\ StageOf' = "idle" /\ CodeOf = 0 /\ CodeOf' = 0
      BY <2>1, <2>4 DEF StageOf, CodeOf
    <3> QED
      BY <3>3, <3>4 DEF Promise!Next, Promise!KilledEarly, Status, Promise!Status
  <2> QED
    BY <2>2, <2>3, <2>4
<1>8. CASE ChildClosesRead \/ ExecFails \/ WriteReport
  BY <1>8, <1>a, PromiseStutter DEF ChildClosesRead, ExecFails, WriteReport
<1>9. CASE ExecSucceeds
  <2>1. /\ pc # "idle" /\ ~started /\ started' /\ status = Alive
        /\ UNCHANGED <<pc, status, result>>
    BY <1>9, <1>a DEF ExecSucceeds, IInv, History, Dead
  <2> QED
    BY <2>1 DEF StageOf, CodeOf, Promise!Next, Promise!Start
<1>10. CASE WriteBroken \/ ChildExits \/ ChildKilled
  <2>1. pc # "idle" /\ ~started /\ UNCHANGED <<pc, started, result>>
    BY <1>10, <1>a DEF WriteBroken, ChildExits, ChildKilled, Dies, IInv, History, Dead
  <2> QED
    BY <2>1 DEF StageOf, CodeOf, Promise!vars
<1>11. CASE ProgramEnds
  <2>1. pc # "idle" /\ started /\ status = Alive /\ UNCHANGED <<pc, started, result>>
    BY <1>11, <1>a DEF ProgramEnds, Dies, IInv, History, Dead
  <2>2. status' # Alive /\ ExitStatus(status') \in Promise!Statuses
    BY <1>11 DEF ProgramEnds, Dies, ExitStatus, Exited, Killed, Alive, Promise!Statuses
  <2> QED
    BY <2>1, <2>2 DEF StageOf, CodeOf, Promise!Next, Promise!End
<1>12. CASE UNCHANGED vars
  BY <1>12 DEF StageOf, CodeOf, Promise!vars
<1> QED
  BY <1>1, <1>2, <1>3, <1>4, <1>5, <1>6, <1>7, <1>8, <1>9, <1>10, <1>11, <1>12
     DEF Next, ParentStep, Interrupted, ChildStep

(***************************************************************************)
(* execute() implements the safety part of ProgramRun.                     *)
(***************************************************************************)
THEOREM ImplementsPromise ==
    ASSUME ~Interruptible, ~SigchldIgnored
    PROVE  Safety => Promise!Safety
<1>1. IInv /\ IInv' /\ [Next]_vars => [Promise!Next]_Promise!vars
  BY PromiseNext
<1> QED
  BY <1>1, PromiseInit, Invariance, PTL DEF Safety, Promise!Safety
===============================================================================
