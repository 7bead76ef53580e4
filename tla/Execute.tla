------------------------------- MODULE Execute -------------------------------
(***************************************************************************)
(* execute() of command.cpp: fork, execvp and waitpid, with a pipe on      *)
(* which the child reports why execvp failed.  The parent is the shell;    *)
(* the child runs the shell's code until execvp replaces it and the        *)
(* program's afterwards.  The two run concurrently; the kernel's part is   *)
(* the pipe (who still holds which end, and whether an errno is in it) and *)
(* the child's process table entry.                                        *)
(***************************************************************************)
EXTENDS Integers, FiniteSets

CONSTANTS ExitCodes,        \* the codes a program may exit with
          Signals,          \* the signals that may kill the child
          BrokenPipe,       \* the one among them that is SIGPIPE
          Interruptible,    \* a signal handler may interrupt read and waitpid
          SigchldIgnored    \* the shell was started with SIGCHLD ignored

ASSUME ExecuteAssumption ==
    /\ 0 \in ExitCodes
    /\ ExitCodes \subseteq 0..255
    /\ Signals \subseteq 1..64
    /\ BrokenPipe \in Signals
    /\ Interruptible \in BOOLEAN
    /\ SigchldIgnored \in BOOLEAN

VARIABLES pc,               \* the parent's next system call
          report,           \* the ends of the pipe the parent has open
          cloexec,          \* the ends marked FD_CLOEXEC
          received,         \* what the parent's read returned
          result,           \* what execute returned
          child,            \* what the child is about to do
          ends,             \* the ends of the pipe the child has open
          started,          \* execvp succeeded: the program has run
          status,           \* how the child died, as waitpid tells it
          data              \* an errno lies in the pipe

parent == <<pc, report, cloexec, received, result>>
kid    == <<child, ends, started, status>>
vars   == <<parent, kid, data>>

Both == {"read", "write"}

Fail(error) == [error |-> error, status |-> 0]
Status(n)   == [error |-> "none", status |-> n]
NoResult    == [error |-> "pending", status |-> 0]

Exited(n) == [how |-> "exited", n |-> n]
Killed(s) == [how |-> "signaled", n |-> s]
Alive     == [how |-> "alive", n |-> 0]

(***************************************************************************)
(* _exit(127) ends a child whose execvp failed.                            *)
(***************************************************************************)
NotFound == 127

Deaths == {Exited(n) : n \in ExitCodes \cup {NotFound}}
          \cup {Killed(s) : s \in Signals}

(***************************************************************************)
(* WIFSIGNALED, WTERMSIG and WEXITSTATUS of the status word.               *)
(***************************************************************************)
MutIgnoresSignals(death) == IF death.how = "signaled" THEN 0 ELSE death.n
ExitStatus(death) == IF death.how = "signaled" THEN 128 + death.n ELSE death.n

(***************************************************************************)
(* What execute returns once the child is reaped.                          *)
(***************************************************************************)
MutTrustsStatus(got, death) == Status(ExitStatus(death))
MutAnyReadFails(got, death) ==
    IF got # "none" THEN Fail("StartFailed") ELSE Status(ExitStatus(death))
Outcome(got, death) ==
    IF got = "errno" THEN Fail("StartFailed") ELSE Status(ExitStatus(death))

Init ==
    /\ pc = "idle" /\ report = {} /\ cloexec = {} /\ received = "none"
    /\ result = NoResult
    /\ child = "none" /\ ends = {} /\ started = FALSE /\ status = Alive
    /\ data = FALSE

-------------------------------------------------------------------------------
(***************************************************************************)
(* The parent.                                                             *)
(***************************************************************************)
FreshCall ==
    /\ pc = "idle"
    /\ received' = "none"
    /\ child' = "none" /\ ends' = {} /\ started' = FALSE /\ status' = Alive
    /\ UNCHANGED <<report, cloexec, data>>

CallEmpty ==
    /\ FreshCall
    /\ result' = Fail("EmptyCommand")
    /\ UNCHANGED pc

Call ==
    /\ FreshCall
    /\ pc' = "pipe"
    /\ result' = NoResult

OpenPipe ==
    /\ pc = "pipe"
    /\ pc' = "fcntl"
    /\ report' = Both
    /\ cloexec' = {}
    /\ UNCHANGED <<received, result, kid, data>>

(***************************************************************************)
(* Every failure before there is a child closes what was opened.           *)
(***************************************************************************)
GiveUp ==
    /\ pc' = "idle"
    /\ report' = {}
    /\ result' = Fail("ForkFailed")
    /\ UNCHANGED <<cloexec, received, kid, data>>

PipeFails == pc = "pipe" /\ GiveUp

MutOnlyReadEnd ==
    /\ pc = "fcntl"
    /\ pc' = "fork"
    /\ cloexec' = {"read"}
    /\ UNCHANGED <<report, received, result, kid, data>>
SetCloseOnExec ==
    /\ pc = "fcntl"
    /\ pc' = "fork"
    /\ cloexec' = Both
    /\ UNCHANGED <<report, received, result, kid, data>>

FcntlFails == pc = "fcntl" /\ GiveUp

Fork ==
    /\ pc = "fork"
    /\ pc' = "close_write"
    /\ child' = "forked"
    /\ ends' = report
    /\ UNCHANGED <<report, cloexec, received, result, started, status, data>>

ForkFails == pc = "fork" /\ GiveUp

MutKeepsWriteEnd ==
    /\ pc = "close_write"
    /\ pc' = "read"
    /\ UNCHANGED <<report, cloexec, received, result, kid, data>>
CloseWriteEnd ==
    /\ pc = "close_write"
    /\ pc' = "read"
    /\ report' = report \ {"write"}
    /\ UNCHANGED <<cloexec, received, result, kid, data>>

(***************************************************************************)
(* read blocks while the pipe is empty and somebody may still write.  It   *)
(* is not retried when a signal interrupts it.                             *)
(***************************************************************************)
ReadReport ==
    /\ pc = "read"
    /\ data \/ "write" \notin report \cup ends
    /\ pc' = "close_read"
    /\ received' = IF data THEN "errno" ELSE "eof"
    /\ data' = FALSE
    /\ UNCHANGED <<report, cloexec, result, kid>>

ReadInterrupted ==
    /\ pc = "read"
    /\ Interruptible
    /\ pc' = "close_read"
    /\ received' = "error"
    /\ UNCHANGED <<report, cloexec, result, kid, data>>

(***************************************************************************)
(* What was not read is lost with the last reader: the child never reads.  *)
(***************************************************************************)
CloseReadEnd ==
    /\ pc = "close_read"
    /\ pc' = "wait"
    /\ report' = report \ {"read"}
    /\ data' = FALSE
    /\ UNCHANGED <<cloexec, received, result, kid>>

WaitChild ==
    /\ pc = "wait"
    /\ child = "zombie"
    /\ child' = "reaped"
    /\ pc' = "idle"
    /\ result' = Outcome(received, status)
    /\ UNCHANGED <<report, cloexec, received, ends, started, status, data>>

(***************************************************************************)
(* waitpid is retried when a signal interrupts it.                         *)
(***************************************************************************)
MutInterruptGivesUp ==
    /\ pc = "wait"
    /\ Interruptible
    /\ child # "reaped"
    /\ GiveUp
WaitInterrupted ==
    /\ pc = "wait"
    /\ Interruptible
    /\ child # "reaped"
    /\ UNCHANGED vars

(***************************************************************************)
(* With SIGCHLD ignored the kernel reaps the child itself, and waitpid     *)
(* fails with ECHILD once the child is gone.                               *)
(***************************************************************************)
MutRetriesForever ==
    /\ pc = "wait"
    /\ child = "reaped"
    /\ UNCHANGED vars
WaitFails ==
    /\ pc = "wait"
    /\ child = "reaped"
    /\ GiveUp

-------------------------------------------------------------------------------
(***************************************************************************)
(* The child.                                                              *)
(***************************************************************************)
ChildClosesRead ==
    /\ child = "forked"
    /\ child' = "exec"
    /\ ends' = ends \ {"read"}
    /\ UNCHANGED <<started, status, parent, data>>

ExecSucceeds ==
    /\ child = "exec"
    /\ child' = "running"
    /\ ends' = ends \ cloexec
    /\ started' = TRUE
    /\ UNCHANGED <<status, parent, data>>

ExecFails ==
    /\ child = "exec"
    /\ child' = "write"
    /\ UNCHANGED <<ends, started, status, parent, data>>

WriteReport ==
    /\ child = "write"
    /\ "read" \in report
    /\ child' = "exit"
    /\ data' = TRUE
    /\ UNCHANGED <<ends, started, status, parent>>

(***************************************************************************)
(* The child's process entry when it dies: its descriptors are closed, and *)
(* it waits for waitpid unless SIGCHLD is ignored.                         *)
(***************************************************************************)
Dies(death) ==
    /\ child' = IF SigchldIgnored THEN "reaped" ELSE "zombie"
    /\ ends' = {}
    /\ status' = death
    /\ UNCHANGED <<started, parent, data>>

(***************************************************************************)
(* With no reader left the write raises SIGPIPE, or fails where SIGPIPE    *)
(* was inherited as ignored; its result is not looked at.                  *)
(***************************************************************************)
WriteBroken ==
    /\ child = "write"
    /\ "read" \notin report
    /\ \/ Dies(Killed(BrokenPipe))
       \/ /\ child' = "exit"
          /\ UNCHANGED <<ends, started, status, parent, data>>

ChildExits == child = "exit" /\ Dies(Exited(NotFound))

ChildKilled ==
    /\ child \in {"forked", "exec", "write", "exit"}
    /\ \E s \in Signals : Dies(Killed(s))

ProgramEnds ==
    /\ child = "running"
    /\ \E death \in {Exited(n) : n \in ExitCodes} \cup {Killed(s) : s \in Signals} :
          Dies(death)

-------------------------------------------------------------------------------
ParentStep ==
    \/ OpenPipe \/ PipeFails \/ SetCloseOnExec \/ FcntlFails
    \/ Fork \/ ForkFails \/ CloseWriteEnd
    \/ ReadReport \/ CloseReadEnd \/ WaitChild \/ WaitFails

Interrupted == ReadInterrupted \/ WaitInterrupted

ChildStep ==
    \/ ChildClosesRead \/ ExecSucceeds \/ ExecFails
    \/ WriteReport \/ WriteBroken \/ ChildExits

Next ==
    \/ CallEmpty \/ Call \/ ParentStep \/ Interrupted
    \/ ChildStep \/ ChildKilled \/ ProgramEnds

(***************************************************************************)
(* The scheduler runs the parent and the child; nothing makes a program    *)
(* end, nobody need kill or interrupt anything, and nobody need call       *)
(* execute again.                                                          *)
(***************************************************************************)
Fairness == WF_vars(ParentStep) /\ WF_vars(ChildStep)

Safety == Init /\ [][Next]_vars

Spec == Safety /\ Fairness

-------------------------------------------------------------------------------
(***************************************************************************)
(* Every variable keeps to its type.                                       *)
(***************************************************************************)
TypeOK ==
    /\ pc \in {"idle", "pipe", "fcntl", "fork", "close_write", "read",
               "close_read", "wait"}
    /\ report \in SUBSET Both
    /\ cloexec \in SUBSET Both
    /\ received \in {"none", "errno", "eof", "error"}
    /\ result \in {NoResult}
                  \cup {Fail(e) : e \in {"EmptyCommand", "ForkFailed", "StartFailed"}}
                  \cup {Status(n) : n \in ExitCodes \cup {NotFound}}
                  \cup {Status(128 + n) : n \in Signals}
    /\ child \in {"none", "forked", "exec", "running", "write", "exit",
                  "zombie", "reaped"}
    /\ ends \in SUBSET Both
    /\ started \in BOOLEAN
    /\ status \in Deaths \cup {Alive}
    /\ data \in BOOLEAN

(***************************************************************************)
(* Whatever failed on the way, a call that has returned left no open       *)
(* descriptor in the shell and no child behind, running or zombie: the     *)
(* closes on all the exits of execute() add up (command.cpp:176-210).      *)
(***************************************************************************)
ReturnsClean ==
    pc = "idle" => report = {} /\ ends = {} /\ child \in {"none", "reaped"}

(***************************************************************************)
(* The pipe is never inherited by the program (command.cpp:174-175): a     *)
(* program that held the write end would keep the parent reading.          *)
(***************************************************************************)
ProgramHoldsNoPipe == child = "running" => ends = {}

(***************************************************************************)
(* The shell goes on with the reply only on status 0, so a 0 may come only *)
(* from a program that started and exited 0: not from an exec failure, a   *)
(* killed child or a call that went wrong.                                 *)
(***************************************************************************)
ZeroMeansSuccess ==
    result = Status(0) => started /\ status = Exited(0)

(***************************************************************************)
(* A child that could not become the program and lived to exit is told     *)
(* apart from a program that exited 127: execute returns StartFailed.      *)
(***************************************************************************)
FailureIsReported ==
    (pc = "idle" /\ status.how = "exited" /\ ~started)
        => result = Fail("StartFailed")

(***************************************************************************)
(* StartFailed and ForkFailed say that no program ran ("could not create a *)
(* process", "could not start the program", command.cpp:44-48).            *)
(***************************************************************************)
ErrorMeansNothingRan ==
    result.error \in {"ForkFailed", "StartFailed"} => ~started

(***************************************************************************)
(* The parent never hangs on its own child's code: over and over it is     *)
(* back at its caller, or in waitpid while the program runs.               *)
(***************************************************************************)
CallReturns == []<>(pc = "idle" \/ (pc = "wait" /\ child = "running"))

(***************************************************************************)
(* execute() keeps the promise of command.h:43-45.  The program is         *)
(* "running" from the exec that succeeded to its death, and "called"       *)
(* covers the parent's and the child's steps before that and the whole of  *)
(* a call that starts nothing.                                             *)
(***************************************************************************)
StageOf ==
    CASE pc = "idle" -> "idle"
      [] pc # "idle" /\ ~started -> "called"
      [] pc # "idle" /\ started /\ status = Alive -> "running"
      [] OTHER -> "ended"

CodeOf == IF StageOf = "ended" THEN ExitStatus(status) ELSE 0

Promise == INSTANCE ProgramRun WITH stage <- StageOf, code <- CodeOf

ImplementsProgramRun == Promise!Spec

-------------------------------------------------------------------------------
(***************************************************************************)
(* The invariant the proofs use: where the two processes are fixes which   *)
(* ends of the pipe each holds and what each can know of the other.        *)
(***************************************************************************)
NoChildYet == pc \in {"pipe", "fcntl", "fork"}
PastFork   == pc \in {"close_write", "read", "close_read", "wait"}
Dead       == child \in {"zombie", "reaped"}

ParentEnds ==
    report = CASE pc \in {"fcntl", "fork", "close_write"} -> Both
               [] pc \in {"read", "close_read"} -> {"read"}
               [] OTHER -> {}

ChildEnds ==
    ends = CASE child = "forked" -> Both
             [] child \in {"exec", "write", "exit"} -> {"write"}
             [] OTHER -> {}

Together ==
    /\ NoChildYet => child = "none"
    /\ PastFork => child # "none"
    /\ pc = "idle" => child \in {"none", "reaped"}
    /\ (child = "reaped" /\ ~SigchldIgnored) => pc = "idle"
    /\ child = "zombie" => ~SigchldIgnored
    /\ (PastFork \/ pc = "fork") => cloexec = Both

History ==
    /\ status = Alive <=> ~Dead
    /\ started => child = "running" \/ Dead
    /\ child = "running" => started
    /\ (status.how = "exited" /\ ~started) => status = Exited(NotFound)

Reported ==
    /\ data \/ received = "errno" => ~started /\ (child = "exit" \/ Dead)
    /\ (pc \in {"close_write", "read"} \/ NoChildYet) => received = "none"
    /\ pc \in {"close_read", "wait"} => received # "none"
    /\ data => pc \in {"close_write", "read", "close_read"}
    /\ data => received \in {"none", "error"}
    /\ (received = "eof" /\ pc # "idle") => child = "running" \/ Dead
    /\ received = "error" => Interruptible

(***************************************************************************)
(* An errno the child lived to report is in the pipe until the parent has  *)
(* it: this is where a read that is interrupted, and not retried, loses it.*)
(***************************************************************************)
Delivered ==
    (/\ ~Interruptible
     /\ child = "exit" \/ (status.how = "exited" /\ ~started))
        => (data \/ received = "errno")

Returned ==
    /\ pc # "idle" => result = NoResult
    /\ (pc = "idle" /\ Dead) =>
           result = IF SigchldIgnored THEN Fail("ForkFailed")
                                      ELSE Outcome(received, status)
    /\ (pc = "idle" /\ ~Dead) =>
           result \in {NoResult, Fail("EmptyCommand"), Fail("ForkFailed")}

IInv ==
    /\ TypeOK /\ ParentEnds /\ ChildEnds /\ Together
    /\ History /\ Reported /\ Delivered /\ Returned

===============================================================================
