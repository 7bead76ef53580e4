------------------------------ MODULE ProgramRun ------------------------------
(***************************************************************************)
(* What execute() promises its caller (command.h:43-45): a program is      *)
(* requested, and the call comes back with the error that kept it from     *)
(* starting or with the status of the program, 128 + signal when a signal  *)
(* killed it.  No pipe, no child process and no errno appear here: module  *)
(* Execute has those and implements this one, and module CactusShell       *)
(* builds the shell on this one.                                           *)
(***************************************************************************)
EXTENDS Integers

CONSTANTS ExitCodes,        \* the codes a program may exit with, in 0..255
          Signals           \* the signals that may kill it, in 1..64

VARIABLES stage,            \* how far the requested program has come
          code,             \* its status as the caller will read it
          result            \* what the last call to execute returned

vars == <<stage, code, result>>

(***************************************************************************)
(* std::expected<int, ExecError>: an error, or a status.                   *)
(***************************************************************************)
Fail(error) == [error |-> error, status |-> 0]
Status(n)   == [error |-> "none", status |-> n]

NoResult  == [error |-> "pending", status |-> 0]
Statuses  == ExitCodes \cup {128 + s : s \in Signals}
Results   == {Fail(e) : e \in {"EmptyCommand", "ForkFailed", "StartFailed"}}
             \cup {Status(n) : n \in Statuses} \cup {NoResult}

TypeOK ==
    /\ stage \in {"idle", "called", "running", "ended"}
    /\ code \in Statuses \cup {0}
    /\ result \in Results

Init ==
    /\ stage = "idle"
    /\ code = 0
    /\ result = NoResult

Refuse ==
    /\ stage = "idle"
    /\ result' = Fail("EmptyCommand")
    /\ UNCHANGED <<stage, code>>

Request ==
    /\ stage = "idle"
    /\ stage' = "called"
    /\ result' = NoResult
    /\ UNCHANGED code

NotStarted ==
    /\ stage = "called"
    /\ stage' = "idle"
    /\ \E e \in {"ForkFailed", "StartFailed"} : result' = Fail(e)
    /\ UNCHANGED code

(***************************************************************************)
(* The child may be killed before it becomes the program.                  *)
(***************************************************************************)
KilledEarly ==
    /\ stage = "called"
    /\ stage' = "idle"
    /\ \E s \in Signals : result' = Status(128 + s)
    /\ UNCHANGED code

Start ==
    /\ stage = "called"
    /\ stage' = "running"
    /\ UNCHANGED <<code, result>>

End ==
    /\ stage = "running"
    /\ stage' = "ended"
    /\ code' \in Statuses
    /\ UNCHANGED result

Return ==
    /\ stage = "ended"
    /\ stage' = "idle"
    /\ code' = 0
    /\ result' = Status(code)

Next ==
    \/ Refuse \/ Request \/ NotStarted \/ KilledEarly
    \/ Start \/ End \/ Return

(***************************************************************************)
(* A call answers and a finished program is noticed; nothing makes the     *)
(* program itself end.                                                     *)
(***************************************************************************)
Fairness ==
    /\ WF_vars(NotStarted \/ KilledEarly \/ Start)
    /\ WF_vars(Return)

Safety == Init /\ [][Next]_vars

Spec == Safety /\ Fairness

===============================================================================
