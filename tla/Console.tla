------------------------------- MODULE Console -------------------------------
(***************************************************************************)
(* Standard output and standard input.  The shell writes to a stdio buffer *)
(* and reads, for its prompt and its confirmations, through another, which *)
(* may run ahead of it; fork copies both with the rest of the shell's      *)
(* memory; a program writes and reads the same two files itself.  The      *)
(* order of the shell's writes, flushes, reads and forks is that of run,   *)
(* handle_request, run_call, confirm and execute.                          *)
(***************************************************************************)
EXTENDS Integers, Sequences, SequencesExt

CONSTANTS MaxWritten,       \* bound on the texts the shell writes
          MaxInput          \* the length of the input

ASSUME ConsoleAssumption == MaxWritten \in Nat /\ MaxInput \in Nat

VARIABLES terminal,         \* output to a terminal: a newline empties the buffer
          pc,               \* what the shell does next
          nth,              \* the commands echoed so far; nth is the current one
          confirmed,        \* those the user said yes to
          written,          \* the shell's texts, in order
          buffer,           \* those not on the screen yet
          screen,
          position,         \* how much of the input has been read
          ahead,            \* what of it is still in the shell's buffer
          handled,          \* what the shell has taken, in order
          eaten,            \* what the programs have taken
          child,            \* "none", "forked", "running", "gone"
          copy              \* the child's copy of the two buffers

output == <<written, buffer, screen>>
input  == <<position, ahead, handled, eaten>>
run    == <<terminal, nth, confirmed, child, copy>>
vars   == <<run, pc, output, input>>

NoCopy == [output |-> <<>>, input |-> <<>>]

Init ==
    /\ terminal \in BOOLEAN
    /\ pc = "start" /\ nth = 0 /\ confirmed = {}
    /\ written = <<>> /\ buffer = <<>> /\ screen = <<>>
    /\ position = 0 /\ ahead = <<>> /\ handled = <<>> /\ eaten = <<>>
    /\ child = "none" /\ copy = NoCopy

-------------------------------------------------------------------------------
(***************************************************************************)
(* Output.  A text of the shell is told from others by its number; what a  *)
(* program writes is "output".                                             *)
(***************************************************************************)
Kinds == {"greeting", "prompt", "message", "echo", "confirm", "failed", "end", "output"}

Text(what) == [what |-> what, of |-> nth', number |-> Len(written) + 1]

Flush(texts) == buffer' = <<>> /\ screen' = screen \o texts

Write(what, flushed) ==
    /\ Len(written) < MaxWritten
    /\ written' = Append(written, Text(what))
    /\ IF flushed THEN Flush(Append(buffer, Text(what)))
       ELSE buffer' = Append(buffer, Text(what)) /\ UNCHANGED screen

Says(what) == Write(what, terminal)

MutNoFlush(what) == Write(what, FALSE)
Prompts(what)    == Write(what, TRUE)

(***************************************************************************)
(* A buffer that is full is written out.                                   *)
(***************************************************************************)
Overflow ==
    /\ buffer # <<>>
    /\ Flush(buffer)
    /\ UNCHANGED <<run, pc, written, input>>

(***************************************************************************)
(* Input, character by character; a character is its number.  getline      *)
(* fills the buffer with what one read gives, one line of a terminal or    *)
(* any part of a file, and goes on until a newline, which it takes too, or *)
(* the end of the input.                                                   *)
(***************************************************************************)
Reads == pc \in {"read", "answer"}

Fill ==
    /\ Reads /\ ahead = <<>>
    /\ \E n \in 1..(MaxInput - position) :
          /\ ahead' = [k \in 1..n |-> position + k]
          /\ position' = position + n
    /\ UNCHANGED <<run, pc, output, handled, eaten>>

Take ==
    /\ ahead # <<>>
    /\ handled' = Append(handled, Head(ahead))
    /\ ahead' = Tail(ahead)
    /\ UNCHANGED <<position, eaten>>

WithinLine ==
    /\ Reads
    /\ Take
    /\ ahead' # <<>> \/ position < MaxInput
    /\ UNCHANGED <<run, pc, output>>

AtEnd == ahead = <<>> /\ position = MaxInput

-------------------------------------------------------------------------------
Greet ==
    /\ pc = "start"
    /\ UNCHANGED <<run, input>>
    /\ Says("greeting")
    /\ pc' = "prompt"

Prompt ==
    /\ pc = "prompt"
    /\ UNCHANGED <<run, input>>
    /\ Prompts("prompt")
    /\ pc' = "read"

(***************************************************************************)
(* A line that runs nothing, perhaps with a word on why.                   *)
(***************************************************************************)
NothingToRun ==
    /\ pc = "read" /\ Take
    /\ UNCHANGED run
    /\ Says("message") \/ UNCHANGED output
    /\ pc' = "prompt"

Reply ==
    /\ pc = "read" /\ Take
    /\ pc' = "call"
    /\ UNCHANGED <<run, output>>

(***************************************************************************)
(* An exit, or no more lines; std::endl after the loop.                    *)
(***************************************************************************)
Quit ==
    /\ pc = "read"
    /\ UNCHANGED run
    /\ Take \/ (AtEnd /\ UNCHANGED input)
    /\ Write("end", TRUE)
    /\ pc' = "quit"

(***************************************************************************)
(* The next call of a reply: it cannot be built, or its command is echoed. *)
(***************************************************************************)
Unbuildable ==
    /\ pc = "call"
    /\ UNCHANGED <<run, input>>
    /\ Says("message")
    /\ pc' = "prompt"

MutEchoesOnlyRisky ==
    /\ pc = "call"
    /\ nth' = nth + 1
    /\ \/ pc' = "confirm" /\ Says("echo")
       \/ pc' = "execute" /\ UNCHANGED output
    /\ UNCHANGED <<terminal, confirmed, child, copy, input>>
Echo ==
    /\ pc = "call"
    /\ nth' = nth + 1
    /\ Says("echo")
    /\ pc' \in {"confirm", "execute"}
    /\ UNCHANGED <<terminal, confirmed, child, copy, input>>

Confirm ==
    /\ pc = "confirm"
    /\ UNCHANGED <<run, input>>
    /\ Prompts("confirm")
    /\ pc' = "answer"

Yes ==
    /\ pc = "answer" /\ Take
    /\ confirmed' = confirmed \cup {nth}
    /\ pc' = "execute"
    /\ UNCHANGED <<terminal, nth, child, copy, output>>

No ==
    /\ pc = "answer"
    /\ Take \/ (AtEnd /\ UNCHANGED input)
    /\ pc' = "prompt"
    /\ UNCHANGED <<run, output>>

(***************************************************************************)
(* After a command: the next call of the reply, the end of the reply, or a *)
(* message about what failed.                                              *)
(***************************************************************************)
Returns ==
    \/ pc' \in {"call", "prompt"} /\ UNCHANGED output
    \/ pc' = "prompt" /\ Says("failed")

(***************************************************************************)
(* cd in process, or no pipe or no child to be had.                        *)
(***************************************************************************)
WithoutChild ==
    /\ pc = "execute"
    /\ UNCHANGED <<run, input>>
    /\ Returns

Fork ==
    /\ pc = "execute"
    /\ child' = "forked"
    /\ copy' = [output |-> buffer, input |-> ahead]
    /\ pc' = "wait"
    /\ UNCHANGED <<terminal, nth, confirmed, output, input>>

(***************************************************************************)
(* The child forgets its copies: execvp replaces its memory, and so does   *)
(* _exit() when execvp failed, or a signal, which leave the copied output  *)
(* unwritten and the input where it is.  exit() would write the one and    *)
(* move the other back to the first character of the copy.                 *)
(***************************************************************************)
ChildBecomes(what) ==
    /\ child = "forked"
    /\ child' = what /\ copy' = NoCopy
    /\ UNCHANGED <<terminal, nth, confirmed, pc>>

Exec == ChildBecomes("running") /\ UNCHANGED <<output, input>>

MutExitFlushes ==
    /\ ChildBecomes("gone")
    /\ screen' = screen \o copy.output
    /\ UNCHANGED <<written, buffer, input>>
MutExitRewinds ==
    /\ ChildBecomes("gone")
    /\ position' = position - Len(copy.input)
    /\ UNCHANGED <<output, ahead, handled, eaten>>
ExecFails == ChildBecomes("gone") /\ UNCHANGED <<output, input>>

ProgramOutput == [what |-> "output", of |-> nth, number |-> 0]

ProgramWrites ==
    /\ child = "running"
    /\ screen = <<>> \/ Last(screen) # ProgramOutput
    /\ screen' = Append(screen, ProgramOutput)
    /\ UNCHANGED <<run, pc, written, buffer, input>>

ProgramReads ==
    /\ child = "running" /\ position < MaxInput
    /\ eaten' = Append(eaten, position + 1)
    /\ position' = position + 1
    /\ UNCHANGED <<run, pc, output, ahead, handled>>

ProgramEnds ==
    /\ child = "running"
    /\ child' = "gone"
    /\ UNCHANGED <<terminal, nth, confirmed, copy, pc, output, input>>

MutDoesNotWait ==
    /\ pc = "wait"
    /\ UNCHANGED <<run, input>>
    /\ Returns
Waited ==
    /\ pc = "wait" /\ child = "gone"
    /\ UNCHANGED <<terminal, nth, confirmed, copy, input>>
    /\ child' = "none"
    /\ Returns

Terminated == pc = "quit" /\ UNCHANGED vars

Full == Len(written) = MaxWritten /\ UNCHANGED vars

Next ==
    \/ Greet \/ Prompt \/ Fill \/ WithinLine
    \/ NothingToRun \/ Reply \/ Quit
    \/ Unbuildable \/ Echo \/ Confirm \/ Yes \/ No \/ WithoutChild
    \/ Fork \/ Exec \/ ExecFails
    \/ ProgramWrites \/ ProgramReads \/ ProgramEnds \/ Waited
    \/ Overflow \/ Terminated \/ Full

Spec == Init /\ [][Next]_vars

-------------------------------------------------------------------------------
(***************************************************************************)
(* Every variable keeps to its type; the child lives while the shell waits.*)
(***************************************************************************)
Texts == Seq([what : Kinds, of : Nat, number : Nat])

TypeOK ==
    /\ terminal \in BOOLEAN
    /\ pc \in {"start", "prompt", "read", "call", "confirm", "answer", "execute",
              "wait", "quit"}
    /\ nth \in Nat /\ confirmed \subseteq 1..nth
    /\ {written, buffer, screen, copy.output} \subseteq Texts
    /\ position \in 0..MaxInput
    /\ {ahead, handled, eaten, copy.input} \subseteq Seq(1..MaxInput)
    /\ child \in {"none", "forked", "running", "gone"}
    /\ child # "none" => pc = "wait"

(***************************************************************************)
(* What the shell writes comes out once and in order, although every fork  *)
(* makes a second buffer of the same texts (command.cpp:190-199): what is  *)
(* on the screen of it, and then what is still in the buffer, is what it   *)
(* wrote.                                                                  *)
(***************************************************************************)
KeepOwn(own, text) == IF text.what = "output" THEN own ELSE Append(own, text)

OnceInOrder == FoldLeft(KeepOwn, <<>>, screen) \o buffer = written

(***************************************************************************)
(* Whenever the shell waits for the user, and when it has quit, nothing it *)
(* wrote is held back: not the command about to be confirmed, nor how the  *)
(* last one ended (shell.cpp:51, 56, 200).                                 *)
(***************************************************************************)
NothingHeldBack == pc \in {"read", "answer", "quit"} => buffer = <<>>

(***************************************************************************)
(* A command is announced before it acts (shell.cpp:154; the session of    *)
(* README.md:109-111): on a terminal its echo stands before its output,    *)
(* and wherever the output goes this holds of every command the user was   *)
(* asked about.  An echo into a file may come after the program's output.  *)
(***************************************************************************)
AnnouncedFirst ==
    \A k \in DOMAIN screen :
        (screen[k].what = "output" /\ (terminal \/ screen[k].of \in confirmed)) =>
            \E j \in 1..(k - 1) : screen[j].what = "echo" /\ screen[j].of = screen[k].of

(***************************************************************************)
(* Nothing typed is acted on twice and nothing is lost, although every     *)
(* fork leaves a second buffer of what was read ahead (command.cpp:190-199)*)
(* and shell and programs take turns at one file: all that was read is the *)
(* shell's, in the order typed, or still in its buffer, or a program's.    *)
(* A line of a file may yet be torn, its head read by the shell and its    *)
(* tail by a program.                                                      *)
(***************************************************************************)
shellInput == handled \o ahead

EachReadOnce ==
    /\ \A i, j \in DOMAIN shellInput : i < j => shellInput[i] < shellInput[j]
    /\ \A i, j \in DOMAIN eaten : i < j => eaten[i] < eaten[j]
    /\ Range(shellInput) \cap Range(eaten) = {}
    /\ Range(shellInput) \cup Range(eaten) = 1..position

===============================================================================
