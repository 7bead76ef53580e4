---------------------------- MODULE ConsoleProofs ----------------------------
(***************************************************************************)
(* Proofs about Console, for sessions and inputs of any length.            *)
(***************************************************************************)
EXTENDS Console, SequenceTheorems, TLAPS

Entries == [what : Kinds, of : Nat, number : Nat]

(***************************************************************************)
(* Texts of the shell; whether the command n is among them.                *)
(***************************************************************************)
OwnTexts(s)   == s \in Seq(Entries) /\ \A k \in DOMAIN s : s[k].what # "output"
Echoed(s, n)  == \E k \in DOMAIN s : s[k].what = "echo" /\ s[k].of = n

(***************************************************************************)
(* No output on the screen s is of a command beyond n; and each of a       *)
(* command that matters has its echo before it.                            *)
(***************************************************************************)
UpTo(s, n) == \A k \in DOMAIN s : s[k].what = "output" => s[k].of <= n

InOrder(s, matters, all) ==
    \A k \in DOMAIN s :
        (s[k].what = "output" /\ (all \/ s[k].of \in matters)) =>
            \E j \in 1..(k - 1) : s[j].what = "echo" /\ s[j].of = s[k].of

Announcing == pc \in {"confirm", "answer", "execute", "wait"}

(***************************************************************************)
(* Where the echo of the current command is: written when the command is   *)
(* to be confirmed or run, and on the screen by the time the user said yes;*)
(* a command not yet run has no output.                                    *)
(***************************************************************************)
IInv ==
    /\ terminal \in BOOLEAN /\ nth \in Nat /\ confirmed \subseteq 1..nth
    /\ written \in Seq(Entries) /\ screen \in Seq(Entries) /\ OwnTexts(buffer)
    /\ child # "none" => pc = "wait"
    /\ pc \in {"read", "answer", "quit"} \/ terminal => buffer = <<>>
    /\ Announcing => nth > 0 /\ (Echoed(screen, nth) \/ Echoed(buffer, nth))
    /\ (pc \in {"execute", "wait"} /\ nth \in confirmed) => Echoed(screen, nth)
    /\ UpTo(screen, nth)
    /\ pc \in {"confirm", "answer"} => UpTo(screen, nth - 1)
    /\ InOrder(screen, confirmed, terminal)

-------------------------------------------------------------------------------
(***************************************************************************)
(* A screen that grows by texts of the shell, or by output that may come.  *)
(***************************************************************************)
LEMMA ScreenGrows ==
    ASSUME NEW s \in Seq(Entries), NEW x, OwnTexts(x)
    PROVE  /\ s \o x \in Seq(Entries)
           /\ \A n : Echoed(s, n) \/ Echoed(x, n) => Echoed(s \o x, n)
           /\ \A n : UpTo(s, n) => UpTo(s \o x, n)
           /\ \A matters, all : InOrder(s, matters, all) => InOrder(s \o x, matters, all)
<1> DEFINE y == s \o x
<1>1. x \in Seq(Entries)
  BY DEF OwnTexts
<1>2. /\ y \in Seq(Entries) /\ Len(y) = Len(s) + Len(x)
      /\ Len(s) \in Nat /\ Len(x) \in Nat
  BY <1>1
<1>3. \A k \in 1..Len(s) : y[k] = s[k]
  BY <1>1
<1>4. \A k \in 1..Len(x) : y[Len(s) + k] = x[k]
  BY <1>1
<1>5. \A k \in DOMAIN y : y[k].what = "output" => k \in 1..Len(s)
  <2> SUFFICES ASSUME NEW k \in DOMAIN y, k \notin 1..Len(s)
               PROVE  y[k].what # "output"
    OBVIOUS
  <2>1. k \in 1..Len(y)
    BY <1>2
  <2>2. k - Len(s) \in 1..Len(x) /\ Len(s) + (k - Len(s)) = k
    BY <2>1, <1>2
  <2>3. y[k] = x[k - Len(s)]
    BY <2>2, <1>4
  <2> QED
    BY <2>2, <2>3, <1>1 DEF OwnTexts
<1> HIDE DEF y
<1>6. \A n : Echoed(s, n) \/ Echoed(x, n) => Echoed(y, n)
  <2> SUFFICES ASSUME NEW n, Echoed(s, n) \/ Echoed(x, n) PROVE Echoed(y, n)
    OBVIOUS
  <2>1. CASE Echoed(s, n)
    <3>1. PICK k \in 1..Len(s) : s[k].what = "echo" /\ s[k].of = n
      BY <2>1 DEF Echoed
    <3> QED
      BY <3>1, <1>2, <1>3 DEF Echoed
  <2>2. CASE Echoed(x, n)
    <3>1. PICK k \in 1..Len(x) : x[k].what = "echo" /\ x[k].of = n
      BY <2>2, <1>1 DEF Echoed
    <3>2. Len(s) + k \in DOMAIN y
      BY <1>2
    <3>3. y[Len(s) + k].what = "echo" /\ y[Len(s) + k].of = n
      BY <3>1, <1>4
    <3> QED
      BY <3>2, <3>3, Zenon DEF Echoed
  <2> QED
    BY <2>1, <2>2
<1>7. \A n : UpTo(s, n) => UpTo(y, n)
  BY <1>2, <1>3, <1>5 DEF UpTo
<1>8. \A matters, all : InOrder(s, matters, all) => InOrder(y, matters, all)
  <2> SUFFICES ASSUME NEW matters, NEW all, InOrder(s, matters, all)
               PROVE  InOrder(y, matters, all)
    OBVIOUS
  <2> SUFFICES ASSUME NEW k \in DOMAIN y, y[k].what = "output",
                      all \/ y[k].of \in matters
               PROVE  \E j \in 1..(k - 1) : y[j].what = "echo" /\ y[j].of = y[k].of
    BY Zenon DEF InOrder
  <2>1. k \in 1..Len(s) /\ y[k] = s[k]
    BY <1>3, <1>5
  <2>2. PICK j \in 1..(k - 1) : s[j].what = "echo" /\ s[j].of = s[k].of
    BY <2>1 DEF InOrder
  <2>3. j \in 1..Len(s)
    BY <2>1, <1>2
  <2> QED
    BY <2>1, <2>2, <2>3, <1>3
<1> QED
  BY <1>2, <1>6, <1>7, <1>8 DEF y

(***************************************************************************)
(* Output of a command that was echoed.                                    *)
(***************************************************************************)
LEMMA OutputComes ==
    ASSUME NEW s \in Seq(Entries), NEW e \in Entries, NEW matters, NEW all \in BOOLEAN,
           InOrder(s, matters, all), (all \/ e.of \in matters) => Echoed(s, e.of)
    PROVE  /\ Append(s, e) \in Seq(Entries)
           /\ \A n : Echoed(s, n) => Echoed(Append(s, e), n)
           /\ UpTo(s, e.of) => UpTo(Append(s, e), e.of)
           /\ InOrder(Append(s, e), matters, all)
<1> DEFINE y == Append(s, e)
<1>1. /\ y \in Seq(Entries) /\ Len(y) = Len(s) + 1 /\ Len(s) \in Nat
      /\ y[Len(s) + 1] = e
      /\ \A k \in 1..Len(s) : y[k] = s[k]
  OBVIOUS
<1>2. \A k \in DOMAIN y : k \in 1..Len(s) \/ k = Len(s) + 1
  BY <1>1
<1> HIDE DEF y
<1>3. \A n : Echoed(s, n) => Echoed(y, n)
  <2> SUFFICES ASSUME NEW n, NEW k \in 1..Len(s), s[k].what = "echo", s[k].of = n
               PROVE  Echoed(y, n)
    BY DEF Echoed
  <2> QED
    BY <1>1 DEF Echoed
<1>4. UpTo(s, e.of) => UpTo(y, e.of)
  <2>1. e.of <= e.of
    BY DEF Entries
  <2> QED
    BY <1>1, <1>2, <2>1 DEF UpTo
<1>5. InOrder(y, matters, all)
  <2> SUFFICES ASSUME NEW k \in DOMAIN y, y[k].what = "output",
                      all \/ y[k].of \in matters
               PROVE  \E j \in 1..(k - 1) : y[j].what = "echo" /\ y[j].of = y[k].of
    BY DEF InOrder
  <2>1. CASE k \in 1..Len(s)
    <3>1. PICK j \in 1..(k - 1) : s[j].what = "echo" /\ s[j].of = s[k].of
      BY <2>1, <1>1 DEF InOrder
    <3>2. j \in 1..Len(s)
      BY <2>1, <1>1
    <3> QED
      BY <2>1, <3>1, <3>2, <1>1
  <2>2. CASE k = Len(s) + 1
    <3>1. PICK j \in 1..Len(s) : s[j].what = "echo" /\ s[j].of = e.of
      BY <2>2, <1>1 DEF Echoed
    <3>2. j \in 1..(k - 1)
      BY <2>2, <1>1
    <3> QED
      BY <2>2, <3>1, <3>2, <1>1
  <2> QED
    BY <2>1, <2>2, <1>2
<1> QED
  BY <1>1, <1>3, <1>4, <1>5 DEF y

(***************************************************************************)
(* What a write of the shell does to buffer and screen.                    *)
(***************************************************************************)
LEMMA Writes ==
    ASSUME IInv, NEW what \in Kinds, what # "output", NEW flushed \in BOOLEAN,
           nth' \in Nat, Write(what, flushed)
    PROVE  /\ written' \in Seq(Entries) /\ screen' \in Seq(Entries) /\ OwnTexts(buffer')
           /\ flushed => buffer' = <<>>
           /\ \A n : Echoed(screen, n) => Echoed(screen', n)
           /\ \A n : Echoed(buffer, n) => Echoed(screen', n) \/ Echoed(buffer', n)
           /\ what = "echo" => Echoed(screen', nth') \/ Echoed(buffer', nth')
           /\ \A n : UpTo(screen, n) => UpTo(screen', n)
           /\ InOrder(screen', confirmed, terminal)
<1> DEFINE e == Text(what)
           b == Append(buffer, e)
<1>1. e \in Entries /\ e.what = what /\ e.of = nth'
  BY DEF Text, Entries, IInv
<1>2. OwnTexts(<<>>)
  BY DEF OwnTexts
<1> HIDE DEF e
<1>3. /\ buffer \in Seq(Entries) /\ b \in Seq(Entries)
      /\ Len(b) = Len(buffer) + 1 /\ Len(buffer) \in Nat
      /\ b[Len(buffer) + 1] = e /\ \A k \in 1..Len(buffer) : b[k] = buffer[k]
  BY <1>1 DEF IInv, OwnTexts
<1> HIDE DEF b
<1>4. DOMAIN b = 1..(Len(buffer) + 1) /\ DOMAIN buffer = 1..Len(buffer)
  BY <1>3
<1>5. OwnTexts(b)
  <2>1. \A k \in DOMAIN b : k \in 1..Len(buffer) \/ k = Len(buffer) + 1
    BY <1>3, <1>4
  <2> QED
    BY <2>1, <1>1, <1>3, <1>4 DEF OwnTexts, IInv
<1>6. \A n : Echoed(buffer, n) => Echoed(b, n)
  <2> SUFFICES ASSUME NEW n, NEW k \in 1..Len(buffer),
                      buffer[k].what = "echo", buffer[k].of = n
               PROVE  Echoed(b, n)
    BY <1>4 DEF Echoed
  <2> QED
    BY <1>3, <1>4 DEF Echoed
<1>7. what = "echo" => Echoed(b, nth')
  <2>1. Len(buffer) + 1 \in DOMAIN b
    BY <1>3, <1>4
  <2> QED
    BY <2>1, <1>1, <1>3 DEF Echoed
<1>8. written' \in Seq(Entries)
  BY <1>1 DEF Write, IInv, e
<1>9. CASE flushed
  <2>1. screen' = screen \o b /\ buffer' = <<>>
    BY <1>9 DEF Write, Flush, b, e
  <2>2. screen \in Seq(Entries) /\ InOrder(screen, confirmed, terminal)
    BY DEF IInv
  <2>3. /\ screen \o b \in Seq(Entries)
        /\ \A n : Echoed(screen, n) \/ Echoed(b, n) => Echoed(screen \o b, n)
        /\ \A n : UpTo(screen, n) => UpTo(screen \o b, n)
        /\ InOrder(screen \o b, confirmed, terminal)
    BY <2>2, <1>5, ScreenGrows, Zenon
  <2> QED
    BY <2>1, <2>3, <1>2, <1>6, <1>7, <1>8, Zenon
<1>10. CASE ~flushed
  <2>1. screen' = screen /\ buffer' = b
    BY <1>10 DEF Write, b, e
  <2> QED
    BY <2>1, <1>10, <1>5, <1>6, <1>7, <1>8, Zenon DEF IInv
<1> QED
  BY <1>9, <1>10

LEMMA EntriesOf ==
    ASSUME NEW s \in Seq(Entries)
    PROVE  \A k \in DOMAIN s : s[k].of \in Nat
<1>1. \A k \in DOMAIN s : s[k] \in Entries
  OBVIOUS
<1> QED
  BY <1>1 DEF Entries

LEMMA EmptyBuffer ==
    OwnTexts(<<>>) /\ <<>> \in Seq(Entries) /\ \A n : ~Echoed(<<>>, n)
  BY DEF OwnTexts, Echoed

-------------------------------------------------------------------------------
(***************************************************************************)
(* Steps in which the shell writes of a command it has echoed, or none.    *)
(***************************************************************************)
LEMMA SpeakingStep ==
    ASSUME IInv, NEW what \in Kinds, what # "output", NEW flushed \in BOOLEAN,
           Write(what, flushed), terminal => flushed,
           UNCHANGED <<terminal, nth, confirmed>>,
           child' # "none" => pc' = "wait",
           pc' \in {"read", "answer", "quit"} => flushed,
           pc' \in {"confirm", "answer"} => pc = "confirm",
           pc' \notin {"execute", "wait"}
    PROVE  IInv'
<1>1. nth' \in Nat
  BY DEF IInv
<1>2. /\ written' \in Seq(Entries) /\ screen' \in Seq(Entries) /\ OwnTexts(buffer')
      /\ flushed => buffer' = <<>>
      /\ \A n : Echoed(screen, n) => Echoed(screen', n)
      /\ \A n : Echoed(buffer, n) => Echoed(screen', n) \/ Echoed(buffer', n)
      /\ \A n : UpTo(screen, n) => UpTo(screen', n)
      /\ InOrder(screen', confirmed, terminal)
  BY <1>1, Writes
<1>3. Announcing' => nth > 0 /\ (Echoed(screen', nth) \/ Echoed(buffer', nth))
  BY <1>2 DEF IInv, Announcing
<1>4. UpTo(screen', nth) /\ (pc' \in {"confirm", "answer"} => UpTo(screen', nth - 1))
  BY <1>2 DEF IInv
<1> QED
  BY <1>2, <1>3, <1>4 DEF IInv

(***************************************************************************)
(* Steps in which nothing is written.                                      *)
(***************************************************************************)
LEMMA QuietStep ==
    ASSUME IInv,
           UNCHANGED <<output, terminal, nth, confirmed>>,
           child' # "none" => pc' = "wait",
           pc' \in {"read", "answer", "quit"} => pc' = pc,
           pc' \in {"confirm", "answer"} => pc' = pc,
           pc' \in {"execute", "wait"} => pc \in {"execute", "wait"}
    PROVE  IInv'
<1>1. UNCHANGED <<written, buffer, screen, terminal, nth, confirmed>>
  BY DEF output
<1>2. Announcing' => Announcing
  BY DEF Announcing
<1> QED
  BY <1>1, <1>2 DEF IInv

LEMMA EchoStep == ASSUME IInv, Echo PROVE IInv'
<1>1. nth' = nth + 1 /\ nth' \in Nat /\ terminal' = terminal /\ confirmed' = confirmed
  BY DEF Echo, IInv
<1>2. Write("echo", terminal)
  BY DEF Echo, Says
<1>3. /\ written' \in Seq(Entries) /\ screen' \in Seq(Entries) /\ OwnTexts(buffer')
      /\ terminal => buffer' = <<>>
      /\ Echoed(screen', nth') \/ Echoed(buffer', nth')
      /\ \A n : UpTo(screen, n) => UpTo(screen', n)
      /\ InOrder(screen', confirmed, terminal)
  <2>1. terminal \in BOOLEAN /\ "echo" \in Kinds /\ "echo" # "output" /\ nth' \in Nat
    BY <1>1 DEF IInv, Kinds
  <2> QED
    BY <2>1, <1>2, Writes, Zenon
<1>4. UpTo(screen', nth) /\ UpTo(screen', nth')
  <2>1. UpTo(screen', nth)
    BY <1>3 DEF IInv
  <2>2. \A k \in DOMAIN screen' : screen'[k].of \in Nat
    BY <1>3, EntriesOf
  <2> QED
    BY <2>1, <2>2, <1>1 DEF UpTo, IInv
<1>5. nth' \notin confirmed /\ confirmed' \subseteq 1..nth'
  BY <1>1 DEF IInv
<1>6. nth' - 1 = nth
  BY <1>1 DEF IInv
<1>7. child' # "none" => pc' = "wait"
  BY DEF Echo, IInv
<1>8. pc' \in {"confirm", "execute"}
  BY DEF Echo
<1> QED
  BY <1>1, <1>3, <1>4, <1>5, <1>6, <1>7, <1>8 DEF IInv

LEMMA YesStep == ASSUME IInv, Yes PROVE IInv'
<1>1. /\ confirmed' = confirmed \cup {nth}
      /\ UNCHANGED <<terminal, nth, output>> /\ pc = "answer" /\ pc' = "execute"
      /\ child' = child
  BY DEF Yes
<1>2. Echoed(screen, nth)
  BY <1>1, EmptyBuffer DEF IInv, Announcing
<1>3. InOrder(screen, confirmed', terminal)
  <2>1. \A k \in DOMAIN screen : screen[k].of \in Nat
    BY EntriesOf DEF IInv
  <2>2. \A k \in DOMAIN screen : screen[k].what = "output" => screen[k].of # nth
    BY <2>1, <1>1 DEF IInv, UpTo
  <2> QED
    BY <2>2, <1>1 DEF InOrder, IInv
<1>4. nth \in Nat /\ nth > 0
  BY <1>1 DEF IInv, Announcing
<1> QED
  BY <1>1, <1>2, <1>3, <1>4 DEF IInv, output, Announcing

LEMMA OutputStep == ASSUME IInv, ProgramWrites PROVE IInv'
<1>1. /\ screen' = Append(screen, ProgramOutput) /\ pc = "wait"
      /\ UNCHANGED <<terminal, nth, confirmed, child, pc, written, buffer>>
  BY DEF ProgramWrites, run, IInv
<1>2. ProgramOutput \in Entries /\ ProgramOutput.of = nth
  <2>1. nth \in Nat
    BY DEF IInv
  <2> QED
    BY <2>1 DEF ProgramOutput, Entries, Kinds
<1>3. (terminal \/ nth \in confirmed) => Echoed(screen, nth)
  BY <1>1, EmptyBuffer DEF IInv, Announcing
<1>4. /\ screen \in Seq(Entries) /\ InOrder(screen, confirmed, terminal)
      /\ terminal \in BOOLEAN
  BY DEF IInv
<1>5. /\ screen' \in Seq(Entries)
      /\ \A n : Echoed(screen, n) => Echoed(screen', n)
      /\ UpTo(screen, nth) => UpTo(screen', nth)
      /\ InOrder(screen', confirmed, terminal)
  BY <1>1, <1>2, <1>3, <1>4, OutputComes
<1> QED
  BY <1>1, <1>5 DEF IInv, Announcing

LEMMA OverflowStep == ASSUME IInv, Overflow PROVE IInv'
<1>1. /\ screen' = screen \o buffer /\ buffer' = <<>>
      /\ UNCHANGED <<terminal, nth, confirmed, child, pc, written>>
  BY DEF Overflow, Flush, run
<1>2. screen \in Seq(Entries) /\ OwnTexts(buffer)
  BY DEF IInv
<1>3. /\ screen' \in Seq(Entries)
      /\ \A n : Echoed(screen, n) \/ Echoed(buffer, n) => Echoed(screen', n)
      /\ \A n : UpTo(screen, n) => UpTo(screen', n)
      /\ \A matters, all : InOrder(screen, matters, all) => InOrder(screen', matters, all)
  BY <1>1, <1>2, ScreenGrows
<1> QED
  BY <1>1, <1>3, EmptyBuffer DEF IInv, Announcing

LEMMA ReturningStep ==
    ASSUME IInv, Returns, UNCHANGED <<terminal, nth, confirmed>>, child' = "none"
    PROVE  IInv'
<1>1. CASE UNCHANGED output
  BY <1>1, QuietStep DEF Returns
<1>2. CASE pc' = "prompt" /\ Says("failed")
  <2>1. Write("failed", terminal) /\ "failed" \in Kinds /\ "failed" # "output"
    BY <1>2 DEF Says, Kinds
  <2>2. terminal \in BOOLEAN
    BY DEF IInv
  <2> QED
    BY <1>2, <2>1, <2>2, SpeakingStep
<1> QED
  BY <1>1, <1>2 DEF Returns

LEMMA IInvInit == Init => IInv
<1> SUFFICES ASSUME Init PROVE IInv
  OBVIOUS
<1>1. UpTo(<<>>, 0) /\ InOrder(<<>>, {}, terminal)
  BY DEF UpTo, InOrder
<1> QED
  BY <1>1, EmptyBuffer DEF Init, IInv, Announcing

LEMMA IInvNext == IInv /\ [Next]_vars => IInv'
<1> SUFFICES ASSUME IInv, [Next]_vars PROVE IInv'
  OBVIOUS
<1>1. terminal \in BOOLEAN /\ (child # "none" => pc = "wait")
  BY DEF IInv
<1>2. CASE Greet
  <2>1. Write("greeting", terminal) /\ "greeting" \in Kinds /\ "greeting" # "output"
    BY <1>2 DEF Greet, Says, Kinds
  <2> QED
    BY <1>1, <1>2, <2>1, SpeakingStep DEF Greet, run
<1>3. CASE Prompt
  <2>1. Write("prompt", TRUE) /\ "prompt" \in Kinds /\ "prompt" # "output"
    BY <1>3 DEF Prompt, Prompts, Kinds
  <2> QED
    BY <1>1, <1>3, <2>1, SpeakingStep DEF Prompt, run
<1>4. CASE NothingToRun
  <2>1. CASE UNCHANGED output
    BY <1>1, <1>4, <2>1, QuietStep DEF NothingToRun, run
  <2>2. CASE Says("message")
    <3>1. Write("message", terminal) /\ "message" \in Kinds /\ "message" # "output"
      BY <2>2 DEF Says, Kinds
    <3> QED
      BY <1>1, <1>4, <3>1, SpeakingStep DEF NothingToRun, run
  <2> QED
    BY <1>4, <2>1, <2>2 DEF NothingToRun
<1>5. CASE Quit
  <2>1. Write("end", TRUE) /\ "end" \in Kinds /\ "end" # "output"
    BY <1>5 DEF Quit, Kinds
  <2> QED
    BY <1>1, <1>5, <2>1, SpeakingStep DEF Quit, run
<1>6. CASE Unbuildable
  <2>1. Write("message", terminal) /\ "message" \in Kinds /\ "message" # "output"
    BY <1>6 DEF Unbuildable, Says, Kinds
  <2> QED
    BY <1>1, <1>6, <2>1, SpeakingStep DEF Unbuildable, run
<1>7. CASE Confirm
  <2>1. Write("confirm", TRUE) /\ "confirm" \in Kinds /\ "confirm" # "output"
    BY <1>7 DEF Confirm, Prompts, Kinds
  <2> QED
    BY <1>1, <1>7, <2>1, SpeakingStep DEF Confirm, run
<1>8. CASE Fill \/ WithinLine \/ Reply \/ No
  BY <1>1, <1>8, QuietStep DEF Fill, WithinLine, Reply, No, run
<1>9. CASE WithoutChild
  BY <1>1, <1>9, ReturningStep DEF WithoutChild, run
<1>10. CASE Waited
  BY <1>10, ReturningStep DEF Waited
<1>11. CASE Fork
  BY <1>11, QuietStep DEF Fork
<1>12. CASE Exec \/ ExecFails
  BY <1>1, <1>12, QuietStep DEF Exec, ExecFails, ChildBecomes
<1>13. CASE ProgramReads \/ ProgramEnds
  BY <1>1, <1>13, QuietStep DEF ProgramReads, ProgramEnds, run
<1>14. CASE UNCHANGED vars
  BY <1>1, <1>14, QuietStep DEF vars, run
<1>15. CASE Echo \/ Yes \/ ProgramWrites \/ Overflow
  BY <1>15, EchoStep, YesStep, OutputStep, OverflowStep
<1> QED
  BY <1>2, <1>3, <1>4, <1>5, <1>6, <1>7, <1>8, <1>9, <1>10, <1>11, <1>12, <1>13,
     <1>14, <1>15 DEF Next, Terminated, Full

LEMMA Invariance == Spec => []IInv
  BY IInvInit, IInvNext, PTL DEF Spec

-------------------------------------------------------------------------------
(***************************************************************************)
(* Whenever the shell waits for the user, and when it has quit, everything *)
(* it wrote is out (shell.cpp:49, 56, 200).                                *)
(***************************************************************************)
THEOREM NothingEverHeldBack == Spec => []NothingHeldBack
<1>1. IInv => NothingHeldBack
  BY DEF IInv, NothingHeldBack
<1> QED
  BY <1>1, Invariance, PTL

(***************************************************************************)
(* On a terminal every command, and in a file every command the user was   *)
(* asked about, is announced before anything it writes (shell.cpp:154).    *)
(***************************************************************************)
THEOREM CommandsAnnounced == Spec => []AnnouncedFirst
<1>1. IInv => AnnouncedFirst
  BY DEF IInv, InOrder, AnnouncedFirst
<1> QED
  BY <1>1, Invariance, PTL

-------------------------------------------------------------------------------
(***************************************************************************)
(* The input.  Characters are taken in the order in which they were read,  *)
(* each reader's numbers grow, and there are no others than those read.    *)
(***************************************************************************)
Increasing(s) == \A i, j \in DOMAIN s : i < j => s[i] < s[j]

InputInv ==
    /\ position \in 0..MaxInput
    /\ ahead \in Seq(1..MaxInput) /\ handled \in Seq(1..MaxInput)
    /\ eaten \in Seq(1..MaxInput)
    /\ EachReadOnce

(***************************************************************************)
(* The next character goes from the buffer to those taken.                 *)
(***************************************************************************)
LEMMA MovesOver ==
    ASSUME NEW S, NEW h \in Seq(S), NEW a \in Seq(S), a # <<>>
    PROVE  /\ Append(h, Head(a)) \in Seq(S) /\ Tail(a) \in Seq(S)
           /\ Append(h, Head(a)) \o Tail(a) = h \o a
<1>1. Head(a) \in S /\ Tail(a) \in Seq(S) /\ Len(a) \in Nat \ {0}
  OBVIOUS
<1>2. Append(h, Head(a)) \in Seq(S)
  BY <1>1
<1> DEFINE x == Append(h, Head(a)) \o Tail(a)
           y == h \o a
<1>3. x \in Seq(S) /\ y \in Seq(S) /\ Len(x) = Len(y) /\ Len(y) = Len(h) + Len(a)
  BY <1>1, <1>2
<1>4. \A k \in 1..Len(y) : x[k] = y[k]
  <2> SUFFICES ASSUME NEW k \in 1..Len(y) PROVE x[k] = y[k]
    OBVIOUS
  <2>1. CASE k <= Len(h)
    BY <2>1, <1>1, <1>2, <1>3
  <2>2. CASE k = Len(h) + 1
    BY <2>2, <1>1, <1>2, <1>3
  <2>3. CASE k > Len(h) + 1
    BY <2>3, <1>1, <1>2, <1>3
  <2> QED
    BY <2>1, <2>2, <2>3, <1>3
<1> HIDE DEF x, y
<1>5. x = y
  BY <1>3, <1>4
<1> QED
  BY <1>1, <1>2, <1>5 DEF x, y

LEMMA Joined ==
    ASSUME NEW s \in Seq(Int), NEW x \in Seq(Int)
    PROVE  /\ s \o x \in Seq(Int) /\ Len(s \o x) = Len(s) + Len(x) /\ Len(s) \in Nat
           /\ \A k \in 1..Len(s) : (s \o x)[k] = s[k]
           /\ \A k \in 1..Len(x) : (s \o x)[Len(s) + k] = x[k]
<1>1. s \o x \in Seq(Int) /\ Len(s \o x) = Len(s) + Len(x) /\ Len(s) \in Nat
  OBVIOUS
<1>2. \A k \in 1..Len(s) : (s \o x)[k] = s[k]
  OBVIOUS
<1>3. \A k \in 1..Len(x) : (s \o x)[Len(s) + k] = x[k]
  OBVIOUS
<1> QED
  BY <1>1, <1>2, <1>3

(***************************************************************************)
(* The next n characters, all of them new, are added at the end.           *)
(***************************************************************************)
LEMMA Lengthens ==
    ASSUME NEW p \in Nat, NEW n \in Nat,
           NEW s \in Seq(Int), Increasing(s), \A k \in DOMAIN s : s[k] <= p,
           NEW x \in Seq(Int), Len(x) = n, \A k \in 1..n : x[k] = p + k
    PROVE  /\ Increasing(s \o x)
           /\ Range(s \o x) = Range(s) \cup ((p + 1)..(p + n))
<1> DEFINE y == s \o x
<1>1. /\ s \o x \in Seq(Int) /\ Len(s \o x) = Len(s) + Len(x) /\ Len(s) \in Nat
      /\ \A k \in 1..Len(s) : (s \o x)[k] = s[k]
      /\ \A k \in 1..Len(x) : (s \o x)[Len(s) + k] = x[k]
  BY Joined
<1>2. /\ y \in Seq(Int) /\ Len(y) = Len(s) + n /\ Len(s) \in Nat
      /\ \A k \in 1..Len(s) : y[k] = s[k]
      /\ \A k \in 1..n : y[Len(s) + k] = p + k
  BY <1>1
<1> HIDE DEF y
<1>3. DOMAIN s = 1..Len(s) /\ DOMAIN y = 1..(Len(s) + n)
  BY <1>2
<1>4. \A k \in DOMAIN y : \/ k \in 1..Len(s) /\ y[k] = s[k]
                          \/ k > Len(s) /\ k - Len(s) \in 1..n /\ y[k] = p + (k - Len(s))
  <2> TAKE k \in DOMAIN y
  <2>1. CASE k \in 1..Len(s)
    BY <2>1, <1>2
  <2>2. CASE k \notin 1..Len(s)
    <3> DEFINE m == k - Len(s)
    <3>1. k > Len(s) /\ m \in 1..n /\ Len(s) + m = k
      BY <2>2, <1>2, <1>3
    <3> HIDE DEF m
    <3>2. y[k] = p + m
      BY <3>1, <1>2
    <3> QED
      BY <3>1, <3>2 DEF m
  <2> QED
    BY <2>1, <2>2
<1>5. Increasing(y)
  <2> SUFFICES ASSUME NEW i \in DOMAIN y, NEW j \in DOMAIN y, i < j
               PROVE  y[i] < y[j]
    BY DEF Increasing
  <2>1. i \in Int /\ j \in Int
    BY <1>2, <1>3
  <2>2. CASE j \in 1..Len(s)
    <3>1. i \in 1..Len(s)
      BY <2>1, <2>2, <1>2, <1>3
    <3>2. y[i] = s[i] /\ y[j] = s[j]
      BY <2>2, <3>1, <1>2, Zenon
    <3>3. s[i] < s[j]
      BY <2>2, <3>1, <1>3, Zenon DEF Increasing
    <3> QED
      BY <3>2, <3>3, Zenon
  <2>3. CASE j > Len(s) /\ i \in 1..Len(s)
    <3>1. y[i] = s[i] /\ s[i] \in Int /\ s[i] <= p
      BY <2>3, <1>2, <1>3
    <3> DEFINE m == j - Len(s)
    <3>2. m \in 1..n /\ Len(s) + m = j
      <4>1. j \in 1..(Len(s) + n) /\ Len(s) \in Nat
        BY <1>2, <1>3, Zenon
      <4> QED
        BY <2>3, <4>1
    <3> HIDE DEF m
    <3>3. y[j] = p + m
      <4>1. y[Len(s) + m] = p + m
        BY <1>2, <3>2, Zenon
      <4> QED
        BY <3>2, <4>1, Zenon
    <3>4. s[i] < p + m
      BY <3>1, <3>2
    <3> QED
      BY <3>1, <3>3, <3>4
  <2>4. CASE j > Len(s) /\ i \notin 1..Len(s)
    <3>1. y[j] = p + (j - Len(s)) /\ y[i] = p + (i - Len(s))
      BY <2>1, <2>4, <1>2, <1>4
    <3> QED
      BY <3>1, <2>1, <1>2
  <2> QED
    BY <2>1, <2>2, <2>3, <2>4, <1>2, <1>3
<1>6. Range(y) = Range(s) \cup ((p + 1)..(p + n))
  <2>1. ASSUME NEW c \in Range(y)
        PROVE  c \in Range(s) \cup ((p + 1)..(p + n))
    <3>1. PICK k \in DOMAIN y : c = y[k]
      BY <2>1 DEF Range
    <3>2. CASE k \in 1..Len(s) /\ y[k] = s[k]
      BY <3>1, <3>2, <1>3 DEF Range
    <3>3. CASE k - Len(s) \in 1..n /\ y[k] = p + (k - Len(s))
      BY <3>1, <3>3
    <3> QED
      BY <3>2, <3>3, <1>4
  <2>2. ASSUME NEW c \in Range(s)
        PROVE  c \in Range(y)
    <3>1. PICK k \in DOMAIN s : c = s[k]
      BY <2>2 DEF Range
    <3>2. k \in DOMAIN y /\ y[k] = s[k]
      BY <3>1, <1>2, <1>3
    <3> QED
      BY <3>1, <3>2 DEF Range
  <2>3. ASSUME NEW c \in (p + 1)..(p + n)
        PROVE  c \in Range(y)
    <3> DEFINE m == c - p
    <3>1. m \in 1..n /\ p + m = c
      OBVIOUS
    <3> HIDE DEF m
    <3>2. y[Len(s) + m] = c
      BY <3>1, <1>2
    <3>3. Len(s) + m \in DOMAIN y
      BY <3>1, <1>2, <1>3
    <3> QED
      BY <3>2, <3>3 DEF Range
  <2> QED
    BY <2>1, <2>2, <2>3
<1> QED
  BY <1>5, <1>6, Zenon DEF y

(***************************************************************************)
(* Steps that read, take or eat.                                           *)
(***************************************************************************)
LEMMA TakeStep == ASSUME InputInv, Take PROVE InputInv'
<1>1. /\ handled' \in Seq(1..MaxInput) /\ ahead' \in Seq(1..MaxInput)
      /\ handled' \o ahead' = handled \o ahead
      /\ position' = position /\ eaten' = eaten
  <2>1. handled \in Seq(1..MaxInput) /\ ahead \in Seq(1..MaxInput)
    BY DEF InputInv
  <2>2. /\ ahead # <<>> /\ handled' = Append(handled, Head(ahead)) /\ ahead' = Tail(ahead)
        /\ position' = position /\ eaten' = eaten
    BY DEF Take
  <2>3. /\ Append(handled, Head(ahead)) \in Seq(1..MaxInput)
        /\ Tail(ahead) \in Seq(1..MaxInput)
        /\ Append(handled, Head(ahead)) \o Tail(ahead) = handled \o ahead
    BY <2>1, <2>2, MovesOver, Zenon
  <2> QED
    BY <2>2, <2>3, Zenon
<1> QED
  BY <1>1 DEF InputInv, EachReadOnce, shellInput

LEMMA AllRead ==
    ASSUME InputInv
    PROVE  /\ position \in Nat /\ position <= MaxInput
           /\ shellInput \in Seq(Int) /\ eaten \in Seq(Int)
           /\ Increasing(shellInput) /\ Increasing(eaten)
           /\ \A k \in DOMAIN shellInput : shellInput[k] <= position
           /\ \A k \in DOMAIN eaten : eaten[k] <= position
<1>1. Range(shellInput) \subseteq 1..position /\ Range(eaten) \subseteq 1..position
  BY DEF InputInv, EachReadOnce
<1>2. position \in Nat /\ position <= MaxInput
  BY ConsoleAssumption DEF InputInv
<1>3. ahead \in Seq(Int) /\ handled \in Seq(Int) /\ eaten \in Seq(Int)
  BY ConsoleAssumption DEF InputInv
<1>4. \A k \in DOMAIN shellInput : shellInput[k] \in 1..position
  BY <1>1 DEF Range
<1>5. \A k \in DOMAIN eaten : eaten[k] \in 1..position
  BY <1>1 DEF Range
<1>6. shellInput \in Seq(Int)
  BY <1>3 DEF shellInput
<1> QED
  BY <1>2, <1>3, <1>4, <1>5, <1>6 DEF InputInv, EachReadOnce, Increasing

LEMMA FillStep == ASSUME InputInv, Fill PROVE InputInv'
<1>1. PICK n \in 1..(MaxInput - position) :
         /\ ahead' = [k \in 1..n |-> position + k] /\ position' = position + n
  BY DEF Fill
<1>2. ahead = <<>> /\ handled' = handled /\ eaten' = eaten
  BY DEF Fill
<1>3. position \in Nat /\ n \in Nat /\ position' \in 0..MaxInput
  BY <1>1, AllRead, ConsoleAssumption
<1>4. /\ ahead' \in Seq(1..MaxInput) /\ ahead' \in Seq(Int)
      /\ Len(ahead') = n /\ \A k \in 1..n : ahead'[k] = position + k
  <2>1. \A k \in 1..n : position + k \in 1..MaxInput /\ position + k \in Int
    BY <1>1, <1>3, ConsoleAssumption
  <2>2. /\ [k \in 1..n |-> position + k] \in Seq(1..MaxInput)
        /\ [k \in 1..n |-> position + k] \in Seq(Int)
    BY <2>1, <1>3
  <2>3. Len([k \in 1..n |-> position + k]) = n
    BY <1>3
  <2> QED
    BY <2>2, <2>3, <1>1
<1>5. shellInput = handled
  BY <1>2 DEF shellInput, InputInv
<1>6. shellInput' = shellInput \o ahead'
  BY <1>2, <1>5 DEF shellInput
<1>7. /\ Increasing(shellInput')
      /\ Range(shellInput') = Range(shellInput) \cup ((position + 1)..(position + n))
  <2>1. /\ shellInput \in Seq(Int) /\ Increasing(shellInput)
        /\ \A k \in DOMAIN shellInput : shellInput[k] <= position
    BY AllRead
  <2> QED
    BY <2>1, <1>3, <1>4, <1>6, Lengthens, Zenon
<1>8. Range(shellInput) \cap Range(eaten) = {}
      /\ Range(shellInput) \cup Range(eaten) = 1..position
  BY DEF InputInv, EachReadOnce
<1>9. Range(shellInput') \cap Range(eaten') = {}
      /\ Range(shellInput') \cup Range(eaten') = 1..position'
  BY <1>1, <1>2, <1>3, <1>7, <1>8
<1> QED
  BY <1>2, <1>3, <1>4, <1>7, <1>9 DEF InputInv, EachReadOnce, Increasing

LEMMA EatStep == ASSUME InputInv, ProgramReads PROVE InputInv'
<1>1. /\ position < MaxInput /\ position' = position + 1
      /\ eaten' = Append(eaten, position + 1)
      /\ ahead' = ahead /\ handled' = handled
  BY DEF ProgramReads
<1>2. position \in Nat /\ position' \in 0..MaxInput /\ position + 1 \in 1..MaxInput
  BY <1>1, AllRead, ConsoleAssumption
<1> DEFINE x == <<position + 1>>
<1>3. x \in Seq(Int) /\ Len(x) = 1 /\ \A k \in 1..1 : x[k] = position + k
  BY <1>2
<1>4. eaten' = eaten \o x /\ eaten' \in Seq(1..MaxInput)
  BY <1>1, <1>2 DEF InputInv
<1> HIDE DEF x
<1>5. /\ Increasing(eaten')
      /\ Range(eaten') = Range(eaten) \cup ((position + 1)..(position + 1))
  <2>1. /\ eaten \in Seq(Int) /\ Increasing(eaten)
        /\ \A k \in DOMAIN eaten : eaten[k] <= position
    BY AllRead
  <2>2. 1 \in Nat
    OBVIOUS
  <2> QED
    BY <2>1, <2>2, <1>2, <1>3, <1>4, Lengthens, Zenon
<1>6. shellInput' = shellInput
  BY <1>1 DEF shellInput
<1>7. Range(shellInput) \cap Range(eaten) = {}
      /\ Range(shellInput) \cup Range(eaten) = 1..position
  BY DEF InputInv, EachReadOnce
<1>8. Range(shellInput') \cap Range(eaten') = {}
      /\ Range(shellInput') \cup Range(eaten') = 1..position'
  BY <1>1, <1>2, <1>5, <1>6, <1>7
<1>9. Increasing(shellInput')
  BY <1>6 DEF InputInv, EachReadOnce, Increasing
<1> QED
  BY <1>1, <1>2, <1>4, <1>5, <1>8, <1>9 DEF InputInv, EachReadOnce, Increasing

LEMMA InputInvInit == Init => InputInv
<1> SUFFICES ASSUME Init PROVE InputInv
  OBVIOUS
<1>1. /\ position = 0 /\ shellInput = <<>> /\ eaten = <<>>
      /\ ahead = <<>> /\ handled = <<>>
  BY DEF Init, shellInput
<1>2. Range(<<>>) = {} /\ 1..0 = {}
  BY DEF Range
<1> QED
  BY <1>1, <1>2, ConsoleAssumption DEF InputInv, EachReadOnce

LEMMA InputInvNext == InputInv /\ [Next]_vars => InputInv'
<1> SUFFICES ASSUME InputInv, [Next]_vars PROVE InputInv'
  OBVIOUS
<1>1. CASE UNCHANGED input
  BY <1>1 DEF input, InputInv, EachReadOnce, shellInput
<1>2. CASE Take
  BY <1>2, TakeStep
<1>3. CASE Fill
  BY <1>3, FillStep
<1>4. CASE ProgramReads
  BY <1>4, EatStep
<1>5. CASE WithinLine \/ NothingToRun \/ Reply \/ Quit \/ Yes \/ No
  BY <1>1, <1>2, <1>5 DEF WithinLine, NothingToRun, Reply, Quit, Yes, No
<1>6. CASE Greet \/ Prompt \/ Unbuildable \/ Echo \/ Confirm \/ WithoutChild \/ Fork
  BY <1>1, <1>6 DEF Greet, Prompt, Unbuildable, Echo, Confirm, WithoutChild, Fork, input
<1>7. CASE \/ Exec \/ ExecFails \/ ProgramWrites \/ ProgramEnds \/ Waited \/ Overflow
           \/ UNCHANGED vars
  BY <1>1, <1>7 DEF Exec, ExecFails, ProgramWrites, ProgramEnds, Waited, Overflow, vars,
                    input
<1> QED
  BY <1>3, <1>4, <1>5, <1>6, <1>7 DEF Next, Terminated, Full

(***************************************************************************)
(* Nothing typed is acted on twice and nothing is lost between the shell,  *)
(* the copies a fork makes of its buffer and the programs that read the    *)
(* same file (command.cpp:190-199), however long the input.                *)
(***************************************************************************)
THEOREM InputReadOnce == Spec => []EachReadOnce
<1>1. InputInv => EachReadOnce
  BY DEF InputInv
<1> QED
  BY <1>1, InputInvInit, InputInvNext, PTL DEF Spec

-------------------------------------------------------------------------------
(***************************************************************************)
(* The texts of the shell on a screen, text by text and then for a buffer  *)
(* that is written out in one go.                                          *)
(***************************************************************************)
OwnOf(s) == FoldLeft(KeepOwn, <<>>, s)

Screen == INSTANCE FoldProofs WITH Op <- KeepOwn, Base <- <<>>

LEMMA OwnOfNone == OwnOf(<<>>) = <<>>
  BY Screen!FoldEmpty, Zenon
     DEF OwnOf, Screen!Fold, FoldLeft, Screen!FoldLeft, MapThenFoldSet,
         Screen!MapThenFoldSet, Max, Screen!Max

LEMMA OwnOfOneMore ==
    ASSUME NEW s \in Seq(Entries), NEW e \in Entries
    PROVE  OwnOf(Append(s, e)) = KeepOwn(OwnOf(s), e)
  BY Screen!FoldAppend, Zenon
     DEF OwnOf, Screen!Fold, FoldLeft, Screen!FoldLeft, MapThenFoldSet,
         Screen!MapThenFoldSet, Max, Screen!Max

LEMMA OneMore ==
    ASSUME NEW S, NEW s \in Seq(S), NEW n \in Nat, n + 1 <= Len(s)
    PROVE  /\ s[n + 1] \in S
           /\ SubSeq(s, 1, n) \in Seq(S)
           /\ SubSeq(s, 1, n + 1) = Append(SubSeq(s, 1, n), s[n + 1])
<1> DEFINE a == SubSeq(s, 1, n + 1)
           b == SubSeq(s, 1, n)
           c == Append(b, s[n + 1])
<1>1. n + 1 \in 1..Len(s) /\ s[n + 1] \in S
  OBVIOUS
<1>2. a \in Seq(S) /\ Len(a) = n + 1 /\ \A k \in 1..(n + 1) : a[k] = s[k]
  BY <1>1
<1>3. b \in Seq(S) /\ Len(b) = n /\ \A k \in 1..n : b[k] = s[k]
  BY <1>1
<1> HIDE DEF b
<1>4. c \in Seq(S) /\ Len(c) = n + 1 /\ c[n + 1] = s[n + 1]
      /\ \A k \in 1..n : c[k] = b[k]
  BY <1>1, <1>3
<1> HIDE DEF a, c
<1>5. \A k \in 1..(n + 1) : a[k] = c[k]
  BY <1>2, <1>3, <1>4
<1>6. a = c
  BY <1>2, <1>4, <1>5
<1> QED
  BY <1>1, <1>3, <1>6 DEF a, b, c

LEMMA JoinedMore ==
    ASSUME NEW S, NEW a \in Seq(S), NEW b \in Seq(S), NEW e \in S
    PROVE  a \o Append(b, e) = Append(a \o b, e)
<1>1. Append(b, e) = b \o <<e>> /\ Append(a \o b, e) = (a \o b) \o <<e>>
  <2>1. a \o b \in Seq(S)
    OBVIOUS
  <2> QED
    BY <2>1, AppendIsConcat
<1>2. (a \o b) \o <<e>> = a \o (b \o <<e>>)
  <2> DEFINE c == <<e>>
  <2>1. c \in Seq(S)
    OBVIOUS
  <2> HIDE DEF c
  <2>2. (a \o b) \o c = a \o (b \o c)
    BY <2>1, ConcatAssociative
  <2> QED
    BY <2>2 DEF c
<1> QED
  BY <1>1, <1>2

LEMMA JoinedNone ==
    ASSUME NEW S, NEW a \in Seq(S)
    PROVE  a \o <<>> = a /\ SubSeq(a, 1, Len(a)) = a /\ SubSeq(a, 1, 0) = <<>>
  OBVIOUS

LEMMA OwnAreTexts ==
    ASSUME NEW s \in Seq(Entries)
    PROVE  OwnOf(s) \in Seq(Entries)
<1> DEFINE P == {n \in Nat : n <= Len(s) => OwnOf(SubSeq(s, 1, n)) \in Seq(Entries)}
<1>1. 0 \in P
  <2>1. SubSeq(s, 1, 0) = <<>> /\ <<>> \in Seq(Entries)
    BY JoinedNone
  <2> QED
    BY <2>1, OwnOfNone
<1>2. \A n \in P : n + 1 \in P
  <2> SUFFICES ASSUME NEW n \in P, n + 1 <= Len(s)
               PROVE  OwnOf(SubSeq(s, 1, n + 1)) \in Seq(Entries)
    OBVIOUS
  <2> DEFINE b == SubSeq(s, 1, n)
             e == s[n + 1]
  <2>1. n \in Nat /\ n <= Len(s)
    OBVIOUS
  <2>2. e \in Entries /\ b \in Seq(Entries) /\ SubSeq(s, 1, n + 1) = Append(b, e)
    BY <2>1, OneMore
  <2>3. OwnOf(b) \in Seq(Entries)
    BY <2>1
  <2> HIDE DEF b, e, P
  <2>4. OwnOf(Append(b, e)) = KeepOwn(OwnOf(b), e)
    BY <2>2, OwnOfOneMore
  <2>5. KeepOwn(OwnOf(b), e) \in Seq(Entries)
    BY <2>2, <2>3 DEF KeepOwn
  <2> QED
    BY <2>2, <2>4, <2>5
<1>3. P = Nat
  <2> HIDE DEF P
  <2>1. P \in SUBSET Nat
    BY DEF P
  <2> QED
    BY <1>1, <1>2, <2>1, Screen!Induction
<1>4. Len(s) \in P /\ Len(s) <= Len(s)
  <2> HIDE DEF P
  <2> QED
    BY <1>3
<1>5. OwnOf(SubSeq(s, 1, Len(s))) \in Seq(Entries)
  BY <1>4
<1> QED
  BY <1>5, JoinedNone, Zenon

LEMMA OwnOfMore ==
    ASSUME NEW s \in Seq(Entries), NEW x, OwnTexts(x)
    PROVE  OwnOf(s \o x) = OwnOf(s) \o x
<1>1. x \in Seq(Entries) /\ \A k \in 1..Len(x) : x[k].what # "output"
  BY DEF OwnTexts
<1>2. OwnOf(s) \in Seq(Entries)
  BY OwnAreTexts
<1> DEFINE P == {n \in Nat : n <= Len(x) =>
                    OwnOf(s \o SubSeq(x, 1, n)) = OwnOf(s) \o SubSeq(x, 1, n)}
<1>3. 0 \in P
  <2>1. SubSeq(x, 1, 0) = <<>> /\ s \o <<>> = s /\ OwnOf(s) \o <<>> = OwnOf(s)
    BY <1>1, <1>2, JoinedNone
  <2> QED
    BY <2>1
<1>4. \A n \in P : n + 1 \in P
  <2> SUFFICES ASSUME NEW n \in P, n + 1 <= Len(x)
               PROVE  OwnOf(s \o SubSeq(x, 1, n + 1)) = OwnOf(s) \o SubSeq(x, 1, n + 1)
    OBVIOUS
  <2> DEFINE b == SubSeq(x, 1, n)
             e == x[n + 1]
  <2>1. n \in Nat /\ n <= Len(x) /\ n + 1 \in 1..Len(x)
    BY <1>1
  <2>2. e \in Entries /\ b \in Seq(Entries) /\ SubSeq(x, 1, n + 1) = Append(b, e)
    BY <1>1, <2>1, OneMore
  <2>3. e.what # "output" /\ OwnOf(s \o b) = OwnOf(s) \o b
    BY <1>1, <2>1
  <2> HIDE DEF b, e, P
  <2>4. s \o Append(b, e) = Append(s \o b, e)
        /\ OwnOf(s) \o Append(b, e) = Append(OwnOf(s) \o b, e)
    <3>1. s \o Append(b, e) = Append(s \o b, e)
      BY <2>2, JoinedMore
    <3> DEFINE own == OwnOf(s)
    <3>2. own \in Seq(Entries)
      BY <1>2
    <3> HIDE DEF own
    <3>3. own \o Append(b, e) = Append(own \o b, e)
      BY <2>2, <3>2, JoinedMore
    <3> QED
      BY <3>1, <3>3 DEF own
  <2>5. OwnOf(Append(s \o b, e)) = KeepOwn(OwnOf(s \o b), e)
    <3>1. s \o b \in Seq(Entries)
      BY <2>2
    <3> QED
      BY <2>2, <3>1, OwnOfOneMore
  <2>6. KeepOwn(OwnOf(s \o b), e) = Append(OwnOf(s) \o b, e)
    BY <2>3 DEF KeepOwn
  <2> QED
    BY <2>2, <2>4, <2>5, <2>6
<1>5. P = Nat
  <2> HIDE DEF P
  <2>1. P \in SUBSET Nat
    BY DEF P
  <2> QED
    BY <1>3, <1>4, <2>1, Screen!Induction
<1>6. Len(x) \in P /\ Len(x) <= Len(x)
  <2> HIDE DEF P
  <2> QED
    BY <1>1, <1>5
<1>7. OwnOf(s \o SubSeq(x, 1, Len(x))) = OwnOf(s) \o SubSeq(x, 1, Len(x))
  BY <1>6
<1>8. SubSeq(x, 1, Len(x)) = x
  BY <1>1, JoinedNone, Zenon
<1> QED
  BY <1>7, <1>8

(***************************************************************************)
(* Steps that write, that write out a full buffer and that write another's.*)
(***************************************************************************)
LEMMA WriteInOrder ==
    ASSUME IInv, OnceInOrder, NEW what \in Kinds, what # "output",
           NEW flushed \in BOOLEAN, nth' \in Nat, Write(what, flushed)
    PROVE  OnceInOrder'
<1> DEFINE e == Text(what)
           own == OwnOf(screen)
<1>1. e \in Entries /\ e.what # "output"
  BY DEF Text, Entries, IInv
<1>2. screen \in Seq(Entries) /\ OwnTexts(buffer) /\ buffer \in Seq(Entries)
  BY DEF IInv, OwnTexts
<1>3. own \in Seq(Entries) /\ own \o buffer = written
  BY <1>2, OwnAreTexts DEF OnceInOrder, OwnOf
<1>4. own \o Append(buffer, e) = written' /\ written' = Append(written, e)
  <2>1. written' = Append(written, e)
    BY DEF Write
  <2> HIDE DEF e, own
  <2>2. own \o Append(buffer, e) = Append(own \o buffer, e)
    BY <1>1, <1>2, <1>3, JoinedMore
  <2> QED
    BY <1>3, <2>1, <2>2
<1>5. CASE flushed
  <2>1. screen' = screen \o Append(buffer, e) /\ buffer' = <<>>
    BY <1>5 DEF Write, Flush
  <2> HIDE DEF e
  <2> DEFINE b == Append(buffer, e)
  <2>2. b \in Seq(Entries) /\ Len(b) = Len(buffer) + 1 /\ Len(buffer) \in Nat
        /\ b[Len(buffer) + 1] = e /\ \A k \in 1..Len(buffer) : b[k] = buffer[k]
    BY <1>1, <1>2
  <2> HIDE DEF b
  <2>3. OwnTexts(b)
    <3>1. \A k \in DOMAIN b : k \in 1..Len(buffer) \/ k = Len(buffer) + 1
      BY <2>2
    <3> QED
      BY <3>1, <1>1, <1>2, <2>2 DEF OwnTexts
  <2>4. OwnOf(screen \o b) = own \o b
    BY <1>2, <2>3, OwnOfMore
  <2>5. own \o b \in Seq(Entries)
    BY <1>3, <2>2
  <2>6. (own \o b) \o <<>> = own \o b
    BY <2>5, JoinedNone
  <2>7. OwnOf(screen') = own \o b
    BY <2>1, <2>4 DEF b
  <2>8. own \o b = written'
    BY <1>4 DEF b
  <2> QED
    BY <2>1, <2>6, <2>7, <2>8 DEF OnceInOrder, OwnOf
<1>6. CASE ~flushed
  <2>1. screen' = screen /\ buffer' = Append(buffer, e)
    BY <1>6 DEF Write
  <2> QED
    BY <1>4, <2>1 DEF OnceInOrder, OwnOf
<1> QED
  BY <1>5, <1>6

LEMMA OverflowInOrder == ASSUME IInv, OnceInOrder, Overflow PROVE OnceInOrder'
<1>1. screen' = screen \o buffer /\ buffer' = <<>> /\ written' = written
  BY DEF Overflow, Flush
<1>2. screen \in Seq(Entries) /\ OwnTexts(buffer) /\ buffer \in Seq(Entries)
  BY DEF IInv, OwnTexts
<1>3. OwnOf(screen') = OwnOf(screen) \o buffer
  BY <1>1, <1>2, OwnOfMore
<1>4. OwnOf(screen) \o buffer = written
  BY DEF OnceInOrder, OwnOf
<1>5. written \o <<>> = written
  BY JoinedNone DEF IInv
<1> QED
  BY <1>1, <1>3, <1>4, <1>5 DEF OnceInOrder, OwnOf

LEMMA OutputInOrder == ASSUME IInv, OnceInOrder, ProgramWrites PROVE OnceInOrder'
<1>1. screen' = Append(screen, ProgramOutput) /\ UNCHANGED <<written, buffer>>
  BY DEF ProgramWrites
<1>2. ProgramOutput \in Entries /\ ProgramOutput.what = "output"
  BY DEF ProgramOutput, Entries, Kinds, IInv
<1>3. OwnOf(screen') = OwnOf(screen)
  <2>1. screen \in Seq(Entries)
    BY DEF IInv
  <2>2. OwnOf(Append(screen, ProgramOutput)) = KeepOwn(OwnOf(screen), ProgramOutput)
    BY <1>2, <2>1, OwnOfOneMore
  <2> QED
    BY <1>1, <1>2, <2>2 DEF KeepOwn
<1> QED
  BY <1>1, <1>3 DEF OnceInOrder, OwnOf

(***************************************************************************)
(* Every step that writes a text of the shell.                             *)
(***************************************************************************)
LEMMA EveryWrite ==
    ASSUME IInv, OnceInOrder, NEW what \in Kinds \ {"output"}, nth' \in Nat,
           Says(what) \/ Write(what, TRUE)
    PROVE  OnceInOrder'
<1>1. what \in Kinds /\ what # "output" /\ TRUE \in BOOLEAN /\ terminal \in BOOLEAN
  BY DEF IInv
<1>2. CASE Write(what, TRUE)
  BY <1>1, <1>2, WriteInOrder, Zenon
<1>3. CASE Write(what, terminal)
  BY <1>1, <1>3, WriteInOrder, Zenon
<1> QED
  BY <1>2, <1>3 DEF Says

LEMMA InOrderNext == IInv /\ OnceInOrder /\ [Next]_vars => OnceInOrder'
<1> SUFFICES ASSUME IInv, OnceInOrder, [Next]_vars PROVE OnceInOrder'
  OBVIOUS
<1>1. CASE UNCHANGED output
  BY <1>1 DEF output, OnceInOrder
<1>2. nth \in Nat
  BY DEF IInv
<1>3. {"greeting", "prompt", "message", "echo", "confirm", "failed", "end"}
         \subseteq Kinds \ {"output"}
  BY DEF Kinds
<1>4. CASE Greet
  BY <1>2, <1>3, <1>4, EveryWrite DEF Greet, run
<1>5. CASE Prompt
  BY <1>2, <1>3, <1>5, EveryWrite DEF Prompt, Prompts, run
<1>6. CASE NothingToRun
  BY <1>1, <1>2, <1>3, <1>6, EveryWrite DEF NothingToRun, run
<1>7. CASE Quit
  BY <1>2, <1>3, <1>7, EveryWrite DEF Quit, run
<1>8. CASE Unbuildable
  BY <1>2, <1>3, <1>8, EveryWrite DEF Unbuildable, run
<1>9. CASE Echo
  <2>1. nth' \in Nat
    BY <1>2, <1>9 DEF Echo
  <2> QED
    BY <2>1, <1>3, <1>9, EveryWrite DEF Echo
<1>10. CASE Confirm
  BY <1>2, <1>3, <1>10, EveryWrite DEF Confirm, Prompts, run
<1>11. CASE WithoutChild \/ Waited
  <2>1. nth' = nth /\ Returns
    BY <1>11 DEF WithoutChild, Waited, run
  <2> QED
    BY <1>1, <1>2, <1>3, <2>1, EveryWrite DEF Returns
<1>12. CASE \/ Fill \/ WithinLine \/ Reply \/ Yes \/ No \/ Fork \/ Exec \/ ExecFails
            \/ ProgramReads \/ ProgramEnds \/ UNCHANGED vars
  BY <1>1, <1>12 DEF Fill, WithinLine, Reply, Yes, No, Fork, Exec, ExecFails,
                     ProgramReads, ProgramEnds, vars
<1>13. CASE Overflow
  BY <1>13, OverflowInOrder
<1>14. CASE ProgramWrites
  BY <1>14, OutputInOrder
<1> QED
  BY <1>4, <1>5, <1>6, <1>7, <1>8, <1>9, <1>10, <1>11, <1>12, <1>13, <1>14
     DEF Next, Terminated, Full

(***************************************************************************)
(* Everything the shell writes comes out once and in the order in which it *)
(* was written, in sessions of any length: a fork copies the buffer, and   *)
(* the child never writes out its copy (command.cpp:190-199).              *)
(***************************************************************************)
THEOREM NothingTwiceNothingLost == Spec => []OnceInOrder
<1>1. Init => OnceInOrder
  <2> SUFFICES ASSUME Init PROVE OnceInOrder
    OBVIOUS
  <2>1. screen = <<>> /\ buffer = <<>> /\ written = <<>>
    BY DEF Init
  <2>2. OwnOf(<<>>) \o <<>> = <<>>
    BY OwnOfNone
  <2> QED
    BY <2>1, <2>2 DEF OnceInOrder, OwnOf
<1> QED
  BY <1>1, InOrderNext, Invariance, PTL DEF Spec

-------------------------------------------------------------------------------
(***************************************************************************)
(* The steps of the shell, and what a child may be while it waits.         *)
(***************************************************************************)
Where ==
    /\ pc \in {"start", "prompt", "read", "call", "confirm", "answer", "execute",
               "wait", "quit"}
    /\ child \in {"none", "forked", "running", "gone"}
    /\ copy.output \in Seq(Entries) /\ copy.input \in Seq(1..MaxInput)

LEMMA WhereNext == IInv /\ InputInv /\ Where /\ [Next]_vars => Where'
<1> SUFFICES ASSUME IInv, InputInv, Where, [Next]_vars PROVE Where'
  OBVIOUS
<1>1. NoCopy.output \in Seq(Entries) /\ NoCopy.input \in Seq(1..MaxInput)
  BY DEF NoCopy
<1>2. buffer \in Seq(Entries) /\ ahead \in Seq(1..MaxInput)
  BY DEF IInv, OwnTexts, InputInv
<1>3. CASE \/ Greet \/ Prompt \/ Fill \/ WithinLine \/ NothingToRun \/ Reply \/ Quit
           \/ Unbuildable \/ Confirm \/ No \/ WithoutChild
  BY <1>3 DEF Where, Greet, Prompt, Fill, WithinLine, NothingToRun, Reply, Quit,
              Unbuildable, Confirm, No, WithoutChild, Returns, run
<1>4. CASE Echo \/ Yes \/ Waited \/ ProgramEnds
  BY <1>4 DEF Where, Echo, Yes, Waited, ProgramEnds, Returns
<1>5. CASE Fork
  BY <1>2, <1>5 DEF Where, Fork
<1>6. CASE Exec \/ ExecFails
  BY <1>1, <1>6 DEF Where, Exec, ExecFails, ChildBecomes
<1>7. CASE ProgramWrites \/ ProgramReads \/ Overflow \/ UNCHANGED vars
  BY <1>7 DEF Where, ProgramWrites, ProgramReads, Overflow, vars, run
<1> QED
  BY <1>3, <1>4, <1>5, <1>6, <1>7 DEF Next, Terminated, Full

(***************************************************************************)
(* Every variable keeps to its type, whatever is written and read, and no  *)
(* child lives while the shell does anything but wait for it               *)
(* (command.cpp:208-211).                                                  *)
(***************************************************************************)
THEOREM TypeCorrect == Spec => []TypeOK
<1>1. Init => Where
  <2>1. NoCopy.output \in Seq(Entries) /\ NoCopy.input \in Seq(1..MaxInput)
    BY DEF NoCopy
  <2> QED
    BY <2>1 DEF Init, Where
<1>2. IInv /\ InputInv /\ Where => TypeOK
  <2> SUFFICES ASSUME IInv, InputInv, Where PROVE TypeOK
    OBVIOUS
  <2>1. Texts = Seq(Entries)
    BY DEF Texts, Entries
  <2>2. {written, buffer, screen, copy.output} \subseteq Texts
    BY <2>1 DEF IInv, OwnTexts, Where
  <2>3. {ahead, handled, eaten, copy.input} \subseteq Seq(1..MaxInput)
    BY DEF InputInv, Where
  <2> QED
    BY <2>2, <2>3 DEF TypeOK, IInv, InputInv, Where
<1> QED
  BY <1>1, <1>2, WhereNext, IInvInit, IInvNext, InputInvInit, InputInvNext, PTL DEF Spec
===============================================================================
