---------------------------- MODULE ShellProofs ----------------------------
(***************************************************************************)
(* Proofs about CactusShell, for every catalog, reply, directory, line and *)
(* bound.                                                                  *)
(***************************************************************************)
EXTENDS CactusShell, FiniteSetTheorems, TLAPS

USE ShellAssumption

(***************************************************************************)
(* The shell starts with every variable of its type.                       *)
(***************************************************************************)
LEMMA TypeInit == Init => TypeOK
<1> SUFFICES ASSUME Init PROVE TypeOK
  OBVIOUS
<1>1. Execution!TypeOK
  BY DEF Init, Execution!Init, Execution!TypeOK, Execution!Results
<1>2. files \in [Places -> Catalogs \cup {Broken, Absent}]
  BY DEF Init
<1>3. typed \in 0..MaxLines /\ edits \in 0..MaxEdits
  BY DEF Init
<1> QED
  BY <1>1, <1>2, <1>3 DEF Init, TypeOK

(***************************************************************************)
(* What execute's promise changes stays of its type.                       *)
(***************************************************************************)
LEMMA ProgramTypes == Execution!TypeOK /\ [Execution!Next]_program => Execution!TypeOK'
  BY DEF Execution!TypeOK, Execution!Next, Execution!Refuse, Execution!Request,
         Execution!NotStarted, Execution!KilledEarly, Execution!Start,
         Execution!End, Execution!Return, Execution!Results, Execution!NoResult,
         Execution!Statuses, Execution!Fail, Execution!Status, program

(***************************************************************************)
(* Every step keeps every variable to its type.                            *)
(***************************************************************************)
LEMMA TypeNext == TypeOK /\ [Next]_vars => TypeOK'
<1> SUFFICES ASSUME TypeOK, [Next]_vars PROVE TypeOK'
  OBVIOUS
<1> USE DEF TypeOK, Execution!TypeOK, ReadLine, Abandon, BackToPrompt, Moved, Target,
            input, config, catalog, client, reply, program
<1>1. ASSUME NEW line \in Lines, UserTypes(line) PROVE TypeOK'
  <2>1. CASE Blank(line)
    BY <2>1 DEF Blank
  <2>2. CASE Exit(line)
    BY <2>2 DEF Exit
  <2>3. CASE Cd(line)
    BY <2>3 DEF Cd
  <2>4. CASE Request(line)
    BY <2>4 DEF Request
  <2>5. CASE Confirm(line)
    BY <2>5 DEF Confirm
  <2>6. CASE Decline(line)
    BY <2>6 DEF Decline
  <2> QED
    BY <1>1, <2>1, <2>2, <2>3, <2>4, <2>5, <2>6 DEF UserTypes
<1>2. CASE EndOfInput
  BY <1>2 DEF EndOfInput
<1>3. CASE EofDeclines
  BY <1>3 DEF EofDeclines
<1>4. CASE LoadCatalog
  BY <1>4 DEF LoadCatalog
<1>5. CASE NoCatalogFound
  BY <1>5 DEF NoCatalogFound
<1>6. CASE HasCatalog
  BY <1>6 DEF HasCatalog
<1>7. CASE LoadModel
  BY <1>7 DEF LoadModel
<1>8. CASE NoModel
  BY <1>8 DEF NoModel
<1>9. CASE HasModel
  BY <1>9 DEF HasModel
<1>10. CASE Ask
  BY <1>10 DEF Ask
<1>11. CASE RunCall
  BY <1>11 DEF RunCall
<1>12. CASE Unbuildable
  BY <1>12 DEF Unbuildable
<1>13. CASE ReplyDone
  BY <1>13 DEF ReplyDone
<1>14. CASE StartCd
  BY <1>14 DEF StartCd
<1>15. CASE StartProgram
  <2>1. Execution!TypeOK'
    BY <1>15, ProgramTypes DEF StartProgram, Execution!Next
  <2> QED
    BY <1>15, <2>1 DEF StartProgram
<1>16. CASE Executing
  <2>1. Execution!TypeOK'
    BY <1>16, ProgramTypes DEF Executing, Execution!Next
  <2> QED
    BY <1>16, <2>1 DEF Executing
<1>17. CASE ProgramEnds
  <2>1. Execution!TypeOK'
    BY <1>17, ProgramTypes DEF ProgramEnds, Execution!Next
  <2> QED
    BY <1>17, <2>1 DEF ProgramEnds
<1>18. CASE Finish
  BY <1>18 DEF Finish
<1>19. CASE \E p \in Places, x \in Catalogs \cup {Broken, Absent} : Edit(p, x)
  BY <1>19 DEF Edit
<1>20. CASE UNCHANGED vars
  BY <1>20 DEF vars, Execution!TypeOK
<1> QED
  BY <1>1, <1>2, <1>3, <1>4, <1>5, <1>6, <1>7, <1>8, <1>9, <1>10,
     <1>11, <1>12, <1>13, <1>14, <1>15, <1>16, <1>17, <1>18, <1>19, <1>20
     DEF Next, ShellStep, Terminated

(***************************************************************************)
(* So every variable of the shell keeps to its type.                       *)
(***************************************************************************)
THEOREM TypeCorrect == Spec => []TypeOK
  BY TypeInit, TypeNext, PTL DEF Spec

(***************************************************************************)
(* The number of risky commands of a sequence is a number.                 *)
(***************************************************************************)
LEMMA RiskyInNat ==
    ASSUME NEW s \in Seq(Begins)
    PROVE  /\ IsFiniteSet({i \in DOMAIN s : s[i].risky})
           /\ RiskyIn(s) \in Nat
<1>1. IsFiniteSet(1..Len(s))
  <2>1. 1 \in Int /\ Len(s) \in Int
    OBVIOUS
  <2> QED
    BY <2>1, FS_Interval, Zenon
<1>2. {i \in DOMAIN s : s[i].risky} \subseteq 1..Len(s)
  OBVIOUS
<1> QED
  BY <1>1, <1>2, FS_Subset, FS_CardinalityType DEF RiskyIn

(***************************************************************************)
(* It grows by one with a risky command, and not with another.             *)
(***************************************************************************)
LEMMA RiskyInAppend ==
    ASSUME NEW s \in Seq(Begins), NEW x \in Begins
    PROVE  RiskyIn(Append(s, x)) = IF x.risky THEN RiskyIn(s) + 1 ELSE RiskyIn(s)
<1> DEFINE Old == {i \in DOMAIN s : s[i].risky}
           New == {i \in DOMAIN Append(s, x) : Append(s, x)[i].risky}
<1>1. Len(s) + 1 \notin Old /\ IsFiniteSet(Old)
  BY RiskyInNat
<1>2. New = IF x.risky THEN Old \cup {Len(s) + 1} ELSE Old
  BY DEF Begins
<1>3. Cardinality(Old \cup {Len(s) + 1}) = Cardinality(Old) + 1
  BY <1>1, FS_AddElement
<1> QED
  BY <1>2, <1>3 DEF RiskyIn

(***************************************************************************)
(* How a command did does not count.                                       *)
(***************************************************************************)
LEMMA RiskyInSame ==
    ASSUME NEW s \in Seq(Begins), NEW t \in Seq(Begins), Len(s) = Len(t),
           \A i \in 1..Len(s) : s[i].risky = t[i].risky
    PROVE  RiskyIn(s) = RiskyIn(t)
<1>1. {i \in DOMAIN s : s[i].risky} = {i \in DOMAIN t : t[i].risky}
  OBVIOUS
<1> QED
  BY <1>1 DEF RiskyIn

(***************************************************************************)
(* Starting a command adds it to what ran, under the catalog the model was *)
(* shown and, if it is risky, with a yes of its own.                       *)
(***************************************************************************)
LEMMA Starting ==
    ASSUME IInv, pc = "start", NEW how \in {"going", "ok", "failed"},
           ran' = Begun(how)
    PROVE  /\ ran' \in Seq(Begins) /\ Len(ran') = Len(ran) + 1
           /\ \A i \in 1..Len(ran) : ran'[i] = ran[i]
           /\ ran'[Len(ran) + 1].call = answer.calls[Len(ran) + 1]
           /\ ran'[Len(ran) + 1].how = how
           /\ ran'[Len(ran) + 1].program = answer.tools[command.call.name].program
           /\ ran'[Len(ran) + 1].risky = answer.tools[command.call.name].risky
           /\ ran'[Len(ran) + 1].call = command.call
           /\ ConfirmRisky => RiskyIn(ran') <= yeses
<1> DEFINE x == [call |-> command.call, program |-> command.program,
                 risky |-> command.risky, how |-> how]
<1>1. x \in Begins /\ ran \in Seq(Begins)
  BY DEF IInv, ReplyTypes, Begins
<1>2. ran' = Append(ran, x)
  BY DEF Begun
<1>3. /\ ran' \in Seq(Begins) /\ Len(ran') = Len(ran) + 1
      /\ \A i \in 1..Len(ran) : ran'[i] = ran[i]
      /\ ran'[Len(ran) + 1] = x
  BY <1>1, <1>2
<1>4. command.call = answer.calls[Len(ran) + 1]
  BY DEF IInv, Progress, Taken
<1>5. /\ command.program = answer.tools[command.call.name].program
      /\ command.risky = answer.tools[command.call.name].risky
  BY DEF IInv, Offer, Calling
<1>6. ConfirmRisky => RiskyIn(ran') <= yeses
  <2>1. RiskyIn(ran') = IF command.risky THEN RiskyIn(ran) + 1 ELSE RiskyIn(ran)
    BY <1>1, <1>2, RiskyInAppend
  <2> QED
    BY <2>1 DEF IInv, Consent, RiskyNeedsOwnYes
<1> QED
  BY <1>3, <1>4, <1>5, <1>6

(***************************************************************************)
(* The invariant holds when the shell starts.                              *)
(***************************************************************************)
LEMMA IInvInit == Init => IInv
<1> SUFFICES ASSUME Init PROVE IInv
  OBVIOUS
<1>1. RiskyIn(<<>>) = 0
  <2>1. {i \in DOMAIN <<>> : <<>>[i].risky} = {}
    OBVIOUS
  <2> QED
    BY <2>1, FS_EmptySet DEF RiskyIn
<1>2. ReplyTypes /\ Readiness /\ Progress /\ Offer /\ Consent
  BY DEF Init, ReplyTypes, Readiness, Progress, Offer, Consent, Asking, Calling, Begins
<1>3. StopsAtFirstFailure /\ RanAsOffered /\ RiskyNeedsOwnYes
  BY <1>1 DEF Init, StopsAtFirstFailure, RanAsOffered, RiskyNeedsOwnYes
<1> QED
  BY <1>2, <1>3 DEF IInv

(***************************************************************************)
(* A typed line preserves it: most leave what a request holds alone, a new *)
(* request starts with nothing run, and a yes licenses one command.        *)
(***************************************************************************)
LEMMA LineStep ==
    ASSUME IInv, NEW line \in Lines, UserTypes(line)
    PROVE  IInv'
<1> USE DEF IInv, ReplyTypes, Readiness, Progress, Offer, Consent, Asking, Calling,
            Taken, StopsAtFirstFailure, RanAsOffered, RiskyNeedsOwnYes, ReadLine,
            Abandon, BackToPrompt, input, config, catalog, client, reply, program
<1>1. CASE Blank(line) \/ Exit(line) \/ Cd(line)
  BY <1>1 DEF Blank, Exit, Cd
<1>2. CASE Decline(line)
  BY <1>2 DEF Decline
<1>3. CASE Request(line)
  <2>1. ran' = <<>> /\ <<>> \in Seq(Begins) /\ RiskyIn(ran') = 0 /\ yeses' = 0
    <3>1. {i \in DOMAIN <<>> : <<>>[i].risky} = {}
      OBVIOUS
    <3> QED
      BY <1>3, <3>1, FS_EmptySet DEF RiskyIn, Request
  <2> QED
    BY <1>3, <2>1 DEF Request
<1>4. CASE Confirm(line)
  <2>1. RiskyIn(ran) \in Nat /\ RiskyIn(ran') = RiskyIn(ran)
    BY <1>4, RiskyInNat DEF Confirm
  <2> QED
    BY <1>4, <2>1 DEF Confirm
<1> QED
  BY <1>1, <1>2, <1>3, <1>4 DEF UserTypes

(***************************************************************************)
(* The steps up to the question, and those that end a reply.               *)
(***************************************************************************)
LEMMA QuietStep ==
    ASSUME IInv,
           \/ EndOfInput \/ EofDeclines \/ LoadCatalog \/ NoCatalogFound \/ HasCatalog
           \/ LoadModel \/ NoModel \/ HasModel
           \/ Unbuildable \/ ReplyDone \/ Executing \/ ProgramEnds
    PROVE  IInv'
<1> USE DEF IInv, ReplyTypes, Readiness, Progress, Offer, Consent, Asking, Calling,
            Taken, StopsAtFirstFailure, RanAsOffered, RiskyNeedsOwnYes, RiskyIn,
            Abandon, BackToPrompt, input, config, catalog, client, reply, program
<1>1. CASE EndOfInput
  BY <1>1 DEF EndOfInput
<1>2. CASE EofDeclines
  BY <1>2 DEF EofDeclines
<1>3. CASE LoadCatalog
  BY <1>3 DEF LoadCatalog
<1>4. CASE NoCatalogFound
  BY <1>4 DEF NoCatalogFound
<1>5. CASE HasCatalog
  BY <1>5 DEF HasCatalog
<1>6. CASE LoadModel
  BY <1>6 DEF LoadModel
<1>7. CASE NoModel
  BY <1>7 DEF NoModel
<1>8. CASE HasModel
  BY <1>8 DEF HasModel
<1>9. CASE Unbuildable
  BY <1>9 DEF Unbuildable
<1>10. CASE ReplyDone
  BY <1>10 DEF ReplyDone
<1>11. CASE Executing
  BY <1>11 DEF Executing
<1>12. CASE ProgramEnds
  BY <1>12 DEF ProgramEnds
<1> QED
  BY <1>1, <1>2, <1>3, <1>4, <1>5, <1>6,
     <1>7, <1>8, <1>9, <1>10, <1>11, <1>12

(***************************************************************************)
(* The question is asked of a loaded client, with the schema of the        *)
(* catalog in force; its answer is all still to run.                       *)
(***************************************************************************)
LEMMA AskStep == IInv /\ Ask => IInv'
<1> SUFFICES ASSUME IInv, Ask PROVE IInv'
  OBVIOUS
<1>1. /\ mLoaded /\ mCatalogReady /\ mModelReady /\ pc = "ask" /\ ran = <<>>
      /\ UNCHANGED <<mLoaded, mModelReady, mCatalog, mCatalogReady, ran, yeses, command>>
  BY DEF Ask, IInv, Readiness, Progress, Asking, catalog
<1>2. /\ answer'.outcome # "NotLoaded"
      /\ answer'.tools = mCatalog
      /\ answer'.calls \in Seq(Calls)
  <2>1. Client!Ask("mClient", mCatalog)
    BY DEF Ask
  <2>2. \E outcome, saw, cs :
           /\ answer' = Client!Answer("mClient", mCatalog, outcome, saw, cs)
           /\ outcome # "NotLoaded"
           /\ cs \in Seq(Calls)
    <3>1. \A r \in Replies : r.calls \in Seq(Calls)
      OBVIOUS
    <3>2. <<>> \in Seq(Calls)
      OBVIOUS
    <3>3. [c \in {"mClient"} |-> mLoaded]["mClient"] = mLoaded
      OBVIOUS
    <3>4. \/ \E e \in Client!Errors : answer' =
                Client!Answer("mClient", mCatalog, e, Client!Unset, <<>>)
          \/ \E r \in Replies : answer' =
                Client!Answer("mClient", mCatalog, "reply",
                              Client!Key("facts", mCatalog), r.calls)
      BY <1>1, <2>1, <3>3 DEF Client!Ask
    <3>5. CASE \E e \in Client!Errors : answer' =
                Client!Answer("mClient", mCatalog, e, Client!Unset, <<>>)
      BY <3>2, <3>5 DEF Client!Errors
    <3>6. CASE \E r \in Replies : answer' =
                Client!Answer("mClient", mCatalog, "reply",
                              Client!Key("facts", mCatalog), r.calls)
      BY <3>1, <3>6
    <3> QED
      BY <3>4, <3>5, <3>6
  <2> QED
    BY <2>2 DEF Client!Answer
<1>3. calls' = answer'.calls /\ pc' \in {"call", "prompt"}
  BY DEF Ask, BackToPrompt
<1>4. ReplyTypes' /\ Readiness' /\ Consent' /\ RiskyNeedsOwnYes'
  BY <1>1, <1>2, <1>3 DEF IInv, ReplyTypes, Readiness, Calling, Consent,
                          RiskyNeedsOwnYes
<1>5. Progress'
  <2>1. Taken' = 0 /\ Len(ran') = 0
    BY <1>1, <1>3 DEF Taken
  <2> QED
    BY <1>1, <1>2, <1>3, <2>1 DEF Progress, Asking, Calling
<1>6. Offer'
  BY <1>1, <1>2, <1>3 DEF Offer, Calling
<1>7. StopsAtFirstFailure' /\ RanAsOffered'
  BY <1>1 DEF StopsAtFirstFailure, RanAsOffered
<1> QED
  BY <1>4, <1>5, <1>6, <1>7 DEF IInv

(***************************************************************************)
(* A call that can be built becomes the command, and comes next in the     *)
(* reply.                                                                  *)
(***************************************************************************)
LEMMA RunCallStep == IInv /\ RunCall => IInv'
<1> SUFFICES ASSUME IInv, RunCall PROVE IInv'
  OBVIOUS
<1>1. /\ pc = "call" /\ calls \in Seq(Calls) /\ calls # <<>>
      /\ calls' = Tail(calls) /\ pc' \in {"confirm", "start"}
      /\ command'.call = Head(calls)
      /\ command'.program = mCatalog[Head(calls).name].program
      /\ command'.risky = mCatalog[Head(calls).name].risky
      /\ Head(calls).name \in DOMAIN mCatalog
      /\ (ConfirmRisky /\ command'.risky) => pc' = "confirm"
      /\ UNCHANGED <<answer, mCatalog, mCatalogReady, mLoaded, mModelReady, ran, yeses>>
  BY DEF RunCall, IInv, ReplyTypes, catalog, client, Buildable
<1>2. mCatalog \in Catalogs
  BY <1>1 DEF IInv, ReplyTypes, NoCatalog
<1>3. command'.call \in Calls /\ command'.program \in STRING /\ command'.risky \in BOOLEAN
  BY <1>1, <1>2
<1>4. ReplyTypes' /\ Readiness' /\ Consent' /\ RiskyNeedsOwnYes'
  BY <1>1, <1>3 DEF IInv, ReplyTypes, Readiness, Calling, Consent, RiskyNeedsOwnYes
<1>5. /\ Len(calls') = Len(calls) - 1
      /\ \A i \in 1..Len(calls') : calls'[i] = calls[i + 1]
      /\ Head(calls) = calls[1] /\ Len(calls) > 0
  BY <1>1
<1>6. Progress'
  <2>1. ran \in Seq(Begins) /\ Taken = Len(ran) /\ Taken' = Len(ran) + 1
    BY <1>1 DEF Taken, IInv, ReplyTypes
  <2>2. /\ Len(answer.calls) = Len(ran) + Len(calls) /\ answer.calls \in Seq(Calls)
        /\ \A i \in 1..Len(calls) : calls[i] = answer.calls[Len(ran) + i]
    BY <1>1, <2>1 DEF IInv, Progress, Calling
  <2>3. \A i \in 1..Len(calls') : calls'[i] = answer.calls[Len(ran) + 1 + i]
    <3> TAKE i \in 1..Len(calls')
    <3>1. i + 1 \in 1..Len(calls)
      BY <1>1, <1>5
    <3>2. calls[i + 1] = answer.calls[Len(ran) + (i + 1)]
      BY <2>2, <3>1
    <3> QED
      BY <1>5, <2>1, <3>2
  <2>4. command'.call = answer.calls[Len(ran) + 1]
    BY <1>1, <1>5, <2>2
  <2>5. Len(answer.calls) = Len(ran) + 1 + Len(calls')
    BY <1>1, <1>5, <2>1, <2>2
  <2>6. \A i \in DOMAIN ran : ran[i].how = "ok"
    BY <1>1 DEF IInv, Progress
  <2> QED
    BY <1>1, <2>1, <2>2, <2>3, <2>4, <2>5, <2>6 DEF Progress, Asking
<1>7. Offer'
  BY <1>1 DEF IInv, Offer, Calling
<1>8. StopsAtFirstFailure' /\ RanAsOffered'
  BY <1>1 DEF IInv, StopsAtFirstFailure, RanAsOffered
<1> QED
  BY <1>4, <1>6, <1>7, <1>8 DEF IInv

(***************************************************************************)
(* A command is started: the in-process cd, which is over at once, or a    *)
(* program.                                                                *)
(***************************************************************************)
LEMMA StartStep == IInv /\ (StartCd \/ StartProgram) => IInv'
<1> SUFFICES ASSUME IInv, StartCd \/ StartProgram PROVE IInv'
  OBVIOUS
<1>1. PICK how \in {"going", "ok", "failed"} :
         /\ ran' = Begun(how)
         /\ \/ how = "ok" /\ pc' = "call" /\ calls' = calls
            \/ how = "failed" /\ pc' = "prompt" /\ calls' = <<>>
            \/ how = "going" /\ pc' = "run" /\ calls' = calls
  BY DEF StartCd, StartProgram, Abandon, BackToPrompt
<1>2. /\ pc = "start"
      /\ UNCHANGED <<mCatalog, mCatalogReady, mLoaded, mModelReady, answer, yeses, command>>
  BY DEF StartCd, StartProgram, catalog, client
<1>3. /\ ran' \in Seq(Begins) /\ Len(ran') = Len(ran) + 1
      /\ \A i \in 1..Len(ran) : ran'[i] = ran[i]
      /\ ran'[Len(ran) + 1].call = answer.calls[Len(ran) + 1]
      /\ ran'[Len(ran) + 1].how = how
      /\ ran'[Len(ran) + 1].program = answer.tools[command.call.name].program
      /\ ran'[Len(ran) + 1].risky = answer.tools[command.call.name].risky
      /\ ran'[Len(ran) + 1].call = command.call
      /\ ConfirmRisky => RiskyIn(ran') <= yeses
  BY <1>1, <1>2, Starting
<1>4. /\ ran \in Seq(Begins) /\ calls \in Seq(Calls) /\ answer.calls \in Seq(Calls)
      /\ Len(answer.calls) = Len(ran) + 1 + Len(calls)
      /\ \A i \in 1..Len(calls) : calls[i] = answer.calls[Len(ran) + 1 + i]
      /\ \A i \in DOMAIN ran : ran[i].how = "ok"
      /\ answer.tools = mCatalog /\ command.call.name \in DOMAIN mCatalog
  BY <1>2 DEF IInv, ReplyTypes, Progress, Offer, Calling, Taken
<1> DEFINE last == Len(ran) + 1
<1>dom. /\ Len(ran) \in Nat /\ DOMAIN ran = 1..Len(ran)
        /\ last \notin DOMAIN ran /\ DOMAIN ran' = 1..last /\ Len(ran') = last
        /\ \A i \in DOMAIN ran' : i \in DOMAIN ran \/ i = last
        /\ \A i \in DOMAIN ran' : i < Len(ran') => i \in DOMAIN ran
  BY <1>3, <1>4
<1>5. ReplyTypes' /\ Readiness' /\ Consent' /\ RiskyNeedsOwnYes'
  <2>1. calls' \in Seq(Calls)
    <3>1. <<>> \in Seq(Calls)
      OBVIOUS
    <3> QED
      BY <1>1, <1>4, <3>1
  <2>2. ReplyTypes'
    BY <1>2, <1>3, <2>1 DEF IInv, ReplyTypes
  <2>3. Readiness'
    BY <1>1, <1>2 DEF IInv, Readiness, Calling
  <2> QED
    BY <1>1, <1>2, <1>3, <2>2, <2>3 DEF Consent, RiskyNeedsOwnYes
<1>6. Progress'
  <2>1. Taken' = Len(ran) + 1
    BY <1>1, <1>3 DEF Taken
  <2>2. Calling' => \A i \in 1..Len(calls') : calls'[i] = answer'.calls[Taken' + i]
    BY <1>1, <1>2, <1>4, <2>1 DEF Calling
  <2>3. Calling' => Len(answer'.calls) = Taken' + Len(calls')
    BY <1>1, <1>2, <1>4, <2>1 DEF Calling
  <2>4. pc' = "call" => \A i \in DOMAIN ran' : ran'[i].how = "ok"
    <3>1. \A i \in DOMAIN ran : ran'[i].how = "ok"
      BY <1>3, <1>4, <1>dom
    <3>2. pc' = "call" => ran'[last].how = "ok"
      BY <1>1, <1>3
    <3> QED
      BY <3>1, <3>2, <1>dom
  <2> QED
    BY <1>1, <1>2, <1>3, <1>4, <2>2, <2>3, <2>4 DEF Progress, Asking
<1>7. Offer'
  BY <1>1, <1>2 DEF IInv, Offer, Calling
<1>8. StopsAtFirstFailure'
  <2>1. \A i \in DOMAIN ran' : ran'[i].call = answer.calls[i]
    <3>1. \A i \in DOMAIN ran : ran'[i].call = answer.calls[i]
      BY <1>3, <1>dom DEF IInv, StopsAtFirstFailure
    <3>2. ran'[last].call = answer.calls[last]
      BY <1>3
    <3> QED
      BY <3>1, <3>2, <1>dom
  <2>2. \A i \in DOMAIN ran' : i < Len(ran') => ran'[i].how = "ok"
    <3>1. \A i \in DOMAIN ran : ran'[i].how = "ok"
      BY <1>3, <1>4, <1>dom
    <3> QED
      BY <3>1, <1>dom
  <2>3. Len(ran') <= Len(answer.calls)
    BY <1>3, <1>4
  <2> QED
    BY <1>2, <2>1, <2>2, <2>3 DEF StopsAtFirstFailure
<1>9. RanAsOffered'
  <2> SUFFICES ASSUME NEW i \in DOMAIN ran'
               PROVE  /\ ran'[i].call.name \in DOMAIN answer.tools
                      /\ ran'[i].program = answer.tools[ran'[i].call.name].program
                      /\ ran'[i].risky = answer.tools[ran'[i].call.name].risky
    BY <1>2 DEF RanAsOffered
  <2>1. CASE i = last
    BY <1>3, <1>4, <2>1
  <2>2. CASE i \in DOMAIN ran
    <3>1. ran'[i] = ran[i]
      BY <1>3, <1>dom, <2>2
    <3> QED
      BY <2>2, <3>1 DEF IInv, RanAsOffered
  <2> QED
    BY <1>dom, <2>1, <2>2
<1> QED
  BY <1>5, <1>6, <1>7, <1>8, <1>9 DEF IInv

(***************************************************************************)
(* A program has returned: the reply goes on only if it succeeded.         *)
(***************************************************************************)
LEMMA FinishStep == IInv /\ Finish => IInv'
<1> SUFFICES ASSUME IInv, Finish PROVE IInv'
  OBVIOUS
<1>1. PICK how \in {"ok", "failed"} :
         /\ ran' = [ran EXCEPT ![Len(ran)].how = how]
         /\ \/ how = "ok" /\ pc' = "call" /\ calls' = calls
            \/ how = "failed" /\ pc' = "prompt" /\ calls' = <<>>
  BY DEF Finish, Succeeded, Abandon, BackToPrompt
<1>2. /\ pc = "run"
      /\ UNCHANGED <<mCatalog, mCatalogReady, mLoaded, mModelReady, answer, yeses, command>>
  BY DEF Finish, Returned, catalog, client
<1>3. ran \in Seq(Begins) /\ Len(ran) > 0
  BY <1>2 DEF IInv, ReplyTypes, Progress
<1>4. /\ ran' \in Seq(Begins) /\ Len(ran') = Len(ran)
      /\ \A i \in 1..Len(ran) :
            /\ ran'[i].call = ran[i].call
            /\ ran'[i].program = ran[i].program
            /\ ran'[i].risky = ran[i].risky
            /\ ran'[i].how = IF i = Len(ran) THEN how ELSE ran[i].how
  <2> DEFINE last == [ran[Len(ran)] EXCEPT !.how = how]
  <2>1. ran[Len(ran)] \in Begins
    BY <1>3
  <2>2. /\ last \in Begins /\ last.how = how
        /\ last.call = ran[Len(ran)].call
        /\ last.program = ran[Len(ran)].program
        /\ last.risky = ran[Len(ran)].risky
    BY <2>1, Zenon DEF Begins
  <2>3. ran' = [ran EXCEPT ![Len(ran)] = last]
    BY <1>1, Zenon
  <2> HIDE DEF last
  <2> QED
    BY <1>3, <2>2, <2>3
<1>5. RiskyIn(ran') = RiskyIn(ran)
  BY <1>3, <1>4, RiskyInSame
<1>6. ReplyTypes' /\ Readiness' /\ Consent' /\ RiskyNeedsOwnYes'
  <2>1. ReplyTypes'
    <3>1. <<>> \in Seq(Calls) /\ calls \in Seq(Calls)
      BY DEF IInv, ReplyTypes
    <3>2. calls' \in Seq(Calls)
      BY <1>1, <3>1
    <3> QED
      BY <1>1, <1>2, <1>4, <3>2 DEF IInv, ReplyTypes
  <2>2. Readiness'
    BY <1>1, <1>2 DEF IInv, Readiness, Calling
  <2>3. Consent' /\ RiskyNeedsOwnYes'
    BY <1>1, <1>2, <1>5 DEF IInv, Consent, RiskyNeedsOwnYes
  <2> QED
    BY <2>1, <2>2, <2>3
<1>7. StopsAtFirstFailure'
  BY <1>2, <1>3, <1>4 DEF IInv, StopsAtFirstFailure
<1>8. Progress'
  <2>1. Taken = Len(ran) /\ Taken' = Len(ran)
    BY <1>1, <1>2, <1>4 DEF Taken
  <2>2. /\ answer.calls \in Seq(Calls) /\ Len(answer.calls) = Len(ran) + Len(calls)
        /\ \A i \in 1..Len(calls) : calls[i] = answer.calls[Len(ran) + i]
    BY <1>2, <2>1 DEF IInv, Progress, Calling
  <2>3. pc' = "call" => \A i \in DOMAIN ran' : ran'[i].how = "ok"
    BY <1>1, <1>3, <1>4 DEF IInv, StopsAtFirstFailure
  <2> QED
    BY <1>1, <1>2, <2>1, <2>2, <2>3 DEF Progress, Asking, Calling
<1>9. Offer' /\ RanAsOffered'
  BY <1>1, <1>2, <1>3, <1>4 DEF IInv, Offer, RanAsOffered, Calling
<1> QED
  BY <1>6, <1>7, <1>8, <1>9 DEF IInv

(***************************************************************************)
(* Every step of the shell and of its environment preserves the invariant. *)
(***************************************************************************)
LEMMA IInvNext == IInv /\ [Next]_vars => IInv'
<1> SUFFICES ASSUME IInv, [Next]_vars PROVE IInv'
  OBVIOUS
<1>1. CASE \E line \in Lines : UserTypes(line)
  BY <1>1, LineStep
<1>2. CASE ShellStep \/ EndOfInput \/ EofDeclines \/ ProgramEnds
  BY <1>2, QuietStep, AskStep, RunCallStep, StartStep, FinishStep DEF ShellStep
<1>3. CASE \/ \E p \in Places, x \in Catalogs \cup {Broken, Absent} : Edit(p, x)
           \/ UNCHANGED vars
  <2>1. UNCHANGED <<pc, catalog, client, reply>>
    BY <1>3 DEF Edit, vars
  <2> QED
    BY <2>1 DEF catalog, client, reply, IInv, ReplyTypes, Readiness, Progress, Offer,
                Consent, Asking, Calling, Taken, StopsAtFirstFailure, RanAsOffered,
                RiskyNeedsOwnYes, RiskyIn
<1> QED
  BY <1>1, <1>2, <1>3 DEF Next, Terminated

(***************************************************************************)
(* The invariant of run, handle_request and run_call holds in every state  *)
(* of every session.                                                       *)
(***************************************************************************)
THEOREM Invariance == Spec => []IInv
  BY IInvInit, IInvNext, PTL DEF Spec

(***************************************************************************)
(* No risky command starts without a yes typed for it.                     *)
(***************************************************************************)
THEOREM RiskyAlwaysConfirmed == Spec => []RiskyNeedsOwnYes
<1>1. IInv => RiskyNeedsOwnYes
  BY DEF IInv
<1> QED
  BY <1>1, Invariance, PTL

(***************************************************************************)
(* A reply runs in order and stops at the first command that fails.        *)
(***************************************************************************)
THEOREM RepliesStopAtFirstFailure == Spec => []StopsAtFirstFailure
<1>1. IInv => StopsAtFirstFailure
  BY DEF IInv
<1> QED
  BY <1>1, Invariance, PTL

(***************************************************************************)
(* Every command is the one that the schema sent with the request offered. *)
(***************************************************************************)
THEOREM OnlyOfferedCommandsRun == Spec => []RanAsOffered
<1>1. IInv => RanAsOffered
  BY DEF IInv
<1> QED
  BY <1>1, Invariance, PTL

(***************************************************************************)
(* A request never reaches a client without a model.                       *)
(***************************************************************************)
THEOREM RequestsAreReady == Spec => []NeverAsksUnloaded
<1>1. IInv => NeverAsksUnloaded
  BY DEF IInv, Readiness, NeverAsksUnloaded
<1> QED
  BY <1>1, Invariance, PTL

(***************************************************************************)
(* No model is loaded before there is a catalog.                           *)
(***************************************************************************)
THEOREM CatalogFirst == Spec => []CatalogBeforeModel
<1>1. IInv => CatalogBeforeModel
  BY DEF IInv, Readiness, CatalogBeforeModel
<1> QED
  BY <1>1, Invariance, PTL

(***************************************************************************)
(* Of the candidates that exist, one is the first.                         *)
(***************************************************************************)
LEMMA FirstExists ==
    ASSUME NEW i \in DOMAIN Candidates, Exists(i)
    PROVE  \E k \in DOMAIN Candidates :
              /\ Exists(k)
              /\ \A j \in DOMAIN Candidates : Exists(j) => k <= j
<1>1. DOMAIN Candidates \subseteq 1..3
  BY DEF Candidates
<1> QED
  BY <1>1

(***************************************************************************)
(* A catalog is never taken from behind a file that exists.                *)
(***************************************************************************)
THEOREM FirstFoundWins == Spec => NothingSkipped
<1> DEFINE First(i) ==
       /\ mCatalog' = files[Candidates[i]]
       /\ \A j \in 1..(i - 1) : files[Candidates[j]] = Absent
           found == {i \in DOMAIN Candidates : Exists(i)}
<1>1. ASSUME [Next]_vars, mCatalogReady', ~mCatalogReady
      PROVE  \E i \in DOMAIN Candidates : First(i)
  <2>1. LoadCatalog
    BY <1>1 DEF Next, UserTypes, ShellStep, Terminated, vars, Blank, Exit, Cd, Request,
       Confirm, Decline, EndOfInput, EofDeclines, NoCatalogFound, HasCatalog, LoadModel,
       NoModel, HasModel, Ask, RunCall, Unbuildable, ReplyDone, StartCd, StartProgram,
       Executing, ProgramEnds, Finish, Edit, catalog
  <2>2. found # {}
    BY <2>1 DEF LoadCatalog, Discover
  <2>3. \E k \in found : \A j \in found : k <= j
    BY <2>2, FirstExists
  <2>4. PICK k : /\ k \in found /\ \A j \in found : k <= j
                 /\ Discover = files[Candidates[k]]
    BY <2>2, <2>3, Zenon DEF Discover
  <2>5. DOMAIN Candidates = 1..2 \/ DOMAIN Candidates = 1..3
    <3>1. CASE Home = NoHome
      BY <3>1 DEF Candidates
    <3>2. CASE Home # NoHome
      BY <3>2 DEF Candidates
    <3> QED
      BY <3>1, <3>2
  <2>6. \A j \in 1..(k - 1) : files[Candidates[j]] = Absent
    BY <2>4, <2>5 DEF Exists
  <2> QED
    BY <2>1, <2>4, <2>6 DEF LoadCatalog
<1> QED
  BY <1>1, PTL DEF Spec, NothingSkipped
===============================================================================
