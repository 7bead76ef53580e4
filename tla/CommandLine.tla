----------------------------- MODULE CommandLine -----------------------------
(***************************************************************************)
(* Words and lines.  render of command.cpp writes a command as a line for  *)
(* the user to see; tokenize of tokenize.cpp splits the line typed after   *)
(* cd, which shell.cpp has trimmed.  A line is written by the one and then *)
(* read by the other, or typed and read.                                   *)
(***************************************************************************)
EXTENDS Integers, Sequences, SequencesExt

CONSTANTS Characters,
          Commands,         \* the program and arguments of a command
          TypedLines        \* lines that the user may type

Space == " "     Tab == "tab"     Newline == "newline"     Return == "return"
Single == "'"    Double == "\""   Backslash == "\\"        Zero == "zero"

Blanks == {Space, Tab, Newline, Return}

ASSUME CommandLineAssumption ==
    /\ Blanks \cup {Single, Double, Backslash, Zero} \subseteq Characters
    /\ Commands \subseteq Seq(Seq(Characters)) \ {<<>>}
    /\ TypedLines \subseteq Seq(Characters)

VARIABLES phase,            \* "typed", "render", "tokenize" or "done"
          command, typed,   \* what there is to render, or was typed
          word, pos,        \* how far render has come
          line,             \* what it has written, or what tokenize is to read
          i,                \* the character tokenize looks at
          quoted,           \* it is between double quotes
          words, current, started,
          error

source == <<command, typed>>
reader == <<i, quoted, words, current, started, error>>
vars   == <<phase, source, word, pos, line, reader>>

Init ==
    /\ \/ phase = "render" /\ command \in Commands /\ typed = <<>>
       \/ phase = "typed" /\ typed \in TypedLines /\ command = <<>>
    /\ word = 1 /\ pos = 0 /\ line = <<>>
    /\ i = 1 /\ quoted = FALSE
    /\ words = <<>> /\ current = <<>> /\ started = FALSE
    /\ error = "none"

-------------------------------------------------------------------------------
(***************************************************************************)
(* render: one blank between words, and a word between quotes if a reader  *)
(* could not tell otherwise where it begins and ends.                      *)
(***************************************************************************)
MutOnlyBlanksQuoted(w) ==
    w = <<>> \/ \E k \in DOMAIN w : w[k] \in {Space, Tab, Newline}
needs_quoting(w) ==
    \/ w = <<>>
    \/ \E k \in DOMAIN w : w[k] \in {Space, Tab, Newline, Single, Double, Backslash}

If(condition, text) == IF condition THEN text ELSE <<>>

BeginWord ==
    /\ phase = "render" /\ word <= Len(command) /\ pos = 0
    /\ line' = line \o If(line # <<>>, <<Space>>)
                    \o If(needs_quoting(command[word]), <<Double>>)
    /\ pos' = 1
    /\ UNCHANGED <<phase, source, word, reader>>

WriteChar ==
    /\ phase = "render" /\ word <= Len(command)
    /\ pos \in 1..Len(command[word])
    /\ LET c == command[word][pos]
       IN  line' = line \o If(needs_quoting(command[word]) /\ c \in {Double, Backslash},
                              <<Backslash>>) \o <<c>>
    /\ pos' = pos + 1
    /\ UNCHANGED <<phase, source, word, reader>>

EndWord ==
    /\ phase = "render" /\ word <= Len(command)
    /\ pos > Len(command[word])
    /\ line' = line \o If(needs_quoting(command[word]), <<Double>>)
    /\ word' = word + 1 /\ pos' = 0
    /\ UNCHANGED <<phase, source, reader>>

Rendered ==
    /\ phase = "render" /\ word > Len(command)
    /\ phase' = "tokenize"
    /\ UNCHANGED <<source, word, pos, line, reader>>

-------------------------------------------------------------------------------
(***************************************************************************)
(* A typed line: trimmed, it is a cd or none of tokenize's business; what  *)
(* follows the cd is trimmed again.                                        *)
(***************************************************************************)
MutTrimsOneMore(text) ==
    LET inside == {k \in DOMAIN text : text[k] \notin Blanks}
    IN  IF inside = {} THEN <<>> ELSE SubSeq(text, Min(inside), Max(inside) - 1)
trim(text) ==
    LET inside == {k \in DOMAIN text : text[k] \notin Blanks}
    IN  IF inside = {} THEN <<>> ELSE SubSeq(text, Min(inside), Max(inside))

IsCd(text) == text = <<"c", "d">> \/ IsPrefix(<<"c", "d", Space>>, text)

AfterCd(text) == SubSeq(text, 3, Len(text))

Target == trim(AfterCd(trim(typed)))

CdPath ==
    /\ phase = "typed"
    /\ IsCd(trim(typed)) /\ Target # <<>>
    /\ line' = Target
    /\ phase' = "tokenize"
    /\ UNCHANGED <<source, word, pos, reader>>

(***************************************************************************)
(* A cd to $HOME, or no cd.                                                *)
(***************************************************************************)
NoPath ==
    /\ phase = "typed"
    /\ ~IsCd(trim(typed)) \/ Target = <<>>
    /\ phase' = "done"
    /\ UNCHANGED <<source, word, pos, line, reader>>

-------------------------------------------------------------------------------
(***************************************************************************)
(* tokenize: one action for each branch of its loop.                       *)
(***************************************************************************)
Reading  == phase = "tokenize" /\ i <= Len(line)
Bare(c)  == Reading /\ ~quoted /\ line[i] = c
Stays    == UNCHANGED <<phase, source, word, pos, line>>

Fails(code) ==
    /\ error' = code
    /\ phase' = "done"
    /\ UNCHANGED <<source, word, pos, line, i, quoted, words, current, started>>

MutSkips(n) == i' = i + n + 1
Skips(n)    == i' = i + n

Takes(text) == current' = current \o text /\ started' = TRUE /\ UNCHANGED <<words, error>>

WordEnds ==
    /\ words' = IF started THEN Append(words, current) ELSE words
    /\ current' = <<>> /\ started' = FALSE

Blank ==
    /\ \E b \in Blanks : Bare(b)
    /\ WordEnds
    /\ Skips(1)
    /\ UNCHANGED <<quoted, error>> /\ Stays

(***************************************************************************)
(* Single quotes are literal up to the next one.                           *)
(***************************************************************************)
Closes(k) == k \in (i + 1)..Len(line) /\ line[k] = Single

SingleQuoted ==
    /\ Bare(Single)
    /\ \E k \in (i + 1)..Len(line) :
          /\ Closes(k) /\ \A j \in (i + 1)..(k - 1) : ~Closes(j)
          /\ Takes(SubSeq(line, i + 1, k - 1))
          /\ i' = k + 1
    /\ UNCHANGED quoted /\ Stays

SingleUnclosed ==
    /\ Bare(Single)
    /\ \A k \in (i + 1)..Len(line) : ~Closes(k)
    /\ Fails("UnterminatedQuote")

OpenDouble ==
    /\ Bare(Double)
    /\ quoted' = TRUE
    /\ Takes(<<>>) /\ Skips(1) /\ Stays

CloseDouble ==
    /\ Reading /\ quoted /\ line[i] = Double
    /\ quoted' = FALSE
    /\ Takes(<<>>) /\ Skips(1) /\ Stays

(***************************************************************************)
(* Between double quotes a backslash escapes a quote and itself only.      *)
(***************************************************************************)
MutEscapesAll ==
    Reading /\ quoted /\ line[i] = Backslash /\ i + 1 <= Len(line)
EscapesInside ==
    /\ Reading /\ quoted /\ line[i] = Backslash
    /\ i + 1 <= Len(line) /\ line[i + 1] \in {Double, Backslash}

QuotedEscape ==
    /\ EscapesInside
    /\ Takes(<<line[i + 1]>>) /\ Skips(2)
    /\ UNCHANGED quoted /\ Stays

QuotedChar ==
    /\ Reading /\ quoted
    /\ line[i] # Double /\ ~EscapesInside
    /\ Takes(<<line[i]>>) /\ Skips(1)
    /\ UNCHANGED quoted /\ Stays

DoubleUnclosed ==
    /\ phase = "tokenize" /\ i > Len(line) /\ quoted
    /\ Fails("UnterminatedQuote")

Escape ==
    /\ Bare(Backslash) /\ i + 1 <= Len(line)
    /\ Takes(<<line[i + 1]>>) /\ Skips(2)
    /\ UNCHANGED quoted /\ Stays

TrailingEscape ==
    /\ Bare(Backslash) /\ i + 1 > Len(line)
    /\ Fails("TrailingEscape")

Plain ==
    /\ Reading /\ ~quoted
    /\ line[i] \notin Blanks \cup {Single, Double, Backslash}
    /\ Takes(<<line[i]>>) /\ Skips(1)
    /\ UNCHANGED quoted /\ Stays

EndOfLine ==
    /\ phase = "tokenize" /\ i > Len(line) /\ ~quoted
    /\ WordEnds
    /\ phase' = "done"
    /\ UNCHANGED <<source, word, pos, line, i, quoted, error>>

Terminated == phase = "done" /\ UNCHANGED vars

Next ==
    \/ BeginWord \/ WriteChar \/ EndWord \/ Rendered
    \/ CdPath \/ NoPath
    \/ Blank \/ SingleQuoted \/ SingleUnclosed \/ OpenDouble \/ CloseDouble
    \/ QuotedEscape \/ QuotedChar \/ DoubleUnclosed
    \/ Escape \/ TrailingEscape \/ Plain \/ EndOfLine
    \/ Terminated

Spec == Init /\ [][Next]_vars

-------------------------------------------------------------------------------
(***************************************************************************)
(* Every variable keeps to its type: i goes no further than one behind the *)
(* line, also after an escape has taken two characters, and pos no further *)
(* than one behind the word it is in.                                      *)
(***************************************************************************)
TypeOK ==
    /\ phase \in {"typed", "render", "tokenize", "done"}
    /\ word \in 1..(Len(command) + 1) /\ pos \in Nat
    /\ word <= Len(command) => pos <= Len(command[word]) + 1
    /\ word > Len(command) => pos = 0
    /\ line \in Seq(Characters)
    /\ i \in 1..(Len(line) + 1)
    /\ quoted \in BOOLEAN /\ started \in BOOLEAN
    /\ words \in Seq(Seq(Characters)) /\ current \in Seq(Characters)
    /\ error \in {"none", "UnterminatedQuote", "TrailingEscape"}

(***************************************************************************)
(* How a shell reads, as tokenize.h:18-20 has it, one character after the  *)
(* other and without ever looking ahead.                                   *)
(***************************************************************************)
Feed(s, c) ==
    LET add(text, mode) == [s EXCEPT !.word = @ \o text, !.mode = mode]
        bare == s.mode \in {"between", "word"}
    IN  CASE bare /\ c = Single    -> add(<<>>, "single")
          [] bare /\ c = Double    -> add(<<>>, "double")
          [] bare /\ c = Backslash -> add(<<>>, "escape")
          [] s.mode = "between" /\ c \in Blanks -> s
          [] s.mode = "word" /\ c \in Blanks ->
                [mode |-> "between", word |-> <<>>, words |-> Append(s.words, s.word)]
          [] bare /\ c \notin Blanks \cup {Single, Double, Backslash} -> add(<<c>>, "word")
          [] s.mode = "escape" -> add(<<c>>, "word")
          [] s.mode = "single" -> IF c = Single THEN add(<<>>, "word") ELSE add(<<c>>, "single")
          [] s.mode = "double" /\ c = Double    -> add(<<>>, "word")
          [] s.mode = "double" /\ c = Backslash -> add(<<>>, "pending")
          [] s.mode = "double" /\ c \notin {Double, Backslash} -> add(<<c>>, "double")
          [] s.mode = "pending" ->
                add(If(c \notin {Double, Backslash}, <<Backslash>>) \o <<c>>, "double")

Read(text) ==
    FoldLeft(Feed, [mode |-> "between", word |-> <<>>, words |-> <<>>], text)

ErrorIn(s) ==
    CASE s.mode \in {"single", "double", "pending"} -> "UnterminatedQuote"
      [] s.mode = "escape" -> "TrailingEscape"
      [] OTHER -> "none"

WordsIn(s) == IF s.mode = "word" THEN Append(s.words, s.word) ELSE s.words

(***************************************************************************)
(* "Splits a command line into argv the way a shell would" (tokenize.h:18):*)
(* with its searches and its looking ahead, tokenize finds the words and   *)
(* the errors that are found reading one character at a time.              *)
(***************************************************************************)
ReadsAsAShell ==
    phase = "done" =>
        /\ error = ErrorIn(Read(line))
        /\ error = "none" => words = WordsIn(Read(line))

(***************************************************************************)
(* The user confirms what render shows, and execvp is given the words      *)
(* themselves: what a reader takes the line for is what runs, word for     *)
(* word, empty words, blanks, quotes and backslashes included.  It is not  *)
(* so of a carriage return, which render does not quote (command.cpp:25),  *)
(* and a zero (see ConfirmedIsRun).                                        *)
(***************************************************************************)
Holds(c) == \E k \in DOMAIN command : \E j \in DOMAIN command[k] : command[k][j] = c

ShownIsRun ==
    (phase = "done" /\ command # <<>> /\ ~Holds(Return) /\ ~Holds(Zero)) =>
        error = "none" /\ words = command

(***************************************************************************)
(* The shell trims twice and cuts off the cd before it tokenizes           *)
(* (shell.cpp:65, 88): that changes nothing, unless a backslash is the     *)
(* last thing trim leaves.                                                 *)
(***************************************************************************)
TrimIsHarmless ==
    LET whole == Read(typed)
    IN  (phase = "done" /\ IsCd(trim(typed)) /\ Read(trim(typed)).mode # "escape") =>
            /\ error = ErrorIn(whole)
            /\ error = "none" => <<<<"c", "d">>>> \o words = WordsIn(whole)

-------------------------------------------------------------------------------
(***************************************************************************)
(* execvp's arguments are C strings, which end at the first zero.          *)
(***************************************************************************)
CString(w) ==
    LET zeros == {k \in DOMAIN w : w[k] = Zero}
    IN  IF zeros = {} THEN w ELSE SubSeq(w, 1, Min(zeros) - 1)

argv == [k \in DOMAIN command |-> CString(command[k])]

(***************************************************************************)
(* "Each JSON value becomes exactly one argv entry" (command.h:34-35), and *)
(* the confirmation is there for the values (README.md:21-23): what it     *)
(* shows is what the program gets.                                         *)
(***************************************************************************)
ConfirmedIsRun ==
    (phase = "done" /\ command # <<>> /\ ~Holds(Return)) => words = argv

===============================================================================
