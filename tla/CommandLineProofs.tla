--------------------------- MODULE CommandLineProofs ---------------------------
(***************************************************************************)
(* Proofs about CommandLine, for words and lines of any length.            *)
(***************************************************************************)
EXTENDS CommandLine, SequenceTheorems, TLAPS

USE CommandLineAssumption

Text == Seq(Characters)

(***************************************************************************)
(* States of the reader that reads as a shell does.                        *)
(***************************************************************************)
At(mode, w, ws) == [mode |-> mode, word |-> w, words |-> ws]

Start == At("between", <<>>, <<>>)

Modes == {"between", "word", "single", "double", "pending", "escape"}

States == [mode : Modes, word : Text, words : Seq(Text)]

Reader == INSTANCE FoldProofs WITH Op <- Feed, Base <- Start

-------------------------------------------------------------------------------
(***************************************************************************)
(* Reading begins at Start and goes on character by character.             *)
(***************************************************************************)
LEMMA ReadNothing == Read(<<>>) = Start
  BY Reader!FoldEmpty, Zenon
     DEF Read, Start, At, Reader!Fold, FoldLeft, Reader!FoldLeft, MapThenFoldSet,
         Reader!MapThenFoldSet, Max, Reader!Max

LEMMA ReadOneMore ==
    ASSUME NEW t \in Text, NEW c \in Characters
    PROVE  Read(Append(t, c)) = Feed(Read(t), c)
  BY Reader!FoldAppend, ZenonT(30)
     DEF Read, Start, At, Text, Reader!Fold, FoldLeft, Reader!FoldLeft,
         MapThenFoldSet, Reader!MapThenFoldSet, Max, Reader!Max

(***************************************************************************)
(* The rules of the reader, by mode.                                       *)
(***************************************************************************)
LEMMA BlankBetween ==
    ASSUME NEW w \in Text, NEW ws \in Seq(Text), NEW c \in Blanks
    PROVE  Feed(At("between", w, ws), c) = At("between", w, ws)
  BY DEF At, Feed, Blanks, Space, Tab, Newline, Return, Single, Double, Backslash

LEMMA BlankAfterWord ==
    ASSUME NEW w \in Text, NEW ws \in Seq(Text), NEW c \in Blanks
    PROVE  Feed(At("word", w, ws), c) = At("between", <<>>, Append(ws, w))
  BY DEF At, Feed, Blanks, Space, Tab, Newline, Return, Single, Double, Backslash

LEMMA PlainTaken ==
    ASSUME NEW mode \in {"between", "word"}, NEW w \in Text, NEW ws \in Seq(Text),
           NEW c \in Characters, c \notin Blanks \cup {Single, Double, Backslash}
    PROVE  Feed(At(mode, w, ws), c) = At("word", w \o <<c>>, ws)
  BY DEF At, Feed, Text

LEMMA FeedMark ==
    ASSUME NEW mode \in {"between", "word"}, NEW w \in Text, NEW ws \in Seq(Text)
    PROVE  /\ Feed(At(mode, w, ws), Single) = At("single", w, ws)
           /\ Feed(At(mode, w, ws), Double) = At("double", w, ws)
           /\ Feed(At(mode, w, ws), Backslash) = At("escape", w, ws)
<1>1. w \o <<>> = w
  BY DEF Text
<1> QED
  BY <1>1 DEF At, Feed, Blanks, Space, Tab, Newline, Return, Single, Double, Backslash

LEMMA FeedMarkInside ==
    ASSUME NEW w \in Text, NEW ws \in Seq(Text)
    PROVE  /\ Feed(At("single", w, ws), Single) = At("word", w, ws)
           /\ Feed(At("double", w, ws), Double) = At("word", w, ws)
           /\ Feed(At("double", w, ws), Backslash) = At("pending", w, ws)
<1>1. w \o <<>> = w
  BY DEF Text
<1> QED
  BY <1>1 DEF At, Feed, Blanks, Space, Tab, Newline, Return, Single, Double, Backslash

LEMMA FeedQuoting ==
    ASSUME NEW w \in Text, NEW ws \in Seq(Text), NEW c \in Characters
    PROVE  /\ Feed(At("escape", w, ws), c) = At("word", w \o <<c>>, ws)
           /\ c = Single => Feed(At("single", w, ws), c) = At("word", w, ws)
           /\ c # Single => Feed(At("single", w, ws), c) = At("single", w \o <<c>>, ws)
           /\ c = Double => Feed(At("double", w, ws), c) = At("word", w, ws)
           /\ c = Backslash => Feed(At("double", w, ws), c) = At("pending", w, ws)
           /\ c \notin {Double, Backslash} =>
                 /\ Feed(At("double", w, ws), c) = At("double", w \o <<c>>, ws)
                 /\ Feed(At("pending", w, ws), c) = At("double", (w \o <<Backslash>>) \o <<c>>, ws)
           /\ c \in {Double, Backslash} =>
                 Feed(At("pending", w, ws), c) = At("double", w \o <<c>>, ws)
<1> USE DEF At, Text
<1>1. w \o <<>> = w /\ \A x : <<>> \o <<x>> = <<x>>
  OBVIOUS
<1>2. Double # Backslash
  BY DEF Double, Backslash
<1>3. Feed(At("escape", w, ws), c) = At("word", w \o <<c>>, ws)
  BY DEF Feed
<1>4. c = Single => Feed(At("single", w, ws), c) = At("word", w, ws)
  BY <1>1 DEF Feed
<1>5. c # Single => Feed(At("single", w, ws), c) = At("single", w \o <<c>>, ws)
  BY DEF Feed
<1>6. c = Double => Feed(At("double", w, ws), c) = At("word", w, ws)
  BY <1>1, <1>2 DEF Feed
<1>7. c = Backslash => Feed(At("double", w, ws), c) = At("pending", w, ws)
  BY <1>1, <1>2 DEF Feed
<1>8. c \notin {Double, Backslash} => Feed(At("double", w, ws), c) = At("double", w \o <<c>>, ws)
  BY DEF Feed
<1>9. ASSUME c \notin {Double, Backslash}
      PROVE  Feed(At("pending", w, ws), c) = At("double", (w \o <<Backslash>>) \o <<c>>, ws)
  <2>1. w \o (<<Backslash>> \o <<c>>) = (w \o <<Backslash>>) \o <<c>>
    OBVIOUS
  <2>2. Feed(At("pending", w, ws), c) = At("double", w \o (<<Backslash>> \o <<c>>), ws)
    BY <1>9 DEF Feed, If
  <2> QED
    BY <2>1, <2>2
<1>10. c \in {Double, Backslash} => Feed(At("pending", w, ws), c) = At("double", w \o <<c>>, ws)
  <2>1. c \in {Double, Backslash} =>
          Feed(At("pending", w, ws), c) = At("double", w \o (<<>> \o <<c>>), ws)
    BY DEF Feed, If
  <2> QED
    BY <1>1, <2>1
<1> QED
  BY <1>3, <1>4, <1>5, <1>6, <1>7, <1>8, <1>9, <1>10

-------------------------------------------------------------------------------
(***************************************************************************)
(* Reading a line is reading its prefixes one after the other.             *)
(***************************************************************************)
Prefix(t, n) == SubSeq(t, 1, n)

LEMMA PrefixBounds ==
    ASSUME NEW t \in Text
    PROVE  /\ Prefix(t, 0) = <<>> /\ Prefix(t, Len(t)) = t
           /\ \A n \in 0..Len(t) : Prefix(t, n) \in Text
<1>1. Prefix(t, 0) = <<>>
  BY DEF Prefix, Text
<1>2. Prefix(t, Len(t)) = t
  BY DEF Prefix, Text
<1>3. ASSUME NEW n \in 0..Len(t) PROVE Prefix(t, n) \in Text
  BY DEF Prefix, Text
<1> QED
  BY <1>1, <1>2, <1>3

LEMMA ReadPrefix ==
    ASSUME NEW t \in Text, NEW n \in Nat, n < Len(t)
    PROVE  /\ t[n + 1] \in Characters
           /\ Read(Prefix(t, n + 1)) = Feed(Read(Prefix(t, n)), t[n + 1])
<1>1. n + 1 \in 1..Len(t) /\ n \in 0..Len(t)
  BY DEF Text
<1>2. t[n + 1] \in Characters
  BY <1>1 DEF Text
<1>3. Prefix(t, n) \in Text
  BY <1>1, PrefixBounds
<1>4. Prefix(t, n + 1) = Append(Prefix(t, n), t[n + 1])
  BY <1>1 DEF Prefix, Text
<1> QED
  BY <1>2, <1>3, <1>4, ReadOneMore

LEMMA Joined ==
    ASSUME NEW S, NEW u \in Seq(S), NEW v \in Seq(S), NEW w \in Seq(S)
    PROVE  u \o v \in Seq(S) /\ (u \o v) \o w = u \o (v \o w) /\ u \o <<>> = u /\ <<>> \o u = u
<1>1. u \o v \in Seq(S)
  OBVIOUS
<1>2. (u \o v) \o w = u \o (v \o w)
  BY ConcatAssociative
<1>3. u \o <<>> = u /\ <<>> \o u = u
  OBVIOUS
<1> QED
  BY <1>1, <1>2, <1>3

LEMMA Concatenation ==
    ASSUME NEW w \in Text, NEW u \in Text, NEW v \in Text
    PROVE  w \o u \in Text /\ (w \o u) \o v = w \o (u \o v)
<1>1. w \in Seq(Characters) /\ u \in Seq(Characters) /\ v \in Seq(Characters)
  BY DEF Text
<1> QED
  BY <1>1, Joined DEF Text

LEMMA OneBehindTwo ==
    ASSUME NEW w \in Text, NEW u \in Text, NEW c \in Characters
    PROVE  w \o u \in Text /\ <<c>> \in Text /\ w \o (u \o <<c>>) = (w \o u) \o <<c>>
<1> DEFINE e == <<c>>
<1>1. e \in Text
  BY DEF Text
<1> SUFFICES w \o u \in Text /\ w \o (u \o e) = (w \o u) \o e
  BY <1>1
<1> HIDE DEF e
<1>2. w \in Seq(Characters) /\ u \in Seq(Characters) /\ e \in Seq(Characters)
  BY <1>1 DEF Text
<1>3. w \o (u \o e) = (w \o u) \o e
  BY <1>2, ConcatAssociative
<1>4. w \o u \in Text
  BY DEF Text
<1> QED
  BY <1>3, <1>4

(***************************************************************************)
(* Between single quotes everything is literal.                            *)
(***************************************************************************)
LEMMA ReadLiteral ==
    ASSUME NEW t \in Text, NEW w \in Text, NEW ws \in Seq(Text),
           NEW m \in 0..Len(t), Read(Prefix(t, m)) = At("single", w, ws)
    PROVE  \A n \in m..Len(t) :
              (\A j \in (m + 1)..n : t[j] # Single) =>
                  Read(Prefix(t, n)) = At("single", w \o SubSeq(t, m + 1, n), ws)
<1> DEFINE Literal(n) == \A j \in (m + 1)..n : t[j] # Single
           P == {d \in Nat : (m + d <= Len(t) /\ Literal(m + d)) =>
                     Read(Prefix(t, m + d)) = At("single", w \o SubSeq(t, m + 1, m + d), ws)}
<1>0. Len(t) \in Nat /\ m \in Nat /\ m <= Len(t)
  BY DEF Text
<1>1. 0 \in P
  <2>1. m + 0 = m /\ SubSeq(t, m + 1, m) = <<>>
    BY <1>0 DEF Text
  <2>2. w \o <<>> = w
    BY DEF Text
  <2> QED
    BY <2>1, <2>2
<1>2. \A d \in P : d + 1 \in P
  <2> SUFFICES ASSUME NEW d \in P, m + (d + 1) <= Len(t), Literal(m + (d + 1))
               PROVE  Read(Prefix(t, m + (d + 1)))
                        = At("single", w \o SubSeq(t, m + 1, m + (d + 1)), ws)
    OBVIOUS
  <2> DEFINE n == m + d
  <2>1. /\ n \in Nat /\ m + (d + 1) = n + 1 /\ n < Len(t) /\ n <= Len(t)
        /\ n + 1 \in (m + 1)..(n + 1) /\ n + 1 \in 1..Len(t) /\ m <= n
    BY <1>0
  <2>2. Literal(n)
    BY <2>1
  <2>3. Read(Prefix(t, n)) = At("single", w \o SubSeq(t, m + 1, n), ws)
    BY <2>1, <2>2
  <2>4. t[n + 1] # Single
    BY <2>1
  <2> HIDE DEF n
  <2>5. SubSeq(t, m + 1, n) \in Text
    BY <1>0, <2>1 DEF Text
  <2>6. /\ w \o SubSeq(t, m + 1, n) \in Text
        /\ (w \o SubSeq(t, m + 1, n)) \o <<t[n + 1]>> = w \o SubSeq(t, m + 1, n + 1)
    <3> DEFINE u == SubSeq(t, m + 1, n)
               v == SubSeq(t, m + 1, n + 1)
               c == t[n + 1]
    <3>1. v = u \o <<c>> /\ u \in Text /\ c \in Characters
      BY <1>0, <2>1, <2>5 DEF Text
    <3> SUFFICES w \o u \in Text /\ (w \o u) \o <<c>> = w \o v
      OBVIOUS
    <3> HIDE DEF u, v, c
    <3>2. w \o u \in Text /\ w \o (u \o <<c>>) = (w \o u) \o <<c>>
      BY <3>1, OneBehindTwo
    <3> QED
      BY <3>1, <3>2
  <2>7. /\ t[n + 1] \in Characters
        /\ Read(Prefix(t, n + 1)) = Feed(Read(Prefix(t, n)), t[n + 1])
    BY <2>1, ReadPrefix
  <2>8. Feed(At("single", w \o SubSeq(t, m + 1, n), ws), t[n + 1])
          = At("single", (w \o SubSeq(t, m + 1, n)) \o <<t[n + 1]>>, ws)
    BY <2>4, <2>6, <2>7, FeedQuoting
  <2> QED
    BY <2>1, <2>3, <2>6, <2>7, <2>8
<1>3. P = Nat
  <2> HIDE DEF P
  <2>1. P \in SUBSET Nat
    BY DEF P
  <2> QED
    BY <1>1, <1>2, <2>1, Reader!Induction
<1>4. ASSUME NEW n \in m..Len(t), Literal(n)
      PROVE  Read(Prefix(t, n)) = At("single", w \o SubSeq(t, m + 1, n), ws)
  <2>1. n - m \in Nat /\ m + (n - m) = n /\ n <= Len(t)
    BY <1>0
  <2>2. n - m \in P
    BY <1>3, <2>1
  <2> HIDE DEF Literal
  <2> QED
    BY <1>4, <2>1, <2>2
<1> QED
  BY <1>4
-------------------------------------------------------------------------------
(***************************************************************************)
(* trim finds a text without blanks around it, or nothing.                 *)
(***************************************************************************)
Bounds(t, m, n) ==
    /\ m \in 1..Len(t) /\ n \in 1..Len(t) /\ m <= n
    /\ t[m] \notin Blanks /\ \A k \in 1..(m - 1) : t[k] \in Blanks
    /\ t[n] \notin Blanks /\ \A k \in (n + 1)..Len(t) : t[k] \in Blanks

LEMMA Trims ==
    ASSUME NEW t \in Text
    PROVE  \/ trim(t) = <<>> /\ \A k \in 1..Len(t) : t[k] \in Blanks
           \/ \E m, n \in 1..Len(t) : Bounds(t, m, n) /\ trim(t) = SubSeq(t, m, n)
<1> DEFINE inside == {k \in DOMAIN t : t[k] \notin Blanks}
<1>1. Len(t) \in Nat /\ DOMAIN t = 1..Len(t)
  BY DEF Text
<1>2. inside \in SUBSET (0..Len(t)) /\ inside \in SUBSET Nat
  BY <1>1
<1>3. trim(t) = IF inside = {} THEN <<>> ELSE SubSeq(t, Min(inside), Max(inside))
  BY DEF trim
<1>4. \A k \in 1..Len(t) : k \in inside <=> t[k] \notin Blanks
  BY <1>1
<1>5. inside \in SUBSET (1..Len(t))
  BY <1>1
<1> HIDE DEF inside
<1>6. CASE inside = {}
  BY <1>3, <1>4, <1>6
<1>7. CASE inside # {}
  <2>1. Min(inside) \in inside /\ \A k \in inside : Min(inside) <= k
    <3>1. \E m \in inside : \A k \in inside : m <= k
      BY <1>2, <1>7, Reader!Least
    <3> QED
      BY <3>1 DEF Min
  <2>2. Max(inside) \in inside /\ \A k \in inside : k <= Max(inside)
    <3>1. \E m \in inside : \A k \in inside : k <= m
      BY <1>1, <1>2, <1>7, Reader!Greatest
    <3>2. \A m, k \in inside : k <= m <=> m >= k
      BY <1>5
    <3>3. \E m \in inside : \A k \in inside : m >= k
      BY <3>1, <3>2
    <3>4. Max(inside) \in inside /\ \A k \in inside : Max(inside) >= k
      BY <3>3 DEF Max
    <3> QED
      BY <3>2, <3>4
  <2> DEFINE m == Min(inside)
             n == Max(inside)
  <2>3. m \in inside /\ n \in inside /\ \A k \in inside : m <= k /\ k <= n
    BY <2>1, <2>2
  <2>4. trim(t) = SubSeq(t, m, n)
    BY <1>3, <1>7
  <2> HIDE DEF m, n
  <2>5. Bounds(t, m, n)
    BY <1>1, <1>4, <1>5, <2>3 DEF Bounds
  <2> QED
    BY <1>5, <2>3, <2>4, <2>5
<1> QED
  BY <1>6, <1>7

LEMMA TrimType == ASSUME NEW t \in Text PROVE trim(t) \in Text
<1>1. CASE trim(t) = <<>>
  BY <1>1 DEF Text
<1>2. ASSUME NEW m \in 1..Len(t), NEW n \in 1..Len(t), trim(t) = SubSeq(t, m, n)
      PROVE  trim(t) \in Text
  BY <1>2 DEF Text
<1> QED
  BY <1>1, <1>2, Trims

LEMMA TargetType == ASSUME typed \in Text PROVE Target \in Text
<1>1. trim(typed) \in Text
  BY TrimType
<1>2. AfterCd(trim(typed)) \in Text
  <2> DEFINE t == trim(typed)
  <2>1. t \in Text
    BY <1>1
  <2> HIDE DEF t
  <2>2. SubSeq(t, 3, Len(t)) \in Text
    BY <2>1 DEF Text
  <2> QED
    BY <2>2 DEF AfterCd, t
<1> QED
  BY <1>2, TrimType DEF Target

-------------------------------------------------------------------------------
(***************************************************************************)
(* Before tokenize begins nothing has been read.                           *)
(***************************************************************************)
Fresh ==
    /\ i = 1 /\ quoted = FALSE /\ error = "none"
    /\ words = <<>> /\ current = <<>> /\ started = FALSE

Typed ==
    /\ TypeOK
    /\ command \in Seq(Text) /\ typed \in Text
    /\ phase \in {"typed", "render"} => Fresh

LEMMA TypedInit == Init => Typed
<1> SUFFICES ASSUME Init PROVE Typed
  OBVIOUS
<1>1. command \in Seq(Text) /\ typed \in Text
  <2>1. <<>> \in Text /\ <<>> \in Seq(Text)
    BY DEF Text
  <2> QED
    BY <2>1 DEF Init, Text
<1>2. Fresh
  BY DEF Init, Fresh
<1>3. line \in Seq(Characters) /\ words \in Seq(Seq(Characters)) /\ current \in Seq(Characters)
  BY DEF Init
<1>4. Len(line) = 0 /\ Len(command) \in Nat
  BY <1>1 DEF Init
<1>5. phase \in {"typed", "render"} /\ word = 1 /\ pos = 0
  BY DEF Init
<1>6. /\ word \in 1..(Len(command) + 1) /\ i \in 1..(Len(line) + 1) /\ pos \in Nat
      /\ word <= Len(command) => pos <= Len(command[word]) + 1
      /\ word > Len(command) => pos = 0
  <2>1. word <= Len(command) => Len(command[word]) \in Nat
    BY <1>1, <1>4, <1>5 DEF Text
  <2> QED
    BY <1>2, <1>4, <1>5, <2>1 DEF Fresh
<1>7. TypeOK
  BY <1>2, <1>3, <1>5, <1>6 DEF TypeOK, Fresh
<1> QED
  BY <1>1, <1>2, <1>7 DEF Typed

LEMMA Longer ==
    ASSUME NEW S, NEW s \in Seq(S), NEW x \in Seq(S)
    PROVE  s \o x \in Seq(S) /\ Len(s \o x) \in Nat /\ Len(s \o x) >= Len(s)
  OBVIOUS

(***************************************************************************)
(* render, cd and tokenize keep every variable to its type.                *)
(***************************************************************************)
LEMMA TypedWriting ==
    ASSUME Typed, BeginWord \/ WriteChar \/ EndWord \/ Rendered \/ CdPath \/ NoPath
    PROVE  Typed'
<1> USE DEF Typed, TypeOK, Fresh, source, reader
<1>1. Len(command) \in Nat /\ Len(line) \in Nat
  OBVIOUS
<1>2. ASSUME NEW x \in Text, line' = line \o x,
             UNCHANGED <<phase, source, reader>>,
             word' \in 1..(Len(command) + 1), pos' \in Nat,
             word' <= Len(command) => pos' <= Len(command[word']) + 1,
             word' > Len(command) => pos' = 0
      PROVE  Typed'
  <2>1. line' \in Seq(Characters) /\ Len(line') \in Nat /\ Len(line') >= Len(line)
    <3>1. line \in Seq(Characters) /\ x \in Seq(Characters)
      BY <1>2 DEF Text
    <3> QED
      BY <1>2, <3>1, Longer
  <2> QED
    BY <1>1, <1>2, <2>1
<1>3. ASSUME NEW b, NEW c \in Characters PROVE If(b, <<c>>) \in Text
  BY DEF If, Text
<1>4. Space \in Characters /\ Double \in Characters /\ Backslash \in Characters
  BY DEF Blanks
<1>5. ASSUME NEW x \in Text, NEW y \in Text
      PROVE  x \o y \in Text /\ line \o x \o y = line \o (x \o y)
  <2>1. line \in Text
    BY DEF Text
  <2> QED
    BY <2>1, Concatenation
<1>6. CASE BeginWord
  <2>1. /\ If(line # <<>>, <<Space>>) \in Text
        /\ If(needs_quoting(command[word]), <<Double>>) \in Text
    BY <1>3, <1>4
  <2>2. /\ If(line # <<>>, <<Space>>) \o If(needs_quoting(command[word]), <<Double>>) \in Text
        /\ line' = line \o (If(line # <<>>, <<Space>>)
                            \o If(needs_quoting(command[word]), <<Double>>))
    BY <1>5, <1>6, <2>1 DEF BeginWord
  <2>3. /\ pos' = 1 /\ word' = word /\ UNCHANGED <<phase, source, reader>>
        /\ word <= Len(command) /\ Len(command[word]) \in Nat
    BY <1>6 DEF BeginWord, Text
  <2>4. /\ word' \in 1..(Len(command) + 1) /\ pos' \in Nat
        /\ word' <= Len(command) => pos' <= Len(command[word']) + 1
        /\ word' > Len(command) => pos' = 0
    BY <1>1, <2>3
  <2> QED
    BY <1>2, <2>2, <2>3, <2>4
<1>7. CASE WriteChar
  <2> DEFINE c == command[word][pos]
             escaped == If(needs_quoting(command[word]) /\ c \in {Double, Backslash},
                           <<Backslash>>)
  <2>1. c \in Characters
    <3>1. word \in 1..Len(command) /\ pos \in 1..Len(command[word])
      BY <1>7 DEF WriteChar
    <3>2. command[word] \in Seq(Characters)
      BY <3>1 DEF Text
    <3> QED
      BY <3>1, <3>2
  <2>2. escaped \in Text /\ <<c>> \in Text
    BY <1>3, <1>4, <2>1 DEF Text
  <2>3. line' = line \o escaped \o <<c>>
    BY <1>7 DEF WriteChar
  <2> HIDE DEF c, escaped
  <2>4. escaped \o <<c>> \in Text /\ line' = line \o (escaped \o <<c>>)
    BY <1>5, <2>2, <2>3
  <2>5. /\ pos' = pos + 1 /\ word' = word /\ UNCHANGED <<phase, source, reader>>
        /\ word <= Len(command) /\ pos \in 1..Len(command[word])
        /\ Len(command[word]) \in Nat
    BY <1>7 DEF WriteChar, Text
  <2>6. /\ word' \in 1..(Len(command) + 1) /\ pos' \in Nat
        /\ word' <= Len(command) => pos' <= Len(command[word']) + 1
        /\ word' > Len(command) => pos' = 0
    BY <1>1, <2>5
  <2> QED
    BY <1>2, <2>4, <2>5, <2>6
<1>8. CASE EndWord
  <2>1. If(needs_quoting(command[word]), <<Double>>) \in Text
    BY <1>3, <1>4
  <2>2. /\ pos' = 0 /\ word' \in 1..(Len(command) + 1) /\ UNCHANGED <<phase, source, reader>>
        /\ word' <= Len(command) => Len(command[word']) \in Nat
    <3>1. /\ pos' = 0 /\ word' = word + 1 /\ word <= Len(command)
          /\ UNCHANGED <<phase, source, reader>>
      BY <1>8 DEF EndWord
    <3>2. \A k \in 1..Len(command) : Len(command[k]) \in Nat
      BY DEF Text
    <3>3. word' \in 1..(Len(command) + 1) /\ (word' <= Len(command) => word' \in 1..Len(command))
      BY <1>1, <3>1
    <3> QED
      BY <3>1, <3>2, <3>3
  <2>3. /\ word' \in 1..(Len(command) + 1) /\ pos' \in Nat
        /\ word' <= Len(command) => pos' <= Len(command[word']) + 1
        /\ word' > Len(command) => pos' = 0
    BY <1>1, <2>2
  <2>4. line' = line \o If(needs_quoting(command[word]), <<Double>>)
    BY <1>8 DEF EndWord
  <2> QED
    BY <1>2, <2>1, <2>2, <2>3, <2>4
<1>9. CASE CdPath
  <2>1. line' \in Text
    BY <1>9, TargetType DEF CdPath
  <2>2. Len(line') \in Nat
    BY <2>1 DEF Text
  <2> QED
    BY <1>9, <2>1, <2>2 DEF CdPath, Text
<1>10. CASE Rendered \/ NoPath
  BY <1>10 DEF Rendered, NoPath
<1> QED
  BY <1>6, <1>7, <1>8, <1>9, <1>10
LEMMA TypedReading ==
    ASSUME Typed,
           \/ Blank \/ SingleQuoted \/ SingleUnclosed \/ OpenDouble \/ CloseDouble
           \/ QuotedEscape \/ QuotedChar \/ DoubleUnclosed
           \/ Escape \/ TrailingEscape \/ Plain \/ EndOfLine
    PROVE  Typed'
<1> USE DEF Typed, TypeOK
<1>1. Len(line) \in Nat /\ i \in Nat
  OBVIOUS
<1>2. /\ IF started THEN Append(words, current) \in Seq(Seq(Characters)) ELSE TRUE
      /\ <<>> \in Seq(Characters)
  OBVIOUS
<1>3. WordEnds => /\ words' \in Seq(Seq(Characters)) /\ current' \in Seq(Characters)
                  /\ started' \in BOOLEAN
  BY <1>2 DEF WordEnds
<1>4. ASSUME NEW x \in Text, Takes(x)
      PROVE  /\ words' \in Seq(Seq(Characters)) /\ current' \in Seq(Characters)
             /\ started' \in BOOLEAN /\ error' = error
  BY <1>4 DEF Takes, Text
<1>5. \A k \in 1..Len(line) : line[k] \in Characters /\ <<line[k]>> \in Text
  BY DEF Text
<1>6. CASE Blank
  BY <1>1, <1>3, <1>6 DEF Blank, Bare, Reading, Stays, Skips, source
<1>7. CASE SingleQuoted
  <2>1. PICK k \in (i + 1)..Len(line) : Takes(SubSeq(line, i + 1, k - 1)) /\ i' = k + 1
    BY <1>7 DEF SingleQuoted
  <2>2. SubSeq(line, i + 1, k - 1) \in Text
    <3>1. line \in Seq(Characters)
      OBVIOUS
    <3>2. /\ i + 1 \in Int /\ k - 1 \in Int
          /\ \A j \in (i + 1)..(k - 1) : j \in 1..Len(line)
      BY <1>1, <2>1
    <3>3. \A j \in (i + 1)..(k - 1) : line[j] \in Characters
      BY <3>1, <3>2
    <3>4. SubSeq(line, i + 1, k - 1) \in Seq(Characters)
      BY <3>2, <3>3, SubSeqProperties, Zenon
    <3> QED
      BY <3>4 DEF Text
  <2>3. i' \in 1..(Len(line) + 1)
    BY <1>1, <2>1
  <2>4. UNCHANGED quoted /\ Stays /\ phase = "tokenize"
    BY <1>7 DEF SingleQuoted, Bare, Reading
  <2> QED
    BY <1>4, <2>1, <2>2, <2>3, <2>4 DEF Stays, source
<1>8. CASE OpenDouble \/ CloseDouble
  <2>1. Takes(<<>>) /\ <<>> \in Text
    BY <1>8 DEF OpenDouble, CloseDouble, Text
  <2>2. i \in 1..Len(line) /\ phase = "tokenize"
    BY <1>1, <1>8 DEF OpenDouble, CloseDouble, Bare, Reading
  <2>3. i' = i + 1 /\ quoted' \in BOOLEAN /\ UNCHANGED <<phase, command, typed, word, pos, line>>
    <3>1. CASE OpenDouble
      BY <3>1 DEF OpenDouble, Skips, Stays, source
    <3>2. CASE CloseDouble
      BY <3>2 DEF CloseDouble, Skips, Stays, source
    <3> QED
      BY <1>8, <3>1, <3>2
  <2>4. /\ words' \in Seq(Seq(Characters)) /\ current' \in Seq(Characters)
        /\ started' \in BOOLEAN /\ error' = error
    BY <1>4, <2>1
  <2> QED
    BY <1>1, <2>2, <2>3, <2>4
<1>9. CASE QuotedEscape \/ Escape
  <2>1. i + 1 \in 1..Len(line) /\ phase = "tokenize"
    BY <1>1, <1>9 DEF QuotedEscape, EscapesInside, Escape, Bare, Reading
  <2>2. Takes(<<line[i + 1]>>) /\ <<line[i + 1]>> \in Text
    BY <1>5, <1>9, <2>1 DEF QuotedEscape, Escape
  <2>3. i' \in 1..(Len(line) + 1) /\ UNCHANGED quoted /\ Stays
    BY <1>1, <1>9, <2>1 DEF QuotedEscape, Escape, Skips
  <2>4. /\ words' \in Seq(Seq(Characters)) /\ current' \in Seq(Characters)
        /\ started' \in BOOLEAN /\ error' = error
    BY <1>4, <2>2
  <2> QED
    BY <2>1, <2>3, <2>4 DEF Stays, source
<1>10. CASE QuotedChar \/ Plain
  <2>1. i \in 1..Len(line) /\ phase = "tokenize"
    BY <1>1, <1>10 DEF QuotedChar, Plain, Reading
  <2>2. Takes(<<line[i]>>) /\ <<line[i]>> \in Text
    BY <1>5, <1>10, <2>1 DEF QuotedChar, Plain
  <2>3. i' \in 1..(Len(line) + 1) /\ UNCHANGED quoted /\ Stays
    BY <1>1, <1>10, <2>1 DEF QuotedChar, Plain, Skips
  <2>4. /\ words' \in Seq(Seq(Characters)) /\ current' \in Seq(Characters)
        /\ started' \in BOOLEAN /\ error' = error
    BY <1>4, <2>2
  <2> QED
    BY <2>1, <2>3, <2>4 DEF Stays, source
<1>11. CASE SingleUnclosed \/ DoubleUnclosed \/ TrailingEscape
  BY <1>11 DEF SingleUnclosed, DoubleUnclosed, TrailingEscape, Fails, source
<1>12. CASE EndOfLine
  BY <1>3, <1>12 DEF EndOfLine, source
<1> QED
  BY <1>6, <1>7, <1>8, <1>9, <1>10, <1>11, <1>12

LEMMA TypedNext == Typed /\ [Next]_vars => Typed'
<1> SUFFICES ASSUME Typed, [Next]_vars PROVE Typed'
  OBVIOUS
<1>1. CASE UNCHANGED vars
  BY <1>1 DEF Typed, TypeOK, Fresh, vars, source, reader
<1> QED
  BY <1>1, TypedWriting, TypedReading DEF Next, Terminated

LEMMA TypedAlways == Spec => []Typed
  BY TypedInit, TypedNext, PTL DEF Spec

(***************************************************************************)
(* Every variable keeps to its type. However long line and words are, i    *)
(* stays in the line or one behind it, also when an escape takes two       *)
(* characters or a quotation ends with the line (tokenize.cpp:25-86), and  *)
(* pos in the word or one behind it (command.cpp:142-154).                 *)
(***************************************************************************)
THEOREM TypeCorrect == Spec => []TypeOK
<1>1. Typed => TypeOK
  BY DEF Typed
<1> QED
  BY <1>1, TypedAlways, PTL
-------------------------------------------------------------------------------
(***************************************************************************)
(* Where tokenize is, the reader is too, in the state that goes with what  *)
(* tokenize has found; a backslash between double quotes that tokenize has *)
(* taken for itself is one the reader has not made up its mind about, and  *)
(* will take for itself as well.                                           *)
(***************************************************************************)
Stands(s) ==
    \/ /\ ~quoted
       /\ s = At(IF started THEN "word" ELSE "between", current, words)
       /\ ~started => current = <<>>
    \/ /\ quoted /\ started
       /\ s = At("double", current, words)
    \/ /\ quoted /\ started
       /\ s.word \in Text /\ s = At("pending", s.word, words)
       /\ current = s.word \o <<Backslash>>
       /\ i <= Len(line) => line[i] \notin {Double, Backslash}

Follows ==
    /\ phase = "typed" => line = <<>>
    /\ phase = "tokenize" => error = "none" /\ Stands(Read(Prefix(line, i - 1)))
    /\ ReadsAsAShell

(***************************************************************************)
(* What render has written so far reads as the words it has written, and   *)
(* the part of the word it is at.                                          *)
(***************************************************************************)
Returnless == \A k \in DOMAIN command : \A j \in DOMAIN command[k] : command[k][j] # Return

Earlier == Prefix(command, word - 1)

Writes ==
    phase = "render" =>
        IF pos = 0
        THEN IF word = 1 THEN line = <<>>
             ELSE line # <<>> /\ Read(line) = At("word", command[word - 1], Prefix(command, word - 2))
        ELSE /\ word <= Len(command) /\ pos <= Len(command[word]) + 1
             /\ pos > 1 \/ needs_quoting(command[word]) => line # <<>>
             /\ Read(line) = At(IF needs_quoting(command[word]) THEN "double"
                                ELSE IF pos = 1 THEN "between" ELSE "word",
                                Prefix(command[word], pos - 1), Earlier)

Shows ==
    /\ phase = "typed" => command = <<>>
    /\ phase = "render" => command # <<>>
    /\ Returnless =>
          /\ Writes
          /\ (phase \in {"tokenize", "done"} /\ command # <<>>) =>
                ErrorIn(Read(line)) = "none" /\ WordsIn(Read(line)) = command

(***************************************************************************)
(* What tokenize was given of what was typed.                              *)
(***************************************************************************)
Cuts ==
    /\ command # <<>> => typed = <<>>
    /\ (phase \in {"tokenize", "done"} /\ command = <<>> /\ IsCd(trim(typed))) => line = Target
-------------------------------------------------------------------------------
(***************************************************************************)
(* The reader takes the one character, or the two, that tokenize took.     *)
(***************************************************************************)
Here == Read(Prefix(line, i - 1))

LEMMA TakesOne ==
    ASSUME Typed, i <= Len(line), line' = line, i' = i + 1
    PROVE  line[i] \in Characters /\ Here' = Feed(Here, line[i])
<1>1. line \in Text /\ i - 1 \in Nat /\ i - 1 < Len(line) /\ (i - 1) + 1 = i /\ i' - 1 = i
  BY DEF Typed, TypeOK, Text
<1>2. line[(i - 1) + 1] \in Characters
      /\ Read(Prefix(line, (i - 1) + 1)) = Feed(Read(Prefix(line, i - 1)), line[(i - 1) + 1])
  BY <1>1, ReadPrefix
<1>3. Here' = Read(Prefix(line, i))
  BY <1>1 DEF Here
<1> QED
  BY <1>1, <1>2, <1>3 DEF Here

LEMMA TakesTwo ==
    ASSUME Typed, i + 1 <= Len(line), line' = line, i' = i + 2
    PROVE  /\ line[i] \in Characters /\ line[i + 1] \in Characters
           /\ Here' = Feed(Feed(Here, line[i]), line[i + 1])
<1>1. /\ line \in Text /\ i - 1 \in Nat /\ i - 1 < Len(line) /\ (i - 1) + 1 = i
      /\ i \in Nat /\ i < Len(line) /\ i' - 1 = i + 1
  BY DEF Typed, TypeOK, Text
<1>2. line[(i - 1) + 1] \in Characters
      /\ Read(Prefix(line, (i - 1) + 1)) = Feed(Read(Prefix(line, i - 1)), line[(i - 1) + 1])
  BY <1>1, ReadPrefix
<1>3. line[i + 1] \in Characters
      /\ Read(Prefix(line, i + 1)) = Feed(Read(Prefix(line, i)), line[i + 1])
  BY <1>1, ReadPrefix
<1>4. Here' = Read(Prefix(line, i + 1))
  BY <1>1 DEF Here
<1> QED
  BY <1>1, <1>2, <1>3, <1>4 DEF Here

LEMMA AtTheEnd ==
    ASSUME Typed, i > Len(line) PROVE Here = Read(line)
<1>1. line \in Text /\ i - 1 = Len(line)
  BY DEF Typed, TypeOK, Text
<1> QED
  BY <1>1, PrefixBounds DEF Here

(***************************************************************************)
(* Outside of double quotes the reader is between words or in one.         *)
(***************************************************************************)
LEMMA BareHere ==
    ASSUME Typed, Follows, phase = "tokenize", ~quoted
    PROVE  /\ Here = At(IF started THEN "word" ELSE "between", current, words)
           /\ ~started => current = <<>>
           /\ (IF started THEN "word" ELSE "between") \in {"between", "word"}
           /\ current \in Text /\ words \in Seq(Text)
<1>1. current \in Text /\ words \in Seq(Text)
  BY DEF Typed, TypeOK, Text
<1>2. Stands(Here)
  BY DEF Follows, Here
<1> QED
  BY <1>1, <1>2 DEF Stands

LEMMA QuotedHere ==
    ASSUME Typed, Follows, phase = "tokenize", quoted
    PROVE  /\ started
           /\ \/ Here = At("double", current, words)
              \/ /\ Here.word \in Text /\ Here = At("pending", Here.word, words)
                 /\ current = Here.word \o <<Backslash>>
                 /\ i <= Len(line) => line[i] \notin {Double, Backslash}
           /\ current \in Text /\ words \in Seq(Text)
<1>1. current \in Text /\ words \in Seq(Text)
  BY DEF Typed, TypeOK, Text
<1>2. Stands(Here)
  BY DEF Follows, Here
<1> QED
  BY <1>1, <1>2 DEF Stands

LEMMA Continues ==
    ASSUME phase' = "tokenize", error' = "none", Stands(Here)'
    PROVE  Follows'
  BY DEF Follows, ReadsAsAShell, Here

LEMMA BareSteps ==
    ASSUME Typed, Follows, Blank \/ OpenDouble \/ Plain \/ Escape
    PROVE  Follows'
<1>1. phase = "tokenize" /\ ~quoted /\ error = "none"
  BY DEF Blank, OpenDouble, Plain, Escape, Bare, Reading, Follows
<1>2. phase' = phase /\ line' = line
  BY DEF Blank, OpenDouble, Plain, Escape, Stays
<1> DEFINE mode == IF started THEN "word" ELSE "between"
<1>3. /\ Here = At(mode, current, words) /\ (~started => current = <<>>)
      /\ mode \in {"between", "word"} /\ current \in Text /\ words \in Seq(Text)
  BY <1>1, BareHere
<1>4. i \in Nat /\ Len(line) \in Nat
  BY DEF Typed, TypeOK
<1>5. CASE Blank
  <2>1. /\ i <= Len(line) /\ i' = i + 1 /\ line[i] \in Blanks
        /\ WordEnds /\ quoted' = FALSE /\ error' = "none"
    BY <1>1, <1>5 DEF Blank, Bare, Reading, Skips
  <2>2. line[i] \in Characters /\ Here' = Feed(Here, line[i])
    BY <1>2, <2>1, TakesOne
  <2>3. Here' = At("between", <<>>, IF started THEN Append(words, current) ELSE words)
    <3>1. CASE started
      <4>1. mode = "word"
        BY <3>1
      <4>2. Feed(At("word", current, words), line[i]) = At("between", <<>>, Append(words, current))
        BY <1>3, <2>1, <2>2, BlankAfterWord
      <4> QED
        BY <1>3, <2>2, <3>1, <4>1, <4>2
    <3>2. CASE ~started
      <4>1. mode = "between"
        BY <3>2
      <4>2. Feed(At("between", current, words), line[i]) = At("between", current, words)
        BY <1>3, <2>1, <2>2, BlankBetween
      <4> QED
        BY <1>3, <2>2, <3>2, <4>1, <4>2
    <3> QED
      BY <3>1, <3>2
  <2>4. Stands(Here)'
    BY <2>1, <2>3 DEF Stands, WordEnds
  <2> QED
    BY <1>1, <1>2, <2>1, <2>4, Continues
<1>6. CASE OpenDouble
  <2>1. /\ i <= Len(line) /\ i' = i + 1 /\ line[i] = Double
        /\ current' = current \o <<>> /\ started' = TRUE /\ words' = words
        /\ quoted' = TRUE /\ error' = "none"
    BY <1>1, <1>6 DEF OpenDouble, Bare, Reading, Skips, Takes
  <2>2. line[i] \in Characters /\ Here' = Feed(Here, line[i])
    BY <1>2, <2>1, TakesOne
  <2>3. Here' = At("double", current, words)
    <3> HIDE DEF mode
    <3>1. Feed(At(mode, current, words), line[i]) = At("double", current, words)
      BY <1>3, <2>1, FeedMark
    <3> QED
      BY <1>3, <2>2, <3>1
  <2>4. current' = current
    BY <1>3, <2>1 DEF Text
  <2>5. Stands(Here)'
    BY <2>1, <2>3, <2>4 DEF Stands
  <2> QED
    BY <1>1, <1>2, <2>1, <2>5, Continues
<1>7. CASE Plain
  <2>1. /\ i <= Len(line) /\ i' = i + 1
        /\ line[i] \notin Blanks \cup {Single, Double, Backslash}
        /\ current' = current \o <<line[i]>> /\ started' = TRUE /\ words' = words
        /\ quoted' = FALSE /\ error' = "none"
    BY <1>1, <1>7 DEF Plain, Reading, Skips, Takes
  <2>2. line[i] \in Characters /\ Here' = Feed(Here, line[i])
    BY <1>2, <2>1, TakesOne
  <2>3. Here' = At("word", current \o <<line[i]>>, words)
    <3> HIDE DEF mode
    <3> QED
      BY <1>3, <2>1, <2>2, PlainTaken
  <2>4. Stands(Here)'
    BY <2>1, <2>3 DEF Stands
  <2> QED
    BY <1>1, <1>2, <2>1, <2>4, Continues
<1>8. CASE Escape
  <2>1. /\ i + 1 <= Len(line) /\ i' = i + 2 /\ line[i] = Backslash
        /\ current' = current \o <<line[i + 1]>> /\ started' = TRUE /\ words' = words
        /\ quoted' = FALSE /\ error' = "none"
    BY <1>1, <1>8 DEF Escape, Bare, Reading, Skips, Takes
  <2>2. /\ line[i] \in Characters /\ line[i + 1] \in Characters
        /\ Here' = Feed(Feed(Here, line[i]), line[i + 1])
    BY <1>2, <2>1, TakesTwo
  <2>3. Feed(Here, line[i]) = At("escape", current, words)
    <3> HIDE DEF mode
    <3>1. Feed(At(mode, current, words), line[i]) = At("escape", current, words)
      BY <1>3, <2>1, FeedMark
    <3> QED
      BY <1>3, <3>1
  <2>4. Here' = At("word", current \o <<line[i + 1]>>, words)
    BY <1>3, <2>2, <2>3, FeedQuoting
  <2>5. Stands(Here)'
    BY <2>1, <2>4 DEF Stands
  <2> QED
    BY <1>1, <1>2, <2>1, <2>5, Continues
<1> QED
  BY <1>5, <1>6, <1>7, <1>8

LEMMA QuotedSteps ==
    ASSUME Typed, Follows, CloseDouble \/ QuotedEscape \/ QuotedChar
    PROVE  Follows'
<1>1. phase = "tokenize" /\ quoted /\ error = "none"
  BY DEF CloseDouble, QuotedEscape, QuotedChar, EscapesInside, Reading, Follows
<1>2. phase' = phase /\ line' = line
  BY DEF CloseDouble, QuotedEscape, QuotedChar, Stays
<1>3. i \in Nat /\ Len(line) \in Nat
  BY DEF Typed, TypeOK
<1>4. current \in Text /\ words \in Seq(Text)
  BY <1>1, QuotedHere
<1>5. /\ i <= Len(line) /\ line[i] \in Characters
      /\ line[i] \in {Double, Backslash} => Here = At("double", current, words)
  <2>1. i <= Len(line)
    BY DEF CloseDouble, QuotedEscape, QuotedChar, EscapesInside, Reading
  <2>2. line[i] \in Characters
    BY <1>3, <2>1 DEF Typed, TypeOK
  <2> QED
    BY <1>1, <2>1, <2>2, QuotedHere
<1>6. CASE CloseDouble
  <2>1. /\ i' = i + 1 /\ line[i] = Double
        /\ current' = current \o <<>> /\ started' = TRUE /\ words' = words
        /\ quoted' = FALSE /\ error' = "none"
    BY <1>1, <1>6 DEF CloseDouble, Skips, Takes
  <2>2. Here' = Feed(Here, line[i])
    BY <1>2, <1>5, <2>1, TakesOne
  <2>3. Here' = At("word", current, words)
    BY <1>4, <1>5, <2>1, <2>2, FeedMarkInside
  <2>4. current' = current
    BY <1>4, <2>1 DEF Text
  <2>5. Stands(Here)'
    BY <2>1, <2>3, <2>4 DEF Stands
  <2> QED
    BY <1>1, <1>2, <2>1, <2>5, Continues
<1>7. CASE QuotedEscape
  <2>1. /\ i + 1 <= Len(line) /\ i' = i + 2 /\ line[i] = Backslash
        /\ line[i + 1] \in {Double, Backslash}
        /\ current' = current \o <<line[i + 1]>> /\ started' = TRUE /\ words' = words
        /\ quoted' /\ error' = "none"
    BY <1>1, <1>7 DEF QuotedEscape, EscapesInside, Skips, Takes
  <2>2. /\ line[i + 1] \in Characters
        /\ Here' = Feed(Feed(Here, line[i]), line[i + 1])
    BY <1>2, <2>1, TakesTwo
  <2>3. Feed(Here, line[i]) = At("pending", current, words)
    BY <1>4, <1>5, <2>1, FeedMarkInside
  <2>4. Here' = At("double", current \o <<line[i + 1]>>, words)
    BY <1>4, <2>1, <2>2, <2>3, FeedQuoting
  <2>5. Stands(Here)'
    BY <2>1, <2>4 DEF Stands
  <2> QED
    BY <1>1, <1>2, <2>1, <2>5, Continues
<1>8. CASE QuotedChar
  <2>1. /\ i' = i + 1 /\ line[i] # Double /\ ~EscapesInside
        /\ current' = current \o <<line[i]>> /\ started' = TRUE /\ words' = words
        /\ quoted' /\ error' = "none"
    BY <1>1, <1>8 DEF QuotedChar, Skips, Takes
  <2>2. Here' = Feed(Here, line[i])
    BY <1>2, <1>5, <2>1, TakesOne
  <2>3. ASSUME line[i] = Backslash PROVE Stands(Here)'
    <3>1. Here' = At("pending", current, words)
      BY <1>4, <1>5, <2>2, <2>3, FeedMarkInside
    <3>2. i' <= Len(line') => line'[i'] \notin {Double, Backslash}
      BY <1>1, <1>2, <1>5, <2>1, <2>3 DEF EscapesInside, Reading
    <3>3. (Here').word = current /\ current' = current \o <<Backslash>>
      BY <2>1, <2>3, <3>1 DEF At
    <3> QED
      BY <1>4, <2>1, <3>1, <3>2, <3>3 DEF Stands
  <2>4. ASSUME line[i] # Backslash PROVE Stands(Here)'
    <3>1. ASSUME Here = At("double", current, words)
          PROVE  Here' = At("double", current \o <<line[i]>>, words)
      BY <1>4, <1>5, <2>1, <2>2, <2>4, <3>1, FeedQuoting
    <3>2. ASSUME Here # At("double", current, words)
          PROVE  Here' = At("double", current \o <<line[i]>>, words)
      <4> DEFINE w == Here.word
      <4>1. w \in Text /\ Here = At("pending", w, words) /\ current = w \o <<Backslash>>
        BY <1>1, <3>2, QuotedHere
      <4> HIDE DEF w
      <4>2. Here' = At("double", (w \o <<Backslash>>) \o <<line[i]>>, words)
        BY <1>4, <1>5, <2>1, <2>2, <2>4, <4>1, FeedQuoting
      <4> QED
        BY <4>1, <4>2
    <3>3. Here' = At("double", current \o <<line[i]>>, words)
      BY <3>1, <3>2
    <3> QED
      BY <2>1, <3>3 DEF Stands
  <2>5. Stands(Here)'
    BY <2>3, <2>4
  <2> QED
    BY <1>1, <1>2, <2>1, <2>5, Continues
<1> QED
  BY <1>6, <1>7, <1>8

LEMMA Ends ==
    ASSUME phase' = "done", line' = line, error' = ErrorIn(Read(line)),
           error' = "none" => words' = WordsIn(Read(line))
    PROVE  Follows'
  BY DEF Follows, ReadsAsAShell

(***************************************************************************)
(* A single quote is read up to the next one, or to the end of the line.   *)
(***************************************************************************)
LEMMA Opened ==
    ASSUME Typed, Follows, Bare(Single), NEW n \in i..Len(line),
           \A k \in (i + 1)..n : ~Closes(k)
    PROVE  Read(Prefix(line, n)) = At("single", current \o SubSeq(line, i + 1, n), words)
<1>1. phase = "tokenize" /\ ~quoted /\ i <= Len(line) /\ line[i] = Single
  BY DEF Bare, Reading
<1>2. line \in Text /\ i \in Nat /\ i - 1 \in Nat /\ i - 1 < Len(line) /\ (i - 1) + 1 = i
  BY <1>1 DEF Typed, TypeOK, Text
<1>3. Read(Prefix(line, i)) = Feed(Here, line[i])
  <2>1. Read(Prefix(line, (i - 1) + 1)) = Feed(Read(Prefix(line, i - 1)), line[(i - 1) + 1])
    BY <1>2, ReadPrefix
  <2> QED
    BY <1>2, <2>1 DEF Here
<1>4. current \in Text /\ words \in Seq(Text)
  BY <1>1, BareHere
<1>5. Read(Prefix(line, i)) = At("single", current, words)
  <2> DEFINE mode == IF started THEN "word" ELSE "between"
  <2>1. Here = At(mode, current, words) /\ mode \in {"between", "word"}
    BY <1>1, BareHere
  <2> HIDE DEF mode
  <2>2. Feed(At(mode, current, words), Single) = At("single", current, words)
    BY <1>4, <2>1, FeedMark
  <2> QED
    BY <1>1, <1>3, <2>1, <2>2
<1>6. i \in 0..Len(line)
  BY <1>1, <1>2 DEF Text
<1>7. \A j \in (i + 1)..n : line[j] # Single
  BY <1>2 DEF Closes, Text
<1>8. \A m \in i..Len(line) :
         (\A j \in (i + 1)..m : line[j] # Single) =>
             Read(Prefix(line, m)) = At("single", current \o SubSeq(line, i + 1, m), words)
  BY <1>2, <1>4, <1>5, <1>6, ReadLiteral
<1> QED
  BY <1>7, <1>8

LEMMA SingleSteps ==
    ASSUME Typed, Follows, SingleQuoted \/ SingleUnclosed
    PROVE  Follows'
<1>1. Bare(Single) /\ phase = "tokenize" /\ error = "none" /\ i <= Len(line)
  BY DEF SingleQuoted, SingleUnclosed, Bare, Reading, Follows
<1>2. line \in Text /\ i \in Nat /\ Len(line) \in Nat
  BY DEF Typed, TypeOK, Text
<1>3. current \in Text /\ words \in Seq(Text) /\ ~quoted
  BY <1>1, BareHere DEF Bare
<1>4. CASE SingleQuoted
  <2>1. PICK k \in (i + 1)..Len(line) :
           /\ Closes(k) /\ \A j \in (i + 1)..(k - 1) : ~Closes(j)
           /\ Takes(SubSeq(line, i + 1, k - 1))
           /\ i' = k + 1
    BY <1>4 DEF SingleQuoted
  <2> DEFINE text == SubSeq(line, i + 1, k - 1)
  <2>2. k - 1 \in i..Len(line) /\ k - 1 \in Nat /\ k - 1 < Len(line) /\ (k - 1) + 1 = k
    BY <1>2, <2>1
  <2>3. Read(Prefix(line, k - 1)) = At("single", current \o text, words)
    BY <1>1, <2>1, <2>2, Opened
  <2>4. text \in Text
    BY <1>2, <2>1 DEF Text
  <2> HIDE DEF text
  <2>5. current \o text \in Text
    BY <1>3, <2>4 DEF Text
  <2>6. Read(Prefix(line, (k - 1) + 1)) = Feed(Read(Prefix(line, k - 1)), line[(k - 1) + 1])
    BY <1>2, <2>2, ReadPrefix
  <2>7. line[k] = Single
    BY <2>1 DEF Closes
  <2>8. Feed(At("single", current \o text, words), Single) = At("word", current \o text, words)
    BY <1>3, <2>5, FeedMarkInside
  <2>9. Read(Prefix(line, k)) = At("word", current \o text, words)
    BY <2>2, <2>3, <2>6, <2>7, <2>8
  <2>10. line' = line /\ i' - 1 = k /\ quoted' = FALSE /\ phase' = "tokenize"
    BY <1>1, <1>2, <1>3, <1>4, <2>1 DEF SingleQuoted, Stays
  <2>11. current' = current \o text /\ started' /\ words' = words /\ error' = "none"
    BY <1>1, <2>1 DEF Takes, text
  <2>12. Here' = At("word", current \o text, words)
    BY <2>9, <2>10 DEF Here
  <2>13. Stands(Here)'
    BY <2>10, <2>11, <2>12 DEF Stands
  <2> QED
    BY <2>10, <2>11, <2>13, Continues
<1>5. CASE SingleUnclosed
  <2>1. Len(line) \in i..Len(line) /\ \A k \in (i + 1)..Len(line) : ~Closes(k)
    BY <1>1, <1>2, <1>5 DEF SingleUnclosed
  <2>2. Read(Prefix(line, Len(line)))
          = At("single", current \o SubSeq(line, i + 1, Len(line)), words)
    BY <1>1, <2>1, Opened
  <2>3. Read(line).mode = "single"
    BY <1>2, <2>2, PrefixBounds DEF At
  <2>4. ErrorIn(Read(line)) = "UnterminatedQuote"
    BY <2>3 DEF ErrorIn
  <2>5. phase' = "done" /\ line' = line /\ error' = "UnterminatedQuote"
    BY <1>5 DEF SingleUnclosed, Fails
  <2> QED
    BY <2>4, <2>5, Ends
<1> QED
  BY <1>4, <1>5

LEMMA LastSteps ==
    ASSUME Typed, Follows, DoubleUnclosed \/ TrailingEscape \/ EndOfLine
    PROVE  Follows'
<1>1. phase = "tokenize" /\ error = "none" /\ phase' = "done" /\ line' = line
  BY DEF DoubleUnclosed, TrailingEscape, EndOfLine, Fails, Bare, Reading, Follows
<1>2. line \in Text /\ i \in Nat /\ Len(line) \in Nat
  BY DEF Typed, TypeOK, Text
<1>3. CASE DoubleUnclosed
  <2>1. quoted /\ i > Len(line) /\ error' = "UnterminatedQuote"
    BY <1>3 DEF DoubleUnclosed, Fails
  <2>2. Read(line).mode \in {"double", "pending"}
    BY <1>1, <2>1, QuotedHere, AtTheEnd DEF At
  <2>3. ErrorIn(Read(line)) = "UnterminatedQuote"
    BY <2>2 DEF ErrorIn
  <2> QED
    BY <1>1, <2>1, <2>3, Ends
<1>4. CASE TrailingEscape
  <2>1. ~quoted /\ i <= Len(line) /\ i + 1 > Len(line) /\ line[i] = Backslash
        /\ error' = "TrailingEscape"
    BY <1>4 DEF TrailingEscape, Bare, Reading, Fails
  <2>2. i - 1 \in Nat /\ i - 1 < Len(line) /\ (i - 1) + 1 = i /\ i = Len(line)
    BY <1>2, <2>1 DEF Typed, TypeOK
  <2>3. Read(line) = Feed(Here, Backslash)
    <3>1. Read(Prefix(line, (i - 1) + 1)) = Feed(Read(Prefix(line, i - 1)), line[(i - 1) + 1])
      BY <1>2, <2>2, ReadPrefix
    <3>2. Prefix(line, i) = line
      BY <1>2, <2>2, PrefixBounds
    <3> QED
      BY <2>1, <2>2, <3>1, <3>2 DEF Here
  <2> DEFINE mode == IF started THEN "word" ELSE "between"
  <2>4. /\ Here = At(mode, current, words) /\ mode \in {"between", "word"}
        /\ current \in Text /\ words \in Seq(Text)
    BY <1>1, <2>1, BareHere
  <2> HIDE DEF mode
  <2>5. Feed(At(mode, current, words), Backslash) = At("escape", current, words)
    BY <2>4, FeedMark
  <2>6. Read(line).mode = "escape"
    BY <2>3, <2>4, <2>5 DEF At
  <2>7. ErrorIn(Read(line)) = "TrailingEscape"
    BY <2>6 DEF ErrorIn
  <2> QED
    BY <1>1, <2>1, <2>7, Ends
<1>5. CASE EndOfLine
  <2>1. ~quoted /\ i > Len(line) /\ error' = "none" /\ WordEnds
    BY <1>1, <1>5 DEF EndOfLine
  <2>2. Read(line) = At(IF started THEN "word" ELSE "between", current, words)
    BY <1>1, <2>1, BareHere, AtTheEnd
  <2>3. ErrorIn(Read(line)) = "none"
    BY <2>2 DEF ErrorIn, At
  <2>4. words' = WordsIn(Read(line))
    BY <2>1, <2>2 DEF WordsIn, At, WordEnds
  <2> QED
    BY <1>1, <2>1, <2>3, <2>4, Ends
<1> QED
  BY <1>3, <1>4, <1>5

(***************************************************************************)
(* tokenize begins where the reader does.                                  *)
(***************************************************************************)
LEMMA Enters ==
    ASSUME phase' = "tokenize", line' \in Text, Fresh'
    PROVE  Follows'
<1>1. Prefix(line', 0) = <<>> /\ i' = 1 /\ i' - 1 = 0
  BY PrefixBounds DEF Fresh
<1>2. Here' = Start
  <2>1. Here' = Read(Prefix(line', i' - 1))
    BY DEF Here
  <2> QED
    BY <1>1, <2>1, ReadNothing
<1>3. Stands(Here)'
  BY <1>2 DEF Stands, Fresh, Start
<1> QED
  BY <1>3, Continues DEF Fresh

LEMMA FollowsNext ==
    ASSUME Typed, Follows, [Next]_vars
    PROVE  Follows'
<1>1. CASE BeginWord \/ WriteChar \/ EndWord
  BY <1>1 DEF BeginWord, WriteChar, EndWord, Follows, ReadsAsAShell
<1>2. CASE Rendered \/ CdPath
  <2>1. phase \in {"typed", "render"} /\ phase' = "tokenize"
    BY <1>2 DEF Rendered, CdPath
  <2>2. Fresh'
    BY <1>2, <2>1 DEF Rendered, CdPath, reader, Typed, Fresh
  <2>3. line' \in Text
    BY <1>2, TypedWriting DEF Typed, TypeOK, Text
  <2> QED
    BY <2>1, <2>2, <2>3, Enters
<1>3. CASE NoPath
  <2>1. /\ phase = "typed" /\ phase' = "done" /\ line' = line /\ Fresh
        /\ words' = words /\ error' = error
    BY <1>3 DEF NoPath, Typed, reader
  <2>2. line = <<>>
    BY <2>1 DEF Follows
  <2>3. Read(line) = At("between", <<>>, <<>>)
    BY <2>2, ReadNothing DEF Start
  <2>4. ErrorIn(Read(line)) = "none" /\ WordsIn(Read(line)) = <<>>
    BY <2>3 DEF ErrorIn, WordsIn, At
  <2> QED
    BY <2>1, <2>4, Ends DEF Fresh
<1>4. CASE UNCHANGED vars
  BY <1>4 DEF vars, source, reader, Follows, ReadsAsAShell, Stands
<1> QED
  BY <1>1, <1>2, <1>3, <1>4, BareSteps, QuotedSteps, SingleSteps, LastSteps
     DEF Next, Terminated

LEMMA FollowsAlways == Spec => []Follows
<1>1. Init => Follows
  BY DEF Init, Follows, ReadsAsAShell
<1>2. Typed /\ Follows /\ [Next]_vars => Follows'
  BY FollowsNext
<1> QED
  BY <1>1, <1>2, TypedAlways, PTL DEF Spec

(***************************************************************************)
(* tokenize.h:18: whatever the line, tokenize finds the words and the      *)
(* errors that a shell finds, reading one character at a time.             *)
(***************************************************************************)
THEOREM ReadsLikeAShell == Spec => []ReadsAsAShell
<1>1. Follows => ReadsAsAShell
  BY DEF Follows
<1> QED
  BY <1>1, FollowsAlways, PTL

-------------------------------------------------------------------------------
(***************************************************************************)
(* What render writes, read as it is written.                              *)
(***************************************************************************)
LEMMA ReadWritten ==
    ASSUME NEW t \in Text, NEW c \in Characters
    PROVE  t \o <<c>> \in Text /\ t \o <<c>> # <<>> /\ Read(t \o <<c>>) = Feed(Read(t), c)
<1>1. t \o <<c>> = Append(t, c) /\ t \o <<c>> \in Text /\ t \o <<c>> # <<>>
  BY DEF Text
<1> QED
  BY <1>1, ReadOneMore

LEMMA PrefixText ==
    ASSUME NEW t \in Text, NEW n \in 1..Len(t)
    PROVE  /\ t[n] \in Characters /\ Prefix(t, n - 1) \in Text
           /\ Prefix(t, n) = Prefix(t, n - 1) \o <<t[n]>>
  BY DEF Prefix, Text

LEMMA PrefixWords ==
    ASSUME NEW t \in Seq(Text)
    PROVE  /\ Prefix(t, 0) = <<>> /\ Prefix(t, Len(t)) = t
           /\ \A n \in 0..Len(t) : Prefix(t, n) \in Seq(Text)
           /\ \A n \in 1..Len(t) : t[n] \in Text /\ Prefix(t, n) = Append(Prefix(t, n - 1), t[n])
<1>1. Prefix(t, 0) = <<>> /\ Prefix(t, Len(t)) = t
  BY DEF Prefix
<1>2. ASSUME NEW n \in 0..Len(t) PROVE Prefix(t, n) \in Seq(Text)
  BY DEF Prefix
<1>3. ASSUME NEW n \in 1..Len(t)
      PROVE  t[n] \in Text /\ Prefix(t, n) = Append(Prefix(t, n - 1), t[n])
  BY DEF Prefix
<1> QED
  BY <1>1, <1>2, <1>3

LEMMA WritesBegin ==
    ASSUME Typed, Writes, BeginWord
    PROVE  Writes'
<1>1. /\ phase = "render" /\ word <= Len(command) /\ pos = 0 /\ pos' = 1
      /\ word' = word /\ command' = command
  BY DEF BeginWord, source
<1>2. /\ line \in Text /\ command \in Seq(Text) /\ word \in 1..Len(command)
      /\ Len(command) \in Nat /\ command[word] \in Text /\ Space \in Characters
      /\ Double \in Characters
  BY <1>1 DEF Typed, TypeOK, Text, Blanks
<1> DEFINE w == command[word]
           spaced == line \o If(line # <<>>, <<Space>>)
<1>3. /\ spaced \in Text /\ Read(spaced) = At("between", <<>>, Earlier)
      /\ Earlier \in Seq(Text)
  <2>1. CASE word = 1
    <3>1. line = <<>>
      BY <1>1, <2>1 DEF Writes
    <3>2. spaced = <<>>
      BY <3>1 DEF If
    <3>3. Earlier = <<>>
      BY <1>2, <2>1, PrefixWords DEF Earlier
    <3>4. <<>> \in Text /\ <<>> \in Seq(Text)
      BY DEF Text
    <3>5. Read(<<>>) = At("between", <<>>, <<>>)
      BY ReadNothing DEF Start
    <3> HIDE DEF spaced
    <3> QED
      BY <3>2, <3>3, <3>4, <3>5
  <2>2. CASE word # 1
    <3>1. line # <<>> /\ Read(line) = At("word", command[word - 1], Prefix(command, word - 2))
      BY <1>1, <2>2 DEF Writes
    <3>2. word - 1 \in 1..Len(command) /\ (word - 1) - 1 = word - 2 /\ word - 2 \in 0..Len(command)
      BY <1>2, <2>2
    <3>3. /\ command[word - 1] \in Text /\ Prefix(command, word - 2) \in Seq(Text)
          /\ Earlier = Append(Prefix(command, word - 2), command[word - 1])
      BY <1>2, <3>2, PrefixWords DEF Earlier
    <3>4. spaced = line \o <<Space>>
      BY <3>1 DEF If
    <3>5. spaced \in Text /\ Read(spaced) = Feed(Read(line), Space)
      BY <1>2, <3>4, ReadWritten
    <3>6. Feed(At("word", command[word - 1], Prefix(command, word - 2)), Space)
            = At("between", <<>>, Append(Prefix(command, word - 2), command[word - 1]))
      <4> DEFINE a == command[word - 1]
                 b == Prefix(command, word - 2)
      <4>1. a \in Text /\ b \in Seq(Text) /\ Space \in Blanks
        BY <3>3 DEF Blanks
      <4> HIDE DEF a, b
      <4>2. Feed(At("word", a, b), Space) = At("between", <<>>, Append(b, a))
        BY <1>2, <4>1, BlankAfterWord
      <4> QED
        BY <4>2 DEF a, b
    <3>7. Earlier \in Seq(Text)
      BY <3>3
    <3> QED
      BY <3>1, <3>3, <3>5, <3>6, <3>7
  <2> QED
    BY <2>1, <2>2
<1>4. line' = spaced \o If(needs_quoting(w), <<Double>>)
  BY DEF BeginWord
<1>5. Prefix(w, 0) = <<>> /\ Len(w) \in Nat
  BY <1>2, PrefixBounds DEF Text
<1> HIDE DEF w, spaced
<1>6. ASSUME needs_quoting(w)
      PROVE  line' # <<>> /\ Read(line') = At("double", <<>>, Earlier)
  <2>1. line' = spaced \o <<Double>>
    BY <1>4, <1>6 DEF If
  <2>2. line' # <<>> /\ Read(line') = Feed(Read(spaced), Double)
    BY <1>2, <1>3, <2>1, ReadWritten
  <2>3. Feed(At("between", <<>>, Earlier), Double) = At("double", <<>>, Earlier)
    <3>1. <<>> \in Text
      BY DEF Text
    <3> QED
      BY <1>3, <3>1, FeedMark
  <2> QED
    BY <1>3, <2>2, <2>3
<1>7. ASSUME ~needs_quoting(w)
      PROVE  Read(line') = At("between", <<>>, Earlier)
  <2>1. line' = spaced
    BY <1>3, <1>4, <1>7 DEF If, Text
  <2> QED
    BY <1>3, <2>1
<1>8. /\ (command[word])' = w /\ (needs_quoting(command[word]))' = needs_quoting(w)
      /\ Earlier' = Earlier /\ phase' = "render"
  BY <1>1 DEF w, Earlier, BeginWord
<1>9. /\ word' <= Len(command') /\ pos' # 0 /\ pos' <= Len(w) + 1 /\ ~(pos' > 1)
      /\ pos' - 1 = 0 /\ pos' = 1
  BY <1>1, <1>5
<1> QED
  BY <1>5, <1>6, <1>7, <1>8, <1>9 DEF Writes

LEMMA WritesChar ==
    ASSUME Typed, Writes, Returnless, WriteChar
    PROVE  Writes'
<1>1. /\ phase = "render" /\ word <= Len(command) /\ pos' = pos + 1
      /\ pos \in 1..Len(command[word]) /\ pos # 0
      /\ word' = word /\ command' = command
  BY DEF WriteChar, source
<1>2. /\ line \in Text /\ command \in Seq(Text) /\ word \in 1..Len(command)
      /\ Len(command) \in Nat /\ command[word] \in Text /\ Backslash \in Characters
  <2>1. /\ line \in Text /\ command \in Seq(Text) /\ word \in 1..(Len(command) + 1)
        /\ Backslash \in Characters
    BY DEF Typed, TypeOK, Text
  <2> HIDE DEF Text
  <2>2. Len(command) \in Nat /\ word \in 1..Len(command)
    BY <1>1, <2>1
  <2>3. command[word] \in Text
    BY <2>1, <2>2
  <2> QED
    BY <2>1, <2>2, <2>3
<1> DEFINE w == command[word]
           c == w[pos]
           u == Prefix(w, pos - 1)
           mode == IF needs_quoting(w) THEN "double" ELSE IF pos = 1 THEN "between" ELSE "word"
<1>3. /\ c \in Characters /\ u \in Text /\ Prefix(w, pos) = u \o <<c>>
      /\ Earlier \in Seq(Text) /\ pos \in Nat /\ Len(w) \in Nat /\ pos \in DOMAIN w
  <2>1. c \in Characters /\ u \in Text /\ Prefix(w, pos) = u \o <<c>>
    BY <1>1, <1>2, PrefixText
  <2>2. Earlier \in Seq(Text)
    BY <1>2, PrefixWords DEF Earlier
  <2>3. pos \in Nat /\ Len(w) \in Nat /\ pos \in DOMAIN w
    BY <1>1, <1>2 DEF Text
  <2> QED
    BY <2>1, <2>2, <2>3
<1>4. Read(line) = At(mode, u, Earlier)
  BY <1>1 DEF Writes
<1>5. c # Return
  BY <1>2, <1>3 DEF Returnless
<1>6. line' = line \o If(needs_quoting(w) /\ c \in {Double, Backslash}, <<Backslash>>) \o <<c>>
  BY DEF WriteChar
<1>7. ~needs_quoting(w) => c \notin Blanks \cup {Single, Double, Backslash}
  BY <1>3, <1>5 DEF needs_quoting, Blanks
<1> HIDE DEF c, u
<1>8. ASSUME needs_quoting(w)
      PROVE  line' # <<>> /\ Read(line') = At("double", u \o <<c>>, Earlier)
  <2>0. Read(line) = At("double", u, Earlier)
    BY <1>4, <1>8
  <2>1. CASE c \in {Double, Backslash}
    <3>1. line' = (line \o <<Backslash>>) \o <<c>>
      BY <1>6, <1>8, <2>1 DEF If
    <3>2. /\ line \o <<Backslash>> \in Text
          /\ Read(line \o <<Backslash>>) = Feed(Read(line), Backslash)
      BY <1>2, ReadWritten
    <3>3. line' # <<>> /\ Read(line') = Feed(Read(line \o <<Backslash>>), c)
      BY <1>3, <3>1, <3>2, ReadWritten
    <3>4. Feed(At("double", u, Earlier), Backslash) = At("pending", u, Earlier)
      BY <1>3, FeedMarkInside
    <3>5. Feed(At("pending", u, Earlier), c) = At("double", u \o <<c>>, Earlier)
      BY <1>3, <2>1, FeedQuoting
    <3> QED
      BY <2>0, <3>2, <3>3, <3>4, <3>5
  <2>2. CASE c \notin {Double, Backslash}
    <3>1. line' = line \o <<c>>
      BY <1>2, <1>6, <2>2 DEF If, Text
    <3>2. line' # <<>> /\ Read(line') = Feed(Read(line), c)
      BY <1>2, <1>3, <3>1, ReadWritten
    <3>3. Feed(At("double", u, Earlier), c) = At("double", u \o <<c>>, Earlier)
      BY <1>3, <2>2, FeedQuoting
    <3> QED
      BY <2>0, <3>2, <3>3
  <2> QED
    BY <2>1, <2>2
<1>9. ASSUME ~needs_quoting(w)
      PROVE  line' # <<>> /\ Read(line') = At("word", u \o <<c>>, Earlier)
  <2>1. line' = line \o <<c>>
    BY <1>2, <1>6, <1>9 DEF If, Text
  <2>2. line' # <<>> /\ Read(line') = Feed(Read(line), c)
    BY <1>2, <1>3, <2>1, ReadWritten
  <2>3. mode \in {"between", "word"}
    BY <1>9
  <2> HIDE DEF mode
  <2>4. Feed(At(mode, u, Earlier), c) = At("word", u \o <<c>>, Earlier)
    BY <1>3, <1>7, <1>9, <2>3, PlainTaken
  <2> QED
    BY <1>4, <2>2, <2>4
<1>10. /\ (command[word])' = w /\ (needs_quoting(command[word]))' = needs_quoting(w)
       /\ Earlier' = Earlier /\ phase' = "render"
  BY <1>1 DEF Earlier, WriteChar
<1>11. /\ word' <= Len(command') /\ pos' # 0 /\ pos' <= Len(w) + 1 /\ pos' > 1 /\ pos' # 1
       /\ pos' - 1 = pos
  BY <1>1, <1>3
<1> HIDE DEF w, mode
<1> QED
  BY <1>3, <1>8, <1>9, <1>10, <1>11 DEF Writes

LEMMA WritesEnd ==
    ASSUME Typed, Writes, EndWord
    PROVE  Writes'
<1>1. /\ phase = "render" /\ word <= Len(command) /\ word' = word + 1 /\ pos' = 0
      /\ pos > Len(command[word]) /\ command' = command
  BY DEF EndWord, source
<1>2. /\ line \in Text /\ command \in Seq(Text) /\ word \in 1..Len(command)
      /\ Len(command) \in Nat /\ command[word] \in Text /\ Double \in Characters
      /\ pos \in Nat
  <2>1. /\ line \in Text /\ command \in Seq(Text) /\ word \in 1..(Len(command) + 1)
        /\ Double \in Characters /\ pos \in Nat
    BY DEF Typed, TypeOK, Text
  <2> HIDE DEF Text
  <2>2. Len(command) \in Nat /\ word \in 1..Len(command)
    BY <1>1, <2>1
  <2>3. command[word] \in Text
    BY <2>1, <2>2
  <2> QED
    BY <2>1, <2>2, <2>3
<1> DEFINE w == command[word]
<1>3. Len(w) \in Nat /\ pos # 0 /\ pos - 1 = Len(w) /\ (w # <<>> => pos > 1 /\ pos # 1)
  <2>1. Len(w) \in Nat /\ pos # 0 /\ (w # <<>> => Len(w) > 0)
    BY <1>1, <1>2 DEF Text
  <2>2. pos <= Len(w) + 1
    BY <1>1, <2>1 DEF Writes
  <2> QED
    BY <1>1, <1>2, <2>1, <2>2
<1>4. Prefix(w, pos - 1) = w
  BY <1>2, <1>3, PrefixBounds
<1>5. Earlier \in Seq(Text)
  BY <1>2, PrefixWords DEF Earlier
<1>6. line # <<>> /\ Read(line) = At(IF needs_quoting(w) THEN "double" ELSE "word", w, Earlier)
  <2>1. ~needs_quoting(w) => w # <<>>
    BY DEF needs_quoting
  <2> QED
    BY <1>1, <1>3, <1>4, <2>1 DEF Writes
<1>7. line' = line \o If(needs_quoting(w), <<Double>>)
  BY DEF EndWord
<1> HIDE DEF w
<1>8. line' # <<>> /\ Read(line') = At("word", w, Earlier)
  <2>1. CASE needs_quoting(w)
    <3>1. line' = line \o <<Double>>
      BY <1>7, <2>1 DEF If
    <3>2. line' # <<>> /\ Read(line') = Feed(Read(line), Double)
      BY <1>2, <3>1, ReadWritten
    <3>3. Feed(At("double", w, Earlier), Double) = At("word", w, Earlier)
      BY <1>2, <1>5, FeedMarkInside DEF w
    <3> QED
      BY <1>6, <2>1, <3>2, <3>3
  <2>2. CASE ~needs_quoting(w)
    <3>1. line' = line
      BY <1>2, <1>7, <2>2 DEF If, Text
    <3> QED
      BY <1>6, <2>2, <3>1
  <2> QED
    BY <2>1, <2>2
<1>9. /\ word' - 1 = word /\ word' - 2 = word - 1 /\ word' # 1 /\ pos' = 0
      /\ command'[word' - 1] = w /\ Prefix(command', word' - 2) = Earlier
  <2>1. word' - 1 = word /\ word' - 2 = word - 1 /\ word' # 1
    BY <1>1, <1>2
  <2> QED
    BY <1>1, <2>1 DEF Earlier, w
<1> QED
  BY <1>1, <1>8, <1>9 DEF Writes, w

LEMMA ShownWhole ==
    ASSUME Typed, Writes, phase = "render", command # <<>>, word > Len(command)
    PROVE  ErrorIn(Read(line)) = "none" /\ WordsIn(Read(line)) = command
<1>1. /\ command \in Seq(Text) /\ Len(command) \in Nat /\ Len(command) \in 1..Len(command)
      /\ word = Len(command) + 1
  <2>1. command \in Seq(Text) /\ word \in 1..(Len(command) + 1)
    BY DEF Typed, TypeOK
  <2>2. Len(command) \in Nat /\ Len(command) # 0
    BY <2>1
  <2> QED
    BY <2>1, <2>2
<1>2. pos = 0 /\ word # 1 /\ word - 1 = Len(command) /\ word - 2 = Len(command) - 1
  BY <1>1 DEF Writes
<1>3. Read(line) = At("word", command[Len(command)], Prefix(command, Len(command) - 1))
  BY <1>2 DEF Writes
<1>4. Append(Prefix(command, Len(command) - 1), command[Len(command)]) = command
  BY <1>1, PrefixWords
<1> QED
  BY <1>3, <1>4 DEF ErrorIn, WordsIn, At

LEMMA ShowsNext ==
    ASSUME Typed, Shows, [Next]_vars
    PROVE  Shows'
<1>1. CASE BeginWord \/ WriteChar \/ EndWord
  <2>1. command' = command /\ phase' = "render" /\ phase = "render" /\ Returnless' = Returnless
    BY <1>1 DEF BeginWord, WriteChar, EndWord, source, Returnless
  <2>2. Returnless => Writes'
    BY <1>1, WritesBegin, WritesChar, WritesEnd DEF Shows
  <2> QED
    BY <2>1, <2>2 DEF Shows
<1>2. CASE Rendered
  <2>1. /\ command' = command /\ phase' = "tokenize" /\ line' = line /\ phase = "render"
        /\ word > Len(command) /\ Returnless' = Returnless
    BY <1>2 DEF Rendered, source, Returnless
  <2>2. Returnless => ErrorIn(Read(line)) = "none" /\ WordsIn(Read(line)) = command
    BY <2>1, ShownWhole DEF Shows
  <2> QED
    BY <2>1, <2>2 DEF Shows, Writes
<1>3. CASE CdPath \/ NoPath
  <2>1. command' = command /\ command = <<>> /\ phase' \in {"tokenize", "done"}
    BY <1>3 DEF CdPath, NoPath, source, Shows
  <2> QED
    BY <2>1 DEF Shows, Writes
<1>4. CASE UNCHANGED vars
  BY <1>4 DEF vars, source, reader, Shows, Writes, Returnless, Earlier
<1>5. ASSUME \/ Blank \/ SingleQuoted \/ SingleUnclosed \/ OpenDouble \/ CloseDouble
             \/ QuotedEscape \/ QuotedChar \/ DoubleUnclosed
             \/ Escape \/ TrailingEscape \/ Plain \/ EndOfLine
      PROVE  Shows'
  <2>1. /\ phase = "tokenize" /\ phase' \in {"tokenize", "done"}
        /\ command' = command /\ line' = line /\ Returnless' = Returnless
    BY <1>5 DEF Blank, SingleQuoted, SingleUnclosed, OpenDouble, CloseDouble, QuotedEscape,
                QuotedChar, DoubleUnclosed, Escape, TrailingEscape, Plain, EndOfLine,
                Bare, EscapesInside, Reading, Stays, Fails, source, Returnless
  <2> QED
    BY <2>1 DEF Shows, Writes
<1> QED
  BY <1>1, <1>2, <1>3, <1>4, <1>5 DEF Next, Terminated

LEMMA ShowsAlways == Spec => []Shows
<1>1. Init => Shows
  <2> SUFFICES ASSUME Init PROVE Shows
    OBVIOUS
  <2>1. phase = "render" => command # <<>>
    BY DEF Init
  <2>2. phase = "typed" => command = <<>>
    BY DEF Init
  <2> QED
    BY <2>1, <2>2 DEF Init, Shows, Writes
<1>2. Typed /\ Shows /\ [Next]_vars => Shows'
  BY ShowsNext
<1> QED
  BY <1>1, <1>2, TypedAlways, PTL DEF Spec

(***************************************************************************)
(* command.cpp:25-57: whatever the command, but for a carriage return in   *)
(* it (and a zero), a reader of the line that the user confirms finds the  *)
(* very words that are run.                                                *)
(***************************************************************************)
THEOREM ShownIsAlwaysRun == Spec => []ShownIsRun
<1>1. Typed /\ Follows /\ Shows => ShownIsRun
  <2> SUFFICES ASSUME Typed, Follows, Shows, phase = "done", command # <<>>, ~Holds(Return)
               PROVE  error = "none" /\ words = command
    BY DEF ShownIsRun
  <2>1. Returnless
    BY DEF Holds, Returnless
  <2>2. ErrorIn(Read(line)) = "none" /\ WordsIn(Read(line)) = command
    BY <2>1 DEF Shows
  <2> QED
    BY <2>2 DEF Follows, ReadsAsAShell
<1> QED
  BY <1>1, TypedAlways, FollowsAlways, ShowsAlways, PTL

-------------------------------------------------------------------------------
(***************************************************************************)
(* The reader never looks at the words it has found already: what it is    *)
(* fed changes the rest, and adds words behind.                            *)
(***************************************************************************)
Adds(mode, w, c, mode2, w2, more) ==
    /\ mode2 \in Modes /\ w2 \in Text /\ more \in Seq(Text)
    /\ \A ws \in Seq(Text) : Feed(At(mode, w, ws), c) = At(mode2, w2, ws \o more)

LEMMA FeedAdds ==
    ASSUME NEW mode \in Modes, NEW w \in Text, NEW c \in Characters
    PROVE  \E mode2, w2, more : Adds(mode, w, c, mode2, w2, more)
<1>1. /\ <<>> \in Text /\ <<>> \in Seq(Text) /\ <<w>> \in Seq(Text)
      /\ w \o <<c>> \in Text /\ (w \o <<Backslash>>) \o <<c>> \in Text
      /\ \A ws \in Seq(Text) : ws \o <<>> = ws /\ Append(ws, w) = ws \o <<w>>
  <2>1. <<>> \in Text /\ w \o <<c>> \in Text /\ w \o <<Backslash>> \in Text
    BY DEF Text
  <2>2. (w \o <<Backslash>>) \o <<c>> \in Text
    BY <2>1 DEF Text
  <2>3. <<>> \in Seq(Text) /\ <<w>> \in Seq(Text)
    OBVIOUS
  <2>4. \A ws \in Seq(Text) : ws \o <<>> = ws /\ Append(ws, w) = ws \o <<w>>
    OBVIOUS
  <2> QED
    BY <2>1, <2>2, <2>3, <2>4
<1>2. ASSUME NEW mode2 \in Modes, NEW w2 \in Text,
             \A ws \in Seq(Text) : Feed(At(mode, w, ws), c) = At(mode2, w2, ws)
      PROVE  Adds(mode, w, c, mode2, w2, <<>>)
  BY <1>1, <1>2 DEF Adds
<1>3. CASE mode \in {"between", "word"}
  <2>1. CASE c \in {Single, Double, Backslash}
    <3>1. PICK mode2 \in {"single", "double", "escape"} :
             \A ws \in Seq(Text) : Feed(At(mode, w, ws), c) = At(mode2, w, ws)
      BY <1>3, <2>1, FeedMark
    <3>2. mode2 \in Modes
      BY DEF Modes
    <3> QED
      BY <1>2, <3>1, <3>2
  <2>2. CASE c \in Blanks /\ mode = "between"
    <3>1. \A ws \in Seq(Text) : Feed(At(mode, w, ws), c) = At(mode, w, ws)
      BY <1>3, <2>2, BlankBetween
    <3> QED
      BY <1>2, <3>1
  <2>3. CASE c \in Blanks /\ mode = "word"
    <3>1. \A ws \in Seq(Text) : Feed(At(mode, w, ws), c) = At("between", <<>>, Append(ws, w))
      BY <1>3, <2>3, BlankAfterWord
    <3>2. Adds(mode, w, c, "between", <<>>, <<w>>)
      BY <1>1, <3>1 DEF Adds, Modes
    <3> QED
      BY <3>2
  <2>4. CASE c \notin Blanks \cup {Single, Double, Backslash}
    <3>1. \A ws \in Seq(Text) : Feed(At(mode, w, ws), c) = At("word", w \o <<c>>, ws)
      BY <1>3, <2>4, PlainTaken
    <3>2. "word" \in Modes
      BY DEF Modes
    <3> QED
      BY <1>1, <1>2, <3>1, <3>2
  <2> QED
    BY <1>3, <2>1, <2>2, <2>3, <2>4
<1>4. CASE mode = "escape"
  <2>1. \A ws \in Seq(Text) : Feed(At(mode, w, ws), c) = At("word", w \o <<c>>, ws)
    BY <1>4, FeedQuoting
  <2>2. "word" \in Modes
    BY DEF Modes
  <2> QED
    BY <1>1, <1>2, <2>1, <2>2
<1>5. CASE mode = "single"
  <2>1. CASE c = Single
    <3>1. \A ws \in Seq(Text) : Feed(At(mode, w, ws), c) = At("word", w, ws)
      BY <1>5, <2>1, FeedMarkInside
    <3>2. "word" \in Modes
      BY DEF Modes
    <3> QED
      BY <1>2, <3>1, <3>2
  <2>2. CASE c # Single
    <3>1. \A ws \in Seq(Text) : Feed(At(mode, w, ws), c) = At("single", w \o <<c>>, ws)
      BY <1>5, <2>2, FeedQuoting
    <3>2. "single" \in Modes
      BY DEF Modes
    <3> QED
      BY <1>1, <1>2, <3>1, <3>2
  <2> QED
    BY <2>1, <2>2
<1>6. CASE mode = "double"
  <2>1. CASE c = Double
    <3>1. \A ws \in Seq(Text) : Feed(At(mode, w, ws), c) = At("word", w, ws)
      BY <1>6, <2>1, FeedMarkInside
    <3>2. "word" \in Modes
      BY DEF Modes
    <3> QED
      BY <1>2, <3>1, <3>2
  <2>2. CASE c = Backslash
    <3>1. \A ws \in Seq(Text) : Feed(At(mode, w, ws), c) = At("pending", w, ws)
      BY <1>6, <2>2, FeedMarkInside
    <3>2. "pending" \in Modes
      BY DEF Modes
    <3> QED
      BY <1>2, <3>1, <3>2
  <2>3. CASE c \notin {Double, Backslash}
    <3>1. \A ws \in Seq(Text) : Feed(At(mode, w, ws), c) = At("double", w \o <<c>>, ws)
      BY <1>6, <2>3, FeedQuoting
    <3>2. "double" \in Modes
      BY DEF Modes
    <3> QED
      BY <1>1, <1>2, <3>1, <3>2
  <2> QED
    BY <2>1, <2>2, <2>3
<1>7. CASE mode = "pending"
  <2>1. PICK w2 \in Text : \A ws \in Seq(Text) : Feed(At(mode, w, ws), c) = At("double", w2, ws)
    <3>1. CASE c \in {Double, Backslash}
      <4>1. \A ws \in Seq(Text) : Feed(At(mode, w, ws), c) = At("double", w \o <<c>>, ws)
        BY <1>7, <3>1, FeedQuoting
      <4> QED
        BY <1>1, <4>1
    <3>2. CASE c \notin {Double, Backslash}
      <4>1. \A ws \in Seq(Text) :
               Feed(At(mode, w, ws), c) = At("double", (w \o <<Backslash>>) \o <<c>>, ws)
        BY <1>7, <3>2, FeedQuoting
      <4> QED
        BY <1>1, <4>1
    <3> QED
      BY <3>1, <3>2
  <2>2. "double" \in Modes
    BY DEF Modes
  <2> QED
    BY <1>2, <2>1, <2>2
<1> QED
  BY <1>3, <1>4, <1>5, <1>6, <1>7 DEF Modes

Shift(pre, s) == At(s.mode, s.word, pre \o s.words)

LEMMA FeedShift ==
    ASSUME NEW s \in States, NEW c \in Characters, NEW pre \in Seq(Text)
    PROVE  Feed(s, c) \in States /\ Feed(Shift(pre, s), c) = Shift(pre, Feed(s, c))
<1> DEFINE mode == s.mode
           w == s.word
           ws == s.words
<1>1. mode \in Modes /\ w \in Text /\ ws \in Seq(Text) /\ s = At(mode, w, ws)
  BY DEF States, At
<1>2. Shift(pre, s) = At(mode, w, pre \o ws)
  BY DEF Shift
<1> HIDE DEF mode, w, ws
<1>3. PICK mode2, w2, more : Adds(mode, w, c, mode2, w2, more)
  BY <1>1, FeedAdds
<1>4. /\ mode2 \in Modes /\ w2 \in Text /\ more \in Seq(Text)
      /\ \A q \in Seq(Text) : Feed(At(mode, w, q), c) = At(mode2, w2, q \o more)
  BY <1>3 DEF Adds
<1>5. pre \o ws \in Seq(Text) /\ (pre \o ws) \o more = pre \o (ws \o more)
  BY <1>1, <1>4, Joined
<1>6. ws \o more \in Seq(Text)
  BY <1>1, <1>4, Joined
<1>7. Feed(s, c) = At(mode2, w2, ws \o more)
  BY <1>1, <1>4
<1>8. Feed(Shift(pre, s), c) = At(mode2, w2, (pre \o ws) \o more)
  BY <1>2, <1>4, <1>5
<1>9. Feed(s, c) \in States
  BY <1>4, <1>6, <1>7 DEF States, At
<1>10. Shift(pre, Feed(s, c)) = At(mode2, w2, pre \o (ws \o more))
  BY <1>7 DEF Shift, At
<1> QED
  BY <1>5, <1>8, <1>9, <1>10

LEMMA Upwards ==
    ASSUME NEW m \in Nat, NEW n \in Nat, m <= n, NEW P, m \in P,
           \A k \in Nat : (m <= k /\ k < n /\ k \in P) => k + 1 \in P
    PROVE  n \in P
<1> DEFINE Q == {d \in Nat : m + d <= n => m + d \in P}
<1>1. 0 \in Q
  <2>1. m + 0 = m
    OBVIOUS
  <2> QED
    BY <2>1
<1>2. \A d \in Q : d + 1 \in Q
  <2> SUFFICES ASSUME NEW d \in Q, m + (d + 1) <= n PROVE m + (d + 1) \in P
    OBVIOUS
  <2>1. m + d \in Nat /\ m <= m + d /\ m + d < n /\ m + d <= n /\ m + (d + 1) = (m + d) + 1
    OBVIOUS
  <2>2. m + d \in P
    BY <2>1
  <2> QED
    BY <2>1, <2>2
<1>3. Q \in SUBSET Nat
  OBVIOUS
<1>4. n - m \in Nat /\ m + (n - m) = n
  OBVIOUS
<1>5. n - m \in Q
  <2> HIDE DEF Q
  <2> QED
    BY <1>1, <1>2, <1>3, <1>4, Reader!Induction
<1> QED
  BY <1>4, <1>5

(***************************************************************************)
(* What is read after a blank is read as if the line began there.          *)
(***************************************************************************)
LEMMA ReadShifted ==
    ASSUME NEW t \in Text, NEW u \in Text, NEW m \in Nat, NEW pre \in Seq(Text),
           Read(Prefix(t, m)) = At("between", <<>>, pre),
           m + Len(u) <= Len(t), \A k \in 1..Len(u) : t[m + k] = u[k]
    PROVE  Read(u) \in States /\ Read(Prefix(t, m + Len(u))) = Shift(pre, Read(u))
<1> DEFINE P == {k \in Nat : /\ Read(Prefix(u, k)) \in States
                             /\ Read(Prefix(t, m + k)) = Shift(pre, Read(Prefix(u, k)))}
<1>1. Len(u) \in Nat /\ Len(t) \in Nat /\ Prefix(u, Len(u)) = u
  BY PrefixBounds DEF Text
<1>2. 0 \in P
  <2>1. Read(Prefix(u, 0)) = At("between", <<>>, <<>>)
    BY PrefixBounds, ReadNothing DEF Start
  <2>2. At("between", <<>>, <<>>) \in States
    <3>1. <<>> \in Text /\ <<>> \in Seq(Text) /\ "between" \in Modes
      BY DEF Text, Modes
    <3> QED
      BY <3>1 DEF States, At
  <2>3. Shift(pre, At("between", <<>>, <<>>)) = At("between", <<>>, pre)
    BY DEF Shift, At
  <2>4. m + 0 = m
    OBVIOUS
  <2> QED
    BY <2>1, <2>2, <2>3, <2>4
<1>3. ASSUME NEW k \in Nat, k < Len(u), k \in P PROVE k + 1 \in P
  <2>1. /\ k + 1 \in 1..Len(u) /\ m + k \in Nat /\ m + k < Len(t)
        /\ m + (k + 1) = (m + k) + 1
    BY <1>1, <1>3
  <2>2. u[k + 1] \in Characters /\ Read(Prefix(u, k + 1)) = Feed(Read(Prefix(u, k)), u[k + 1])
    BY <1>3, ReadPrefix
  <2>3. Read(Prefix(t, (m + k) + 1)) = Feed(Read(Prefix(t, m + k)), t[(m + k) + 1])
    BY <2>1, ReadPrefix
  <2>4. t[(m + k) + 1] = u[k + 1]
    BY <2>1
  <2> DEFINE s == Read(Prefix(u, k))
             c == u[k + 1]
  <2>5. s \in States /\ Read(Prefix(t, m + k)) = Shift(pre, s)
    BY <1>3
  <2>6. c \in Characters
    BY <2>2
  <2> HIDE DEF s, c
  <2>7. Feed(s, c) \in States /\ Feed(Shift(pre, s), c) = Shift(pre, Feed(s, c))
    BY <2>5, <2>6, FeedShift
  <2>8. /\ Read(Prefix(u, k + 1)) = Feed(s, c)
        /\ Read(Prefix(t, m + (k + 1))) = Feed(Shift(pre, s), c)
    BY <2>1, <2>2, <2>3, <2>4, <2>5 DEF s, c
  <2>9. k + 1 \in Nat
    OBVIOUS
  <2> QED
    BY <2>7, <2>8, <2>9
<1>4. Len(u) \in P
  <2> HIDE DEF P
  <2>1. 0 \in Nat /\ 0 <= Len(u)
    BY <1>1
  <2> QED
    BY <1>1, <1>2, <1>3, <2>1, Upwards
<1> QED
  BY <1>1, <1>4

(***************************************************************************)
(* Blanks between words are nothing.                                       *)
(***************************************************************************)
LEMMA ReadBlanks ==
    ASSUME NEW t \in Text, NEW m \in Nat, NEW n \in Nat, m <= n, n <= Len(t),
           NEW pre \in Seq(Text), Read(Prefix(t, m)) = At("between", <<>>, pre),
           \A k \in (m + 1)..n : t[k] \in Blanks
    PROVE  Read(Prefix(t, n)) = At("between", <<>>, pre)
<1> DEFINE P == {k \in Nat : Read(Prefix(t, k)) = At("between", <<>>, pre)}
<1>1. Len(t) \in Nat /\ <<>> \in Text
  BY DEF Text
<1>2. ASSUME NEW k \in Nat, m <= k, k < n, k \in P PROVE k + 1 \in P
  <2>1. k + 1 \in (m + 1)..n /\ k < Len(t) /\ k + 1 \in Nat
    BY <1>1, <1>2
  <2>2. /\ t[k + 1] \in Characters
        /\ Read(Prefix(t, k + 1)) = Feed(Read(Prefix(t, k)), t[k + 1])
    BY <2>1, ReadPrefix
  <2>3. t[k + 1] \in Blanks
    BY <2>1
  <2>4. Feed(At("between", <<>>, pre), t[k + 1]) = At("between", <<>>, pre)
    BY <1>1, <2>2, <2>3, BlankBetween
  <2> QED
    BY <1>2, <2>1, <2>2, <2>4
<1>3. n \in P
  <2>1. m \in P
    OBVIOUS
  <2> HIDE DEF P
  <2> QED
    BY <1>2, <2>1, Upwards
<1> QED
  BY <1>3

(***************************************************************************)
(* Blanks behind a text that does not end in a backslash change neither    *)
(* its words nor its error.                                                *)
(***************************************************************************)
Same(r, s) ==
    /\ r \in States /\ r.mode # "escape"
    /\ ErrorIn(r) = ErrorIn(s)
    /\ ErrorIn(s) = "none" => WordsIn(r) = WordsIn(s)

LEMMA FeedBlank ==
    ASSUME NEW s \in States, s.mode # "escape", NEW c \in Blanks
    PROVE  Same(Feed(s, c), s)
<1> DEFINE mode == s.mode
           w == s.word
           ws == s.words
           r == Feed(s, c)
<1> SUFFICES Same(r, s)
  OBVIOUS
<1>1. mode \in Modes /\ w \in Text /\ ws \in Seq(Text) /\ s = At(mode, w, ws)
  BY DEF States, At
<1>2. c \in Characters /\ c \notin {Single, Double, Backslash}
  BY DEF Blanks, Space, Tab, Newline, Return, Single, Double, Backslash
<1>3. r \in States
  <2>1. <<>> \in Seq(Text)
    OBVIOUS
  <2> QED
    BY <1>2, <2>1, FeedShift
<1> HIDE DEF mode, w, ws
<1>4. CASE mode = "between"
  <2>1. r = s
    BY <1>1, <1>2, <1>4, BlankBetween
  <2> HIDE DEF r
  <2> QED
    BY <1>3, <2>1 DEF Same
<1>5. CASE mode = "word"
  <2>1. r = At("between", <<>>, Append(ws, w))
    BY <1>1, <1>2, <1>5, BlankAfterWord
  <2>2. s = At("word", w, ws)
    BY <1>1, <1>5
  <2> HIDE DEF r
  <2>3. r.mode # "escape" /\ ErrorIn(r) = "none" /\ WordsIn(r) = Append(ws, w)
    BY <2>1 DEF ErrorIn, WordsIn, At
  <2>4. ErrorIn(s) = "none" /\ WordsIn(s) = Append(ws, w)
    BY <2>2 DEF ErrorIn, WordsIn, At
  <2> QED
    BY <1>3, <2>3, <2>4 DEF Same
<1>6. CASE mode \in {"single", "double", "pending"}
  <2>1. r.mode \in {"single", "double"}
    <3>1. CASE mode = "single"
      <4>1. Feed(At("single", w, ws), c) = At("single", w \o <<c>>, ws)
        BY <1>1, <1>2, FeedQuoting
      <4> QED
        BY <1>1, <3>1, <4>1 DEF At
    <3>2. CASE mode = "double"
      <4>1. Feed(At("double", w, ws), c) = At("double", w \o <<c>>, ws)
        BY <1>1, <1>2, FeedQuoting
      <4> QED
        BY <1>1, <3>2, <4>1 DEF At
    <3>3. CASE mode = "pending"
      <4>1. Feed(At("pending", w, ws), c) = At("double", (w \o <<Backslash>>) \o <<c>>, ws)
        BY <1>1, <1>2, FeedQuoting
      <4> QED
        BY <1>1, <3>3, <4>1 DEF At
    <3> QED
      BY <1>6, <3>1, <3>2, <3>3
  <2> HIDE DEF r
  <2>2. ErrorIn(r) = "UnterminatedQuote" /\ ErrorIn(s) = "UnterminatedQuote"
    BY <1>6, <2>1 DEF ErrorIn, mode
  <2> QED
    BY <1>3, <2>1, <2>2 DEF Same
<1> QED
  BY <1>1, <1>4, <1>5, <1>6 DEF Modes, mode

LEMMA BlanksBehind ==
    ASSUME NEW t \in Text, NEW n \in Nat, n <= Len(t),
           Read(Prefix(t, n)) \in States, Read(Prefix(t, n)).mode # "escape",
           \A k \in (n + 1)..Len(t) : t[k] \in Blanks
    PROVE  Same(Read(t), Read(Prefix(t, n)))
<1> DEFINE s == Read(Prefix(t, n))
           P == {k \in Nat : Same(Read(Prefix(t, k)), s)}
<1>1. Len(t) \in Nat /\ Prefix(t, Len(t)) = t
  BY PrefixBounds DEF Text
<1>2. ASSUME NEW k \in Nat, n <= k, k < Len(t), k \in P PROVE k + 1 \in P
  <2>1. k + 1 \in (n + 1)..Len(t) /\ k + 1 \in Nat
    BY <1>1, <1>2
  <2>2. Read(Prefix(t, k + 1)) = Feed(Read(Prefix(t, k)), t[k + 1])
    BY <1>2, ReadPrefix
  <2> DEFINE r == Read(Prefix(t, k))
             c == t[k + 1]
  <2>3. c \in Blanks
    BY <2>1
  <2>4. Same(r, s)
    BY <1>2
  <2> HIDE DEF r, c, s
  <2>5. Same(Feed(r, c), r)
    BY <2>3, <2>4, FeedBlank DEF Same
  <2>6. Same(Feed(r, c), s)
    BY <2>4, <2>5 DEF Same
  <2>7. Same(Read(Prefix(t, k + 1)), s)
    BY <2>2, <2>6 DEF r, c
  <2> QED
    BY <2>1, <2>7
<1>3. n \in P
  BY DEF Same
<1>4. Len(t) \in P
  <2> HIDE DEF P
  <2> QED
    BY <1>1, <1>2, <1>3, Upwards
<1> QED
  BY <1>1, <1>4

-------------------------------------------------------------------------------
(***************************************************************************)
(* The word cd and what comes behind it.                                   *)
(***************************************************************************)
Cd == <<"c", "d">>

LEMMA ReadCd ==
    ASSUME NEW t \in Text, NEW m \in Nat, m + 2 <= Len(t),
           t[m + 1] = "c", t[m + 2] = "d", Read(Prefix(t, m)) = Start
    PROVE  /\ Cd \in Text /\ Read(Prefix(t, m + 2)) = At("word", Cd, <<>>)
           /\ (m + 3 <= Len(t) /\ t[m + 3] = Space) =>
                 Read(Prefix(t, m + 3)) = At("between", <<>>, <<Cd>>)
<1>1. /\ Len(t) \in Nat /\ m < Len(t) /\ m + 1 < Len(t) /\ m + 1 \in Nat /\ m + 2 \in Nat
      /\ (m + 1) + 1 = m + 2 /\ (m + 2) + 1 = m + 3 /\ (m + 3 <= Len(t) => m + 2 < Len(t))
  BY DEF Text
<1>2. /\ "c" \in Characters /\ Read(Prefix(t, m + 1)) = Feed(Start, "c")
  BY <1>1, ReadPrefix
<1>3. /\ "d" \in Characters /\ Read(Prefix(t, m + 2)) = Feed(Read(Prefix(t, m + 1)), "d")
  <2>1. /\ t[(m + 1) + 1] \in Characters
        /\ Read(Prefix(t, (m + 1) + 1)) = Feed(Read(Prefix(t, m + 1)), t[(m + 1) + 1])
    BY <1>1, ReadPrefix
  <2> QED
    BY <1>1, <2>1
<1>4. /\ "c" \notin Blanks \cup {Single, Double, Backslash}
      /\ "d" \notin Blanks \cup {Single, Double, Backslash}
  BY DEF Blanks, Space, Tab, Newline, Return, Single, Double, Backslash
<1>5. <<>> \in Text /\ <<>> \in Seq(Text)
  BY DEF Text
<1>6. Feed(At("between", <<>>, <<>>), "c") = At("word", <<>> \o <<"c">>, <<>>)
  BY <1>2, <1>4, <1>5, PlainTaken
<1>7. <<>> \o <<"c">> = <<"c">> /\ <<"c">> \in Text /\ <<"c">> \o <<"d">> = Cd /\ Cd \in Text
  <2>1. <<>> \o <<"c">> = <<"c">>
    OBVIOUS
  <2>2. <<"c">> \o <<"d">> = <<"c", "d">>
    <3> DEFINE a == <<"c">> \o <<"d">>
               b == <<"c", "d">>
    <3>1. a \in Seq({"c", "d"}) /\ Len(a) = 2 /\ a[1] = "c" /\ a[2] = "d"
      OBVIOUS
    <3>2. b \in Seq({"c", "d"}) /\ Len(b) = 2 /\ b[1] = "c" /\ b[2] = "d"
      OBVIOUS
    <3> HIDE DEF a, b
    <3>3. \A k \in 1..2 : a[k] = b[k]
      BY <3>1, <3>2
    <3>4. a = b
      BY <3>1, <3>2, <3>3
    <3> QED
      BY <3>4 DEF a, b
  <2>3. <<"c">> \in Text /\ <<"c", "d">> \in Text
    BY <1>2, <1>3 DEF Text
  <2> QED
    BY <2>1, <2>2, <2>3 DEF Cd
<1>8. Feed(At("word", <<"c">>, <<>>), "d") = At("word", <<"c">> \o <<"d">>, <<>>)
  <2> DEFINE w == <<"c">>
             ws == <<>>
             c == "d"
             mode == "word"
  <2>1. /\ w \in Text /\ ws \in Seq(Text) /\ mode \in {"between", "word"}
        /\ c \in Characters /\ c \notin Blanks \cup {Single, Double, Backslash}
    BY <1>3, <1>4, <1>5, <1>7
  <2> HIDE DEF w, ws, c, mode
  <2>2. Feed(At(mode, w, ws), c) = At("word", w \o <<c>>, ws)
    BY <2>1, PlainTaken
  <2> QED
    BY <2>2 DEF w, ws, c, mode
<1>9. Read(Prefix(t, m + 2)) = At("word", Cd, <<>>)
  BY <1>2, <1>3, <1>6, <1>7, <1>8 DEF Start
<1>10. ASSUME m + 3 <= Len(t), t[m + 3] = Space
       PROVE  Read(Prefix(t, m + 3)) = At("between", <<>>, <<Cd>>)
  <2>1. Read(Prefix(t, (m + 2) + 1)) = Feed(Read(Prefix(t, m + 2)), t[(m + 2) + 1])
    BY <1>1, <1>10, ReadPrefix
  <2>2. Space \in Characters /\ Space \in Blanks
    BY DEF Blanks
  <2>3. Feed(At("word", Cd, <<>>), Space) = At("between", <<>>, Append(<<>>, Cd))
    BY <1>5, <1>7, <2>2, BlankAfterWord
  <2>4. Append(<<>>, Cd) = <<Cd>>
    OBVIOUS
  <2> QED
    BY <1>1, <1>9, <1>10, <2>1, <2>3, <2>4
<1> QED
  BY <1>7, <1>9, <1>10

(***************************************************************************)
(* A word put before others leaves the error and comes first.              *)
(***************************************************************************)
LEMMA ShiftedWords ==
    ASSUME NEW s \in States, NEW pre \in Seq(Text)
    PROVE  /\ Shift(pre, s) \in States /\ Shift(pre, s).mode = s.mode
           /\ ErrorIn(Shift(pre, s)) = ErrorIn(s)
           /\ WordsIn(Shift(pre, s)) = pre \o WordsIn(s)
<1> DEFINE w == s.word
           ws == s.words
<1>1. w \in Text /\ ws \in Seq(Text) /\ s.mode \in Modes
  BY DEF States
<1>2. Shift(pre, s) = At(s.mode, w, pre \o ws)
  BY DEF Shift
<1>3. pre \o ws \in Seq(Text)
  BY <1>1
<1>4. Append(pre \o ws, w) = pre \o Append(ws, w)
  <2> HIDE DEF w, ws
  <2>1. Append(pre \o ws, w) = (pre \o ws) \o <<w>> /\ Append(ws, w) = ws \o <<w>>
    BY <1>1, <1>3, AppendIsConcat, Zenon
  <2>2. <<w>> \in Seq(Text)
    BY <1>1
  <2>3. (pre \o ws) \o <<w>> = pre \o (ws \o <<w>>)
    BY <1>1, <2>2, Joined
  <2> QED
    BY <2>1, <2>3
<1>5. Shift(pre, s) \in States /\ Shift(pre, s).mode = s.mode
  BY <1>1, <1>2, <1>3 DEF States, At
<1>6. ErrorIn(Shift(pre, s)) = ErrorIn(s)
  BY <1>5 DEF ErrorIn
<1>7. WordsIn(Shift(pre, s)) = pre \o WordsIn(s)
  <2>1. CASE s.mode = "word"
    <3>1. WordsIn(s) = Append(ws, w)
      BY <2>1 DEF WordsIn
    <3>2. WordsIn(Shift(pre, s)) = Append(pre \o ws, w)
      BY <1>2, <2>1 DEF WordsIn, At
    <3> QED
      BY <1>4, <3>1, <3>2
  <2>2. CASE s.mode # "word"
    BY <1>2, <2>2 DEF WordsIn, At
  <2> QED
    BY <2>1, <2>2
<1> QED
  BY <1>5, <1>6, <1>7

(***************************************************************************)
(* A line that is cd and a word behind it, or cd alone: its bounds.        *)
(***************************************************************************)
LEMMA CdLine ==
    ASSUME NEW t \in Text, IsCd(t)
    PROVE  /\ Len(t) \in Nat /\ Len(t) >= 2 /\ t[1] = "c" /\ t[2] = "d"
           /\ Len(t) = 2 \/ t[3] = Space
<1>1. Len(t) \in Nat
  BY DEF Text
<1>2. CASE t = <<"c", "d">>
  BY <1>1, <1>2
<1>3. CASE IsPrefix(<<"c", "d", Space>>, t)
  <2> DEFINE p == <<"c", "d", Space>>
  <2>1. Len(p) = 3 /\ p \in Seq({"c", "d", Space})
    OBVIOUS
  <2>2. 3 <= Len(t) /\ SubSeq(p, 1, 3) = SubSeq(t, 1, 3)
    BY <1>3, <2>1 DEF IsPrefix
  <2>3. SubSeq(t, 1, 3)[1] = t[1] /\ SubSeq(t, 1, 3)[2] = t[2] /\ SubSeq(t, 1, 3)[3] = t[3]
    BY <1>1, <2>2 DEF Text
  <2>4. p[1] = "c" /\ p[2] = "d" /\ p[3] = Space
    OBVIOUS
  <2> HIDE DEF p
  <2>5. SubSeq(p, 1, 3)[1] = p[1] /\ SubSeq(p, 1, 3)[2] = p[2] /\ SubSeq(p, 1, 3)[3] = p[3]
    BY <2>1
  <2> QED
    BY <1>1, <2>2, <2>3, <2>4, <2>5
<1> QED
  BY <1>2, <1>3 DEF IsCd

(***************************************************************************)
(* What trim cuts out of a text, character by character.                   *)
(***************************************************************************)
LEMMA Cut ==
    ASSUME NEW t \in Text, NEW m \in 1..Len(t), NEW n \in 1..Len(t), m <= n
    PROVE  /\ SubSeq(t, m, n) \in Text /\ Len(SubSeq(t, m, n)) = (n - m) + 1
           /\ \A k \in 1..((n - m) + 1) : SubSeq(t, m, n)[k] = t[(m - 1) + k]
  BY DEF Text

(***************************************************************************)
(* A text that begins with a blank but does not end in one keeps its end.  *)
(***************************************************************************)
LEMMA TrimKeepsEnd ==
    ASSUME NEW t \in Text, t # <<>>, t[Len(t)] \notin Blanks
    PROVE  \E m \in 1..Len(t) : /\ trim(t) = SubSeq(t, m, Len(t))
                                /\ t[m] \notin Blanks
                                /\ \A k \in 1..(m - 1) : t[k] \in Blanks
<1>1. Len(t) \in 1..Len(t)
  BY DEF Text
<1>2. PICK m, n \in 1..Len(t) : Bounds(t, m, n) /\ trim(t) = SubSeq(t, m, n)
  BY <1>1, Trims
<1>3. n = Len(t)
  BY <1>1, <1>2 DEF Bounds
<1> QED
  BY <1>2, <1>3 DEF Bounds

(***************************************************************************)
(* The cd with blanks before it, and what is left of the line when they    *)
(* and the cd are cut off.                                                 *)
(***************************************************************************)
LEMMA CutIsHarmless ==
    ASSUME NEW t \in Text, IsCd(trim(t)), Read(trim(t)).mode # "escape"
    PROVE  LET target == trim(AfterCd(trim(t)))
           IN  /\ ErrorIn(Read(target)) = ErrorIn(Read(t))
               /\ ErrorIn(Read(t)) = "none" =>
                     <<Cd>> \o WordsIn(Read(target)) = WordsIn(Read(t))
<1> DEFINE x == trim(t)
           rest == AfterCd(x)
           target == trim(rest)
<1>1. x \in Text
  BY TrimType
<1>2. /\ Len(x) \in Nat /\ Len(x) >= 2 /\ x[1] = "c" /\ x[2] = "d"
      /\ Len(x) = 2 \/ x[3] = Space
  BY <1>1, CdLine
<1>3. PICK m, n \in 1..Len(t) : Bounds(t, m, n) /\ x = SubSeq(t, m, n)
  <2>1. x # <<>>
    BY <1>2
  <2> QED
    BY <2>1, Trims
<1>4. /\ m <= n /\ t[n] \notin Blanks
      /\ \A k \in 1..(m - 1) : t[k] \in Blanks
      /\ \A k \in (n + 1)..Len(t) : t[k] \in Blanks
  BY <1>3 DEF Bounds
<1>5. Len(x) = (n - m) + 1 /\ \A k \in 1..((n - m) + 1) : x[k] = t[(m - 1) + k]
  BY <1>3, <1>4, Cut
<1>6. /\ Len(t) \in Nat /\ m - 1 \in Nat /\ m - 1 <= Len(t) /\ n \in Nat /\ n <= Len(t)
      /\ (m - 1) + Len(x) = n /\ (m - 1) + 2 <= Len(t)
  BY <1>2, <1>4, <1>5 DEF Text
<1>7. <<>> \in Text /\ <<>> \in Seq(Text) /\ <<Cd>> \o <<>> = <<Cd>>
  BY DEF Text
<1> HIDE DEF x
<1>8. Read(Prefix(t, m - 1)) = At("between", <<>>, <<>>)
  <2>1. Read(Prefix(t, 0)) = At("between", <<>>, <<>>)
    BY PrefixBounds, ReadNothing DEF Start
  <2> DEFINE zero == 0
             n0 == m - 1
  <2>2. /\ zero \in Nat /\ n0 \in Nat /\ zero <= n0 /\ n0 <= Len(t)
        /\ \A k \in (zero + 1)..n0 : t[k] \in Blanks
    BY <1>4, <1>6
  <2>3. Read(Prefix(t, zero)) = At("between", <<>>, <<>>)
    BY <2>1
  <2> HIDE DEF zero, n0
  <2>4. Read(Prefix(t, n0)) = At("between", <<>>, <<>>)
    BY <1>7, <2>2, <2>3, ReadBlanks
  <2> QED
    BY <2>4 DEF n0
<1>9. Read(Prefix(t, n)) \in States /\ Read(Prefix(t, n)).mode # "escape"
  <2>1. \A k \in 1..Len(x) : t[(m - 1) + k] = x[k]
    BY <1>5
  <2>2. Read(x) \in States /\ Read(Prefix(t, (m - 1) + Len(x))) = Shift(<<>>, Read(x))
    BY <1>1, <1>6, <1>7, <1>8, <2>1, ReadShifted
  <2>3. Shift(<<>>, Read(x)) \in States /\ Shift(<<>>, Read(x)).mode = Read(x).mode
    BY <1>7, <2>2, ShiftedWords
  <2>4. Read(x).mode # "escape"
    BY DEF x
  <2> QED
    BY <1>6, <2>2, <2>3, <2>4
<1>10. Same(Read(t), Read(Prefix(t, n)))
  BY <1>4, <1>6, <1>9, BlanksBehind
<1>11. /\ Cd \in Text /\ Read(Prefix(t, (m - 1) + 2)) = At("word", Cd, <<>>)
       /\ ((m - 1) + 3 <= Len(t) /\ t[(m - 1) + 3] = Space) =>
              Read(Prefix(t, (m - 1) + 3)) = At("between", <<>>, <<Cd>>)
  <2>1. 1 \in 1..((n - m) + 1) /\ 2 \in 1..((n - m) + 1)
    BY <1>2, <1>5, <1>6
  <2>2. t[(m - 1) + 1] = "c" /\ t[(m - 1) + 2] = "d"
    BY <1>2, <1>5, <2>1
  <2> QED
    BY <1>6, <1>8, <2>2, ReadCd DEF Start
<1>12. /\ ErrorIn(Read(target)) = ErrorIn(Read(Prefix(t, n)))
       /\ <<Cd>> \o WordsIn(Read(target)) = WordsIn(Read(Prefix(t, n)))
  <2>1. CASE Len(x) = 2
    <3>1. rest = <<>>
      BY <1>1, <2>1 DEF AfterCd, Text
    <3>2. target = <<>>
      <4>1. \A k \in DOMAIN <<>> : FALSE
        OBVIOUS
      <4> HIDE DEF rest
      <4> QED
        BY <3>1, <4>1 DEF trim
    <3>3. Read(target) = At("between", <<>>, <<>>)
      BY <3>2, ReadNothing DEF Start
    <3>4. (m - 1) + 2 = n
      BY <1>6, <2>1
    <3>5. Read(Prefix(t, n)) = At("word", Cd, <<>>)
      BY <1>11, <3>4
    <3>6. Append(<<>>, Cd) = <<Cd>>
      OBVIOUS
    <3> HIDE DEF target
    <3>7. ErrorIn(Read(target)) = "none" /\ WordsIn(Read(target)) = <<>>
      BY <3>3 DEF ErrorIn, WordsIn, At
    <3>8. ErrorIn(Read(Prefix(t, n))) = "none" /\ WordsIn(Read(Prefix(t, n))) = <<Cd>>
      BY <3>5, <3>6 DEF ErrorIn, WordsIn, At
    <3> QED
      BY <1>7, <3>7, <3>8
  <2>2. CASE Len(x) # 2
    <3>1. /\ Len(x) >= 3 /\ x[3] = Space /\ 3 \in 1..((n - m) + 1) /\ 3 \in 1..Len(x)
          /\ Len(x) \in 1..Len(x) /\ Len(x) \in 1..((n - m) + 1)
      BY <1>2, <1>5, <1>6, <2>2
    <3>2. t[(m - 1) + 3] = Space /\ x[Len(x)] = t[n]
      BY <1>5, <1>6, <3>1
    <3>3. Len(x) # 3
      <4>1. Space \in Blanks
        BY DEF Blanks
      <4> QED
        BY <1>4, <3>1, <3>2, <4>1
    <3>4. rest = SubSeq(x, 3, Len(x))
      BY DEF AfterCd
    <3> DEFINE d == (Len(x) - 3) + 1
    <3>5. /\ rest \in Text /\ Len(rest) = d
          /\ \A k \in 1..d : rest[k] = x[2 + k]
      <4>1. 3 <= Len(x) /\ 3 - 1 = 2
        BY <3>1
      <4> QED
        BY <1>1, <3>1, <3>4, <4>1, Cut
    <3>6. d \in Nat /\ d >= 2 /\ 2 + d = Len(x) /\ d \in 1..d /\ d # 0
      <4> DEFINE z == Len(x)
      <4>1. z \in Nat /\ z >= 3 /\ z # 3 /\ d = (z - 3) + 1
        BY <1>2, <3>1, <3>3
      <4> HIDE DEF z, d
      <4>2. d \in Nat /\ d >= 2 /\ 2 + d = z /\ d \in 1..d /\ d # 0
        BY <4>1
      <4> QED
        BY <4>2 DEF z
    <3>7. rest # <<>> /\ rest[Len(rest)] \notin Blanks
      BY <1>4, <3>2, <3>5, <3>6
    <3> HIDE DEF rest, d
    <3>8. PICK a \in 1..Len(rest) : /\ target = SubSeq(rest, a, Len(rest))
                                    /\ \A k \in 1..(a - 1) : rest[k] \in Blanks
                                    /\ rest[a] \notin Blanks
      BY <3>5, <3>7, TrimKeepsEnd
    <3> DEFINE b == (d - a) + 1
    <3>9. /\ target \in Text /\ Len(target) = b
          /\ \A k \in 1..b : target[k] = rest[(a - 1) + k]
      <4>1. Len(rest) \in 1..Len(rest) /\ a <= Len(rest)
        BY <3>5, <3>6
      <4> QED
        BY <3>5, <3>8, <4>1, Cut
    <3>10. a # 1 /\ a \in 1..d
      <4>1. rest[1] = x[2 + 1] /\ Space \in Blanks
        BY <3>5, <3>6 DEF Blanks
      <4>2. rest[1] \in Blanks
        BY <3>1, <4>1
      <4> QED
        BY <3>5, <3>8, <4>2
    <3> DEFINE p == (m - 1) + 3
               q == ((m - 1) + 2) + (a - 1)
    <3>11. /\ p \in Nat /\ q \in Nat /\ p <= q /\ q <= Len(t) /\ q + b = n
           /\ q + Len(target) <= Len(t) /\ p <= Len(t)
      BY <1>6, <3>6, <3>9, <3>10
    <3>12. Read(Prefix(t, p)) = At("between", <<>>, <<Cd>>)
      BY <1>11, <3>2, <3>11
    <3>13. \A k \in 1..d : rest[k] = t[((m - 1) + 2) + k]
      <4> SUFFICES ASSUME NEW k \in 1..d PROVE rest[k] = t[((m - 1) + 2) + k]
        OBVIOUS
      <4>1. 2 + k \in 1..((n - m) + 1) /\ (m - 1) + (2 + k) = ((m - 1) + 2) + k
        BY <1>5, <1>6, <3>6
      <4>2. x[2 + k] = t[(m - 1) + (2 + k)]
        BY <1>5, <4>1
      <4> QED
        BY <3>5, <4>1, <4>2
    <3>14. ASSUME NEW k \in (p + 1)..q PROVE t[k] \in Blanks
      <4> DEFINE e == k - ((m - 1) + 2)
      <4>1. e \in 1..d /\ e \in 1..(a - 1) /\ ((m - 1) + 2) + e = k
        BY <1>6, <3>6, <3>10
      <4> HIDE DEF e
      <4>2. rest[e] = t[k]
        BY <3>13, <4>1
      <4> QED
        BY <3>8, <4>1, <4>2
    <3>15. ASSUME NEW k \in 1..Len(target) PROVE t[q + k] = target[k]
      <4> DEFINE e == (a - 1) + k
      <4>1. k \in 1..b /\ e \in 1..d /\ ((m - 1) + 2) + e = q + k
        BY <1>6, <3>6, <3>9, <3>10
      <4>2. target[k] = rest[e]
        BY <3>9, <4>1
      <4> HIDE DEF e, q
      <4> QED
        BY <3>13, <4>1, <4>2
    <3> HIDE DEF p, q, target
    <3>16. <<Cd>> \in Seq(Text)
      BY <1>11
    <3>17. Read(Prefix(t, q)) = At("between", <<>>, <<Cd>>)
      BY <3>11, <3>12, <3>14, <3>16, ReadBlanks
    <3>18. /\ Read(target) \in States
           /\ Read(Prefix(t, q + Len(target))) = Shift(<<Cd>>, Read(target))
      BY <3>9, <3>11, <3>15, <3>16, <3>17, ReadShifted
    <3>19. Read(Prefix(t, n)) = Shift(<<Cd>>, Read(target))
      BY <3>9, <3>11, <3>18
    <3> QED
      BY <3>16, <3>18, <3>19, ShiftedWords
  <2> QED
    BY <2>1, <2>2
<1> QED
  BY <1>10, <1>12 DEF Same, x

LEMMA CutsNext ==
    ASSUME Typed, Follows, Shows, Cuts, [Next]_vars
    PROVE  Cuts'
<1>1. command' = command /\ typed' = typed
  BY DEF Next, vars, source, BeginWord, WriteChar, EndWord, Rendered, CdPath, NoPath,
         Blank, SingleQuoted, SingleUnclosed, OpenDouble, CloseDouble, QuotedEscape, QuotedChar,
         DoubleUnclosed, Escape, TrailingEscape, Plain, EndOfLine, Terminated, Stays, Fails
<1>2. Target' = Target
  BY <1>1 DEF Target
<1>3. CASE phase \in {"tokenize", "done"}
  <2>1. line' = line
    BY <1>3 DEF Next, vars, source, BeginWord, WriteChar, EndWord, Rendered, CdPath, NoPath,
         Blank, SingleQuoted, SingleUnclosed, OpenDouble, CloseDouble, QuotedEscape, QuotedChar,
         DoubleUnclosed, Escape, TrailingEscape, Plain, EndOfLine, Terminated, Stays, Fails
  <2> QED
    BY <1>1, <1>2, <1>3, <2>1 DEF Cuts
<1>4. CASE phase = "render"
  BY <1>1, <1>4 DEF Cuts, Shows
<1>5. CASE phase = "typed"
  <2>1. CASE CdPath
    BY <1>1, <1>2, <2>1 DEF CdPath, Cuts
  <2>2. CASE NoPath
    <3>1. line' = <<>> /\ (IsCd(trim(typed)) => Target = <<>>)
      BY <1>5, <2>2 DEF NoPath, Follows
    <3> QED
      BY <1>1, <1>2, <3>1 DEF Cuts
  <2>3. CASE UNCHANGED vars
    BY <1>5, <2>3 DEF vars, Cuts, source
  <2> QED
    BY <1>5, <2>1, <2>2, <2>3
       DEF Next, BeginWord, WriteChar, EndWord, Rendered, Blank, SingleQuoted, SingleUnclosed,
           OpenDouble, CloseDouble, QuotedEscape, QuotedChar, DoubleUnclosed, Escape,
           TrailingEscape, Plain, EndOfLine, Terminated, Bare, EscapesInside, Reading
<1> QED
  BY <1>3, <1>4, <1>5 DEF Typed, TypeOK

LEMMA CutsAlways == Spec => []Cuts
<1>1. Init => Cuts
  BY DEF Init, Cuts
<1>2. Typed /\ Follows /\ Shows /\ Cuts /\ [Next]_vars => Cuts'
  BY CutsNext
<1> QED
  BY <1>1, <1>2, TypedAlways, FollowsAlways, ShowsAlways, PTL DEF Spec

(***************************************************************************)
(* shell.cpp:65, 88: whatever line is typed, trimming it, cutting off cd   *)
(* and trimming again gives the words that reading the whole line gives,   *)
(* or the same error, unless the trimmed line ends in a backslash that is  *)
(* waiting for a character.                                                *)
(***************************************************************************)
THEOREM TrimIsAlwaysHarmless == Spec => []TrimIsHarmless
<1>1. Typed /\ Follows /\ Cuts => TrimIsHarmless
  <2> SUFFICES ASSUME Typed, Follows, Cuts, phase = "done", IsCd(trim(typed)),
                      Read(trim(typed)).mode # "escape"
               PROVE  /\ error = ErrorIn(Read(typed))
                      /\ error = "none" => <<Cd>> \o words = WordsIn(Read(typed))
    BY DEF TrimIsHarmless, Cd
  <2>1. typed \in Text
    BY DEF Typed
  <2>2. /\ ErrorIn(Read(Target)) = ErrorIn(Read(typed))
        /\ ErrorIn(Read(typed)) = "none" =>
              <<Cd>> \o WordsIn(Read(Target)) = WordsIn(Read(typed))
    BY <2>1, CutIsHarmless DEF Target
  <2>3. line = Target
    <3>1. command = <<>>
      <4>1. <<>> \in Text /\ Len(<<>>) = 0
        BY DEF Text
      <4>2. typed = <<>> => ~IsCd(trim(typed))
        <5> SUFFICES ASSUME typed = <<>>, IsCd(trim(typed)) PROVE FALSE
          OBVIOUS
        <5>1. trim(typed) \in Text /\ Len(trim(typed)) >= 2
          BY <2>1, TrimType, CdLine
        <5>2. trim(typed) = <<>>
          BY <2>1, <4>1, Trims
        <5> QED
          BY <4>1, <5>1, <5>2
      <4> QED
        BY <4>2 DEF Cuts
    <3> QED
      BY <3>1 DEF Cuts
  <2>4. /\ error = ErrorIn(Read(line))
        /\ error = "none" => words = WordsIn(Read(line))
    BY DEF Follows, ReadsAsAShell
  <2> QED
    BY <2>2, <2>3, <2>4
<1> QED
  BY <1>1, TypedAlways, FollowsAlways, CutsAlways, PTL
===============================================================================
