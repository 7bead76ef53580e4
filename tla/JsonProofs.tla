------------------------------ MODULE JsonProofs ------------------------------
(***************************************************************************)
(* Proofs about JsonBuilder, for texts of any length, and CatalogSchema,   *)
(* for catalogs of any size.                                               *)
(***************************************************************************)
EXTENDS CatalogSchema, SequenceTheorems, TLAPS

(***************************************************************************)
(* A level that has another one inside of it has a member, that one, and   *)
(* no key that waits.  This is what end_object and end_array rely on when  *)
(* they set the flag without looking.                                      *)
(***************************************************************************)
Enclosing ==
    \A k \in 1..(Len(nesting) - 1) : nesting[k].members /\ ~nesting[k].keyed

IInv == TypeOK /\ TracksNesting /\ Enclosing

-------------------------------------------------------------------------------
(***************************************************************************)
(* Short sequences.                                                        *)
(***************************************************************************)
LEMMA EmptyText == ASSUME NEW S PROVE <<>> \in Seq(S) /\ Len(<<>>) = 0
  OBVIOUS

LEMMA OneToken == ASSUME NEW S, NEW t \in S PROVE <<t>> \in Seq(S)
  OBVIOUS

(***************************************************************************)
(* Front and Last of a sequence that is not empty.                         *)
(***************************************************************************)
LEMMA FrontAndLast ==
    ASSUME NEW S, NEW s \in Seq(S), s # <<>>
    PROVE  /\ Len(s) \in Nat \ {0}
           /\ Front(s) \in Seq(S) /\ Len(Front(s)) = Len(s) - 1
           /\ \A k \in 1..(Len(s) - 1) : Front(s)[k] = s[k]
           /\ Last(s) = s[Len(s)] /\ Last(s) \in S
<1>1. Len(s) \in Nat \ {0}
  OBVIOUS
<1>2. /\ SubSeq(s, 1, Len(s) - 1) \in Seq(S)
      /\ Len(SubSeq(s, 1, Len(s) - 1)) = Len(s) - 1
      /\ \A k \in 1..(Len(s) - 1) : SubSeq(s, 1, Len(s) - 1)[k] = s[k]
  <2> DEFINE n == Len(s) - 1
  <2>1. n \in Nat /\ n <= Len(s)
    BY <1>1
  <2> HIDE DEF n
  <2>2. SubSeq(s, 1, n) \in Seq(S)
    BY <2>1
  <2>3. Len(SubSeq(s, 1, n)) = n
    BY <2>1
  <2>4. \A k \in 1..n : SubSeq(s, 1, n)[k] = s[k]
    BY <2>1
  <2> QED
    BY <2>2, <2>3, <2>4 DEF n
<1>3. s[Len(s)] \in S
  BY <1>1
<1> QED
  BY <1>1, <1>2, <1>3 DEF Front, Last

(***************************************************************************)
(* The innermost level is given a member; the others are left alone.       *)
(***************************************************************************)
LEMMA MemberGiven ==
    ASSUME IInv
    PROVE  /\ WithMember \in Seq(Levels)
           /\ Len(WithMember) = Len(nesting)
           /\ \A k \in 1..Len(nesting) :
                 WithMember[k].members /\ ~WithMember[k].keyed
<1>1. CASE Outer
  BY <1>1 DEF IInv, TypeOK, Outer, WithMember
<1>2. CASE ~Outer
  <2>1. nesting \in Seq(Levels) /\ nesting # <<>>
    BY <1>2 DEF IInv, TypeOK, Outer
  <2>2. /\ Front(nesting) \in Seq(Levels) /\ Len(Front(nesting)) = Len(nesting) - 1
        /\ \A k \in 1..(Len(nesting) - 1) : Front(nesting)[k] = nesting[k]
        /\ Inner \in Levels /\ Len(nesting) \in Nat \ {0}
    BY <2>1, FrontAndLast DEF Inner
  <2> DEFINE given == [Inner EXCEPT !.members = TRUE, !.keyed = FALSE]
  <2>3. given \in Levels /\ given.members /\ ~given.keyed
    BY <2>2 DEF Levels
  <2>4. WithMember = Append(Front(nesting), given)
    BY <1>2 DEF WithMember
  <2> QED
    BY <2>2, <2>3, <2>4 DEF IInv, Enclosing
<1> QED
  BY <1>1, <1>2

(***************************************************************************)
(* What an emitted token leaves behind.                                    *)
(***************************************************************************)
LEMMA Emitted ==
    ASSUME IInv, NEW tokens \in Seq(Tokens), tokens # <<>>, NEW pending \in BOOLEAN,
           Emit(tokens, pending)
    PROVE  mBuilder' \in Seq(Tokens) /\ mBuilder' # <<>> /\ mPendingComma' = pending
<1>1. Comma \in Seq(Tokens)
  <2>1. "," \in Tokens
    BY DEF Tokens
  <2>2. <<",">> \in Seq(Tokens)
    BY <2>1, OneToken, Zenon
  <2>3. <<>> \in Seq(Tokens)
    OBVIOUS
  <2> QED
    BY <2>2, <2>3 DEF Comma
<1>2. mBuilder \o Comma \in Seq(Tokens)
  BY <1>1 DEF IInv, TypeOK
<1> QED
  BY <1>2 DEF Emit

-------------------------------------------------------------------------------
LEMMA BeginStep ==
    ASSUME IInv, NEW kind \in {"object", "array"}, NEW token \in Tokens, Begin(kind, token)
    PROVE  IInv'
<1>1. mBuilder' \in Seq(Tokens) /\ mBuilder' # <<>> /\ mPendingComma' = FALSE
  <2>1. <<token>> \in Seq(Tokens) /\ <<token>> # <<>> /\ FALSE \in BOOLEAN
    OBVIOUS
  <2> QED
    BY <2>1, Emitted DEF Begin
<1>2. Level(kind) \in Levels /\ ~Level(kind).members
  BY DEF Level, Levels
<1>3. /\ nesting' \in Seq(Levels) /\ Len(nesting') = Len(nesting) + 1
      /\ nesting'[Len(nesting')] = Level(kind)
      /\ \A k \in 1..(Len(nesting') - 1) : nesting'[k].members /\ ~nesting'[k].keyed
  BY <1>2, MemberGiven DEF Begin, IInv, TypeOK
<1>4. TypeOK'
  <2>1. mDepth' \in Nat
    BY DEF Begin, IInv, TypeOK
  <2> QED
    BY <1>1, <1>3, <2>1 DEF TypeOK
<1>5. TracksNesting'
  BY <1>1, <1>2, <1>3 DEF TracksNesting, IInv, Begin, Outer, Inner, Last
<1> QED
  BY <1>3, <1>4, <1>5 DEF IInv, Enclosing

LEMMA EndStep ==
    ASSUME IInv, NEW kind, NEW token \in Tokens, End(kind, token)
    PROVE  IInv'
<1>1. nesting \in Seq(Levels) /\ nesting # <<>>
  BY DEF End, MayEnd, Outer, IInv, TypeOK
<1>2. /\ nesting' \in Seq(Levels) /\ Len(nesting') = Len(nesting) - 1
      /\ \A k \in 1..Len(nesting') : nesting'[k] = nesting[k]
      /\ Len(nesting) \in Nat \ {0}
  BY <1>1, FrontAndLast DEF End
<1>3. \A k \in 1..Len(nesting') : nesting'[k].members /\ ~nesting'[k].keyed
  BY <1>2 DEF IInv, Enclosing
<1>4. mBuilder' \in Seq(Tokens) /\ mBuilder' # <<>> /\ mPendingComma' = TRUE
  BY DEF End, IInv, TypeOK
<1>5. TypeOK'
  BY <1>2, <1>4 DEF TypeOK, IInv, TracksNesting, End
<1>6. TracksNesting'
  BY <1>2, <1>3, <1>4 DEF TracksNesting, IInv, End, Outer, Inner, Last
<1> QED
  BY <1>2, <1>3, <1>5, <1>6 DEF IInv, Enclosing

LEMMA KeyStep ==
    ASSUME IInv, key PROVE IInv'
<1>1. mBuilder' \in Seq(Tokens) /\ mBuilder' # <<>> /\ mPendingComma' = FALSE
  <2>1. <<"name", ":">> \in Seq(Tokens) /\ <<"name", ":">> # <<>>
    BY DEF Tokens
  <2> QED
    BY <2>1, Emitted DEF key
<1>2. nesting \in Seq(Levels) /\ nesting # <<>>
  BY DEF key, MayAddKey, Outer, IInv, TypeOK
<1>3. /\ Front(nesting) \in Seq(Levels) /\ Len(Front(nesting)) = Len(nesting) - 1
      /\ \A k \in 1..(Len(nesting) - 1) : Front(nesting)[k] = nesting[k]
      /\ Inner \in Levels /\ Len(nesting) \in Nat \ {0}
  BY <1>2, FrontAndLast DEF Inner
<1> DEFINE keyed == [Inner EXCEPT !.keyed = TRUE]
<1>4. keyed \in Levels /\ keyed.keyed
  BY <1>3 DEF Levels
<1>5. nesting' = Append(Front(nesting), keyed)
  BY DEF key
<1>6. /\ nesting' \in Seq(Levels) /\ Len(nesting') = Len(nesting)
      /\ nesting'[Len(nesting')] = keyed
      /\ \A k \in 1..(Len(nesting') - 1) : nesting'[k] = nesting[k]
  BY <1>3, <1>4, <1>5
<1>7. TypeOK'
  BY <1>1, <1>6 DEF TypeOK, IInv, key
<1>8. TracksNesting'
  BY <1>1, <1>3, <1>4, <1>6 DEF TracksNesting, IInv, key, Outer, Inner, Last
<1> QED
  BY <1>6, <1>7, <1>8 DEF IInv, Enclosing

(***************************************************************************)
(* A member that is complete: a value, or a key with its value.            *)
(***************************************************************************)
LEMMA MemberStep ==
    ASSUME IInv, value \/ field PROVE IInv'
<1>1. mBuilder' \in Seq(Tokens) /\ mBuilder' # <<>> /\ mPendingComma' = TRUE
  <2>1. /\ <<"value">> \in Seq(Tokens) /\ <<"value">> # <<>>
        /\ <<"name", ":", "value">> \in Seq(Tokens) /\ <<"name", ":", "value">> # <<>>
    BY DEF Tokens
  <2> QED
    BY <2>1, Emitted DEF value, field
<1>2. nesting' = WithMember /\ mDepth' = mDepth
  BY DEF value, field
<1>3. /\ nesting' \in Seq(Levels) /\ Len(nesting') = Len(nesting)
      /\ \A k \in 1..Len(nesting') : nesting'[k].members /\ ~nesting'[k].keyed
  BY <1>2, MemberGiven
<1>4. TypeOK'
  BY <1>1, <1>2, <1>3 DEF TypeOK, IInv
<1>5. TracksNesting'
  BY <1>1, <1>2, <1>3 DEF TracksNesting, IInv, Outer, Inner, Last
<1> QED
  BY <1>3, <1>4, <1>5 DEF IInv, Enclosing

LEMMA IInvInit == Init => IInv
<1> SUFFICES ASSUME Init PROVE IInv
  OBVIOUS
<1>1. TypeOK
  BY EmptyText DEF Init, TypeOK
<1>2. TracksNesting
  BY DEF Init, TracksNesting, Outer
<1>3. Enclosing
  BY DEF Init, Enclosing
<1> QED
  BY <1>1, <1>2, <1>3 DEF IInv

LEMMA IInvNext == IInv /\ [Next]_vars => IInv'
<1> SUFFICES ASSUME IInv, [Next]_vars PROVE IInv'
  OBVIOUS
<1>1. CASE begin_object \/ begin_array
  BY <1>1, BeginStep DEF begin_object, begin_array, Tokens
<1>2. CASE end_object \/ end_array
  BY <1>2, EndStep DEF end_object, end_array, Tokens
<1>3. CASE key
  BY <1>3, KeyStep
<1>4. CASE value \/ field
  BY <1>4, MemberStep
<1>5. CASE clear
  <2>1. TypeOK'
    BY <1>5, EmptyText DEF clear, TypeOK
  <2>2. TracksNesting'
    BY <1>5 DEF clear, TracksNesting, Outer
  <2>3. Enclosing'
    BY <1>5 DEF clear, Enclosing
  <2> QED
    BY <2>1, <2>2, <2>3 DEF IInv
<1>6. CASE UNCHANGED vars
  BY <1>6 DEF vars, IInv, TypeOK, TracksNesting, Enclosing, Outer, Inner
<1> QED
  BY <1>1, <1>2, <1>3, <1>4, <1>5, <1>6 DEF Next

LEMMA Invariance == Spec => []IInv
  BY IInvInit, IInvNext, PTL DEF Spec

-------------------------------------------------------------------------------
(***************************************************************************)
(* Every variable keeps to its type, and the depth never goes below zero.  *)
(***************************************************************************)
THEOREM TypeCorrect == Spec => []TypeOK
<1>1. IInv => TypeOK
  BY DEF IInv
<1> QED
  BY <1>1, Invariance, PTL

(***************************************************************************)
(* A counter and a flag are enough to know where commas go and when the    *)
(* text is whole, however deep the nesting and however long the text.      *)
(***************************************************************************)
THEOREM NestingTracked == Spec => []TracksNesting
<1>1. IInv => TracksNesting
  BY DEF IInv
<1> QED
  BY <1>1, Invariance, PTL

-------------------------------------------------------------------------------
(***************************************************************************)
(* Where a reader of JSON is when it has read the text so far: inside of   *)
(* what the caller has open, and waiting for what may come next there.     *)
(***************************************************************************)
KindSet == {"object", "array"}

KindsOf(levels) == [k \in 1..Len(levels) |-> levels[k].kind]

MayFollow(level) ==
    IF level.keyed THEN Values
    ELSE IF level.members THEN {",", Closing[level.kind]}
    ELSE IF level.kind = "object" THEN {"name", "}"} ELSE Values \cup {"]"}

Stands ==
    [open |-> KindsOf(nesting),
     next |-> IF ~Outer THEN MayFollow(Inner) ELSE IF mBuilder = <<>> THEN Values ELSE {}]

Reads ==
    /\ Parsed(mBuilder) = Stands
    /\ \A k \in 1..Len(nesting) : nesting[k].keyed => nesting[k].kind = "object"

JsonReader == INSTANCE FoldProofs WITH Op <- Feed, Base <- [open |-> <<>>, next |-> Values]

LEMMA ParsesNothing == Parsed(<<>>) = [open |-> <<>>, next |-> Values]
  BY JsonReader!FoldEmpty, Zenon
     DEF Parsed, JsonReader!Fold, FoldLeft, JsonReader!FoldLeft, MapThenFoldSet,
         JsonReader!MapThenFoldSet, Max, JsonReader!Max

LEMMA ParsesOneMore ==
    ASSUME NEW text \in Seq(Tokens), NEW token \in Tokens
    PROVE  Parsed(Append(text, token)) = Feed(Parsed(text), token)
  BY JsonReader!FoldAppend, Zenon
     DEF Parsed, JsonReader!Fold, FoldLeft, JsonReader!FoldLeft, MapThenFoldSet,
         JsonReader!MapThenFoldSet, Max, JsonReader!Max

(***************************************************************************)
(* The rules of the reader, token by token.                                *)
(***************************************************************************)
LEMMA FeedTokens ==
    ASSUME NEW open, NEW next
    PROVE  LET s == [open |-> open, next |-> next]
           IN  /\ "{" \in next =>
                     Feed(s, "{") = [open |-> Append(open, "object"), next |-> {"name", "}"}]
               /\ "[" \in next =>
                     Feed(s, "[") = [open |-> Append(open, "array"), next |-> Values \cup {"]"}]
               /\ "name" \in next => Feed(s, "name") = [open |-> open, next |-> {":"}]
               /\ ":" \in next => Feed(s, ":") = [open |-> open, next |-> Values]
               /\ "," \in next =>
                     Feed(s, ",") = [open |-> open,
                                     next |-> IF Last(open) = "object" THEN {"name"} ELSE Values]
               /\ "value" \in next => Feed(s, "value") = Behind(open)
               /\ "}" \in next => Feed(s, "}") = Behind(Front(open))
               /\ "]" \in next => Feed(s, "]") = Behind(Front(open))
<1> DEFINE s == [open |-> open, next |-> next]
<1>1. "{" \in next =>
        Feed(s, "{") = [open |-> Append(open, "object"), next |-> {"name", "}"}]
  BY DEF Feed
<1>2. "[" \in next =>
        Feed(s, "[") = [open |-> Append(open, "array"), next |-> Values \cup {"]"}]
  BY DEF Feed
<1>3. "name" \in next => Feed(s, "name") = [open |-> open, next |-> {":"}]
  BY DEF Feed
<1>4. ":" \in next => Feed(s, ":") = [open |-> open, next |-> Values]
  BY DEF Feed
<1>5. "," \in next =>
        Feed(s, ",") = [open |-> open,
                        next |-> IF Last(open) = "object" THEN {"name"} ELSE Values]
  BY DEF Feed
<1>6. "value" \in next => Feed(s, "value") = Behind(open)
  BY DEF Feed
<1>7. "}" \in next => Feed(s, "}") = Behind(Front(open))
  BY DEF Feed
<1>8. "]" \in next => Feed(s, "]") = Behind(Front(open))
  BY DEF Feed
<1> QED
  BY <1>1, <1>2, <1>3, <1>4, <1>5, <1>6, <1>7, <1>8

(***************************************************************************)
(* The kinds of what is open, as levels come and go.                       *)
(***************************************************************************)
LEMMA KindsType ==
    ASSUME NEW levels \in Seq(Levels)
    PROVE  /\ KindsOf(levels) \in Seq(KindSet) /\ Len(KindsOf(levels)) = Len(levels)
           /\ \A k \in 1..Len(levels) : KindsOf(levels)[k] = levels[k].kind
<1>1. \A k \in 1..Len(levels) : levels[k] \in Levels
  OBVIOUS
<1>2. \A level \in Levels : level.kind \in KindSet
  BY DEF Levels, KindSet
<1>3. \A k \in 1..Len(levels) : levels[k].kind \in KindSet
  BY <1>1, <1>2
<1> QED
  BY <1>3 DEF KindsOf

LEMMA KindsAgree ==
    ASSUME NEW levels \in Seq(Levels), NEW others \in Seq(Levels),
           Len(levels) = Len(others), \A k \in 1..Len(levels) : levels[k].kind = others[k].kind
    PROVE  KindsOf(levels) = KindsOf(others)
  BY DEF KindsOf

LEMMA KindsAppend ==
    ASSUME NEW levels \in Seq(Levels), NEW level \in Levels
    PROVE  KindsOf(Append(levels, level)) = Append(KindsOf(levels), level.kind)
<1> DEFINE more == Append(levels, level)
           a == KindsOf(more)
           b == Append(KindsOf(levels), level.kind)
           n == Len(levels)
<1>1. /\ more \in Seq(Levels) /\ Len(more) = n + 1 /\ n \in Nat
      /\ more[n + 1] = level /\ \A k \in 1..n : more[k] = levels[k]
  OBVIOUS
<1>2. level.kind \in KindSet
  BY DEF Levels, KindSet
<1>3. /\ KindsOf(levels) \in Seq(KindSet) /\ Len(KindsOf(levels)) = n
      /\ \A k \in 1..n : KindsOf(levels)[k] = levels[k].kind
  BY KindsType
<1>4. a \in Seq(KindSet) /\ Len(a) = n + 1 /\ \A k \in 1..(n + 1) : a[k] = more[k].kind
  <2> HIDE DEF more
  <2> QED
    BY <1>1, KindsType
<1>5. /\ b \in Seq(KindSet) /\ Len(b) = n + 1 /\ b[n + 1] = level.kind
      /\ \A k \in 1..n : b[k] = levels[k].kind
  BY <1>1, <1>2, <1>3
<1> HIDE DEF a, b, more, n
<1>6. \A k \in 1..(n + 1) : a[k] = b[k]
  BY <1>1, <1>4, <1>5
<1>7. a = b
  BY <1>1, <1>4, <1>5, <1>6
<1> QED
  BY <1>7 DEF a, b, more

LEMMA KindsFront ==
    ASSUME NEW levels \in Seq(Levels), levels # <<>>
    PROVE  /\ KindsOf(Front(levels)) = Front(KindsOf(levels))
           /\ Last(KindsOf(levels)) = Last(levels).kind /\ KindsOf(levels) # <<>>
<1> DEFINE n == Len(levels)
           ks == KindsOf(levels)
           a == KindsOf(Front(levels))
           b == Front(ks)
<1>1. /\ n \in Nat \ {0} /\ Front(levels) \in Seq(Levels) /\ Len(Front(levels)) = n - 1
      /\ \A k \in 1..(n - 1) : Front(levels)[k] = levels[k]
      /\ Last(levels) = levels[n]
  BY FrontAndLast
<1>2. ks \in Seq(KindSet) /\ Len(ks) = n /\ \A k \in 1..n : ks[k] = levels[k].kind
  BY KindsType
<1>3. ks # <<>>
  BY <1>1, <1>2
<1> HIDE DEF ks
<1>4. /\ b \in Seq(KindSet) /\ Len(b) = n - 1 /\ \A k \in 1..(n - 1) : b[k] = ks[k]
      /\ Last(ks) = ks[n]
  BY <1>2, <1>3, FrontAndLast
<1>5. a \in Seq(KindSet) /\ Len(a) = n - 1 /\ \A k \in 1..(n - 1) : a[k] = Front(levels)[k].kind
  BY <1>1, KindsType
<1> HIDE DEF a, b, n
<1>6. ASSUME NEW k \in 1..(n - 1) PROVE a[k] = b[k]
  <2>1. k \in 1..n
    BY <1>1
  <2>2. a[k] = levels[k].kind
    BY <1>1, <1>5, Zenon
  <2> QED
    BY <1>2, <1>4, <2>1, <2>2, Zenon
<1>7. a = b
  <2>1. Len(a) = Len(b) /\ \A k \in 1..Len(a) : a[k] = b[k]
    BY <1>4, <1>5, <1>6
  <2> QED
    BY <1>4, <1>5, <2>1, SeqEqual, Zenon
<1>8. Last(ks) = Last(levels).kind
  BY <1>1, <1>2, <1>4
<1> QED
  BY <1>3, <1>7, <1>8 DEF a, b, ks

LEMMA MemberKinds == IInv => KindsOf(WithMember) = KindsOf(nesting)
<1> SUFFICES ASSUME IInv PROVE KindsOf(WithMember) = KindsOf(nesting)
  OBVIOUS
<1>1. CASE Outer
  BY <1>1 DEF WithMember
<1>2. CASE ~Outer
  <2> DEFINE given == [Inner EXCEPT !.members = TRUE, !.keyed = FALSE]
             n == Len(nesting)
  <2>1. nesting \in Seq(Levels) /\ nesting # <<>>
    BY <1>2 DEF IInv, TypeOK, Outer
  <2>2. /\ Front(nesting) \in Seq(Levels) /\ Len(Front(nesting)) = n - 1
        /\ \A k \in 1..(n - 1) : Front(nesting)[k] = nesting[k]
        /\ Inner \in Levels /\ n \in Nat \ {0} /\ Inner = nesting[n]
    BY <2>1, FrontAndLast DEF Inner
  <2>3. given \in Levels /\ given.kind = Inner.kind
    BY <2>2 DEF Levels
  <2>4. WithMember = Append(Front(nesting), given)
    BY <1>2 DEF WithMember
  <2> HIDE DEF given, n
  <2>5. /\ WithMember \in Seq(Levels) /\ Len(WithMember) = n /\ WithMember[n] = given
        /\ \A k \in 1..(n - 1) : WithMember[k] = nesting[k]
    BY <2>2, <2>3, <2>4
  <2>6. \A k \in 1..n : WithMember[k].kind = nesting[k].kind
    BY <2>2, <2>3, <2>5
  <2> QED
    BY <2>1, <2>5, <2>6, KindsAgree DEF n
<1> QED
  BY <1>1, <1>2

-------------------------------------------------------------------------------
(***************************************************************************)
(* A text grows token by token.                                            *)
(***************************************************************************)
LEMMA OneMore ==
    ASSUME NEW S, NEW t \in Seq(S), NEW a \in S
    PROVE  t \o <<a>> = Append(t, a) /\ Append(t, a) \in Seq(S) /\ Append(t, a) # <<>>
  OBVIOUS

LEMMA TwoMore ==
    ASSUME NEW S, NEW t \in Seq(S), NEW a \in S, NEW b \in S
    PROVE  t \o <<a, b>> = Append(Append(t, a), b)
<1> DEFINE x == t \o <<a, b>>
           y == Append(Append(t, a), b)
           n == Len(t)
<1>1. <<a, b>> \in Seq(S) /\ Len(<<a, b>>) = 2 /\ <<a, b>>[1] = a /\ <<a, b>>[2] = b
      /\ n \in Nat
  OBVIOUS
<1>2. /\ x \in Seq(S) /\ Len(x) = n + 2 /\ x[n + 1] = a /\ x[n + 2] = b
      /\ \A k \in 1..n : x[k] = t[k]
  BY <1>1
<1>3. /\ y \in Seq(S) /\ Len(y) = n + 2 /\ y[n + 1] = a /\ y[n + 2] = b
      /\ \A k \in 1..n : y[k] = t[k]
  OBVIOUS
<1> HIDE DEF x, y, n
<1>4. \A k \in 1..(n + 2) : x[k] = y[k]
  BY <1>1, <1>2, <1>3
<1>5. x = y
  BY <1>1, <1>2, <1>3, <1>4
<1> QED
  BY <1>5 DEF x, y

LEMMA ThreeMore ==
    ASSUME NEW S, NEW t \in Seq(S), NEW a \in S, NEW b \in S, NEW c \in S
    PROVE  t \o <<a, b, c>> = Append(Append(Append(t, a), b), c)
<1> DEFINE x == t \o <<a, b, c>>
           y == Append(Append(Append(t, a), b), c)
           n == Len(t)
<1>1. /\ <<a, b, c>> \in Seq(S) /\ Len(<<a, b, c>>) = 3 /\ <<a, b, c>>[1] = a
      /\ <<a, b, c>>[2] = b /\ <<a, b, c>>[3] = c /\ n \in Nat
  OBVIOUS
<1>2. /\ x \in Seq(S) /\ Len(x) = n + 3 /\ x[n + 1] = a /\ x[n + 2] = b /\ x[n + 3] = c
      /\ \A k \in 1..n : x[k] = t[k]
  BY <1>1
<1>3. /\ y \in Seq(S) /\ Len(y) = n + 3 /\ y[n + 1] = a /\ y[n + 2] = b /\ y[n + 3] = c
      /\ \A k \in 1..n : y[k] = t[k]
  OBVIOUS
<1> HIDE DEF x, y, n
<1>4. \A k \in 1..(n + 3) : x[k] = y[k]
  BY <1>1, <1>2, <1>3
<1>5. x = y
  BY <1>1, <1>2, <1>3, <1>4
<1> QED
  BY <1>5 DEF x, y

(***************************************************************************)
(* After the comma, if one was due, a value or a key may come.             *)
(***************************************************************************)
Punctuated == mBuilder \o Comma

LEMMA AfterComma ==
    ASSUME IInv, Reads, MayAddValue \/ MayAddKey
    PROVE  /\ Punctuated \in Seq(Tokens)
           /\ \E next : /\ Parsed(Punctuated) = [open |-> KindsOf(nesting), next |-> next]
                        /\ MayAddValue => Values \subseteq next
                        /\ MayAddKey => "name" \in next
<1>1. mBuilder \in Seq(Tokens) /\ nesting \in Seq(Levels) /\ mPendingComma \in BOOLEAN
  BY DEF IInv, TypeOK
<1>2. Parsed(mBuilder) = Stands
  BY DEF Reads
<1>3. ASSUME ~mPendingComma PROVE Punctuated = mBuilder
  BY <1>1, <1>3 DEF Punctuated, Comma
<1>4. CASE Outer
  <2>1. MayAddValue /\ ~MayAddKey /\ mBuilder = <<>>
    BY <1>4 DEF MayAddValue, MayAddKey
  <2>2. ~mPendingComma
    BY <1>4, <2>1 DEF IInv, TracksNesting
  <2>3. Parsed(Punctuated) = [open |-> KindsOf(nesting), next |-> Values]
    BY <1>2, <1>3, <1>4, <2>1, <2>2 DEF Stands
  <2> QED
    BY <1>1, <1>3, <2>1, <2>2, <2>3
<1>5. CASE ~Outer /\ Inner.keyed
  <2>1. MayAddValue /\ ~MayAddKey
    BY <1>5 DEF MayAddKey
  <2>2. ~mPendingComma
    BY <1>5 DEF IInv, TracksNesting
  <2>3. Parsed(Punctuated) = [open |-> KindsOf(nesting), next |-> Values]
    BY <1>2, <1>3, <1>5, <2>2 DEF Stands, MayFollow
  <2> QED
    BY <1>1, <1>3, <2>1, <2>2, <2>3
<1>6. CASE ~Outer /\ ~Inner.keyed /\ ~Inner.members
  <2>1. ~mPendingComma
    BY <1>6 DEF IInv, TracksNesting
  <2> DEFINE next == IF Inner.kind = "object" THEN {"name", "}"} ELSE Values \cup {"]"}
  <2>2. Parsed(Punctuated) = [open |-> KindsOf(nesting), next |-> next]
    BY <1>2, <1>3, <1>6, <2>1 DEF Stands, MayFollow
  <2>3. /\ MayAddValue => Values \subseteq next
        /\ MayAddKey => "name" \in next
    BY <1>6 DEF MayAddValue, MayAddKey
  <2> QED
    BY <1>1, <1>3, <2>1, <2>2, <2>3
<1>7. CASE ~Outer /\ ~Inner.keyed /\ Inner.members
  <2>1. mPendingComma
    BY <1>7 DEF IInv, TracksNesting
  <2>2. "," \in Tokens
    BY DEF Tokens
  <2>3. Punctuated = Append(mBuilder, ",")
    <3>1. Punctuated = mBuilder \o <<",">>
      BY <2>1 DEF Punctuated, Comma
    <3>2. mBuilder \o <<",">> = Append(mBuilder, ",")
      BY <1>1, <2>2, OneMore, Zenon
    <3> QED
      BY <3>1, <3>2
  <2>4. Punctuated \in Seq(Tokens) /\ Parsed(Punctuated) = Feed(Stands, ",")
    <3>1. Append(mBuilder, ",") \in Seq(Tokens)
      BY <1>1, <2>2, OneMore, Zenon
    <3>2. Parsed(Append(mBuilder, ",")) = Feed(Parsed(mBuilder), ",")
      BY <1>1, <2>2, ParsesOneMore, Zenon
    <3> QED
      BY <1>2, <2>3, <3>1, <3>2
  <2> DEFINE open == KindsOf(nesting)
             next == IF Last(open) = "object" THEN {"name"} ELSE Values
             due == {",", Closing[Inner.kind]}
  <2>5. Stands = [open |-> open, next |-> due]
    BY <1>7 DEF Stands, MayFollow
  <2>6. Last(open) = Inner.kind
    BY <1>1, <1>7, KindsFront DEF Outer, Inner
  <2>7. Feed([open |-> open, next |-> due], ",") = [open |-> open, next |-> next]
    <3>1. "," \in due
      OBVIOUS
    <3> HIDE DEF open, due
    <3> QED
      BY <3>1, FeedTokens
  <2>8. /\ MayAddValue => Values \subseteq next
        /\ MayAddKey => "name" \in next
    BY <1>7, <2>6 DEF MayAddValue, MayAddKey
  <2> QED
    BY <2>4, <2>5, <2>7, <2>8
<1> QED
  BY <1>4, <1>5, <1>6, <1>7

(***************************************************************************)
(* After a value, or the end of one, the reader waits for more members or  *)
(* for the end of what the value is in.                                    *)
(***************************************************************************)
LEMMA Completed ==
    ASSUME nesting' \in Seq(Levels), mBuilder' # <<>>,
           nesting' # <<>> => Last(nesting').members /\ ~Last(nesting').keyed,
           Parsed(mBuilder') = Behind(KindsOf(nesting'))
    PROVE  Parsed(mBuilder') = Stands'
<1>1. CASE nesting' = <<>>
  <2>1. KindsOf(nesting') = <<>>
    <3>1. Len(nesting') = 0
      BY <1>1
    <3>2. KindsOf(nesting') \in Seq(KindSet) /\ Len(KindsOf(nesting')) = 0
      BY <3>1, KindsType
    <3> QED
      BY <3>2
  <2> QED
    BY <1>1, <2>1 DEF Stands, Behind, Outer
<1>2. CASE nesting' # <<>>
  <2>1. KindsOf(nesting') # <<>> /\ Last(KindsOf(nesting')) = Last(nesting').kind
    BY <1>2, KindsFront
  <2> QED
    BY <1>2, <2>1 DEF Stands, Behind, Outer, Inner, MayFollow
<1> QED
  BY <1>1, <1>2

Keyless(levels) == \A k \in 1..Len(levels) : levels[k].keyed => levels[k].kind = "object"

LEMMA ReadsBegin ==
    ASSUME IInv, IInv', Reads,
           begin_object \/ begin_array
    PROVE  Reads'
<1>1. PICK kind \in KindSet : /\ Begin(kind, IF kind = "object" THEN "{" ELSE "[")
  BY DEF begin_object, begin_array, KindSet
<1> DEFINE token == IF kind = "object" THEN "{" ELSE "["
           fresh == IF kind = "object" THEN {"name", "}"} ELSE Values \cup {"]"}
<1>2. /\ MayAddValue /\ mBuilder' = Punctuated \o <<token>>
      /\ nesting' = Append(WithMember, Level(kind))
  BY <1>1 DEF Begin, Emit, Punctuated
<1>3. token \in Tokens /\ token \in Values
  BY DEF Tokens, Values
<1>4. PICK next : /\ Parsed(Punctuated) = [open |-> KindsOf(nesting), next |-> next]
                  /\ Values \subseteq next
  BY <1>2, AfterComma
<1>5. Punctuated \in Seq(Tokens)
  BY <1>2, AfterComma
<1>6. Level(kind) \in Levels /\ WithMember \in Seq(Levels)
      /\ KindsOf(WithMember) = KindsOf(nesting)
  BY MemberGiven, MemberKinds DEF Level, Levels, KindSet
<1> DEFINE open == KindsOf(nesting)
<1>7. Feed([open |-> open, next |-> next], token) = [open |-> Append(open, kind), next |-> fresh]
  <2> HIDE DEF open
  <2>1. CASE kind = "object"
    <3>1. "{" \in next
      BY <1>3, <1>4, <2>1
    <3>2. Feed([open |-> open, next |-> next], "{")
            = [open |-> Append(open, "object"), next |-> {"name", "}"}]
      BY <3>1, FeedTokens
    <3> QED
      BY <2>1, <3>2
  <2>2. CASE kind = "array"
    <3>1. "[" \in next
      BY <1>3, <1>4, <2>2
    <3>2. Feed([open |-> open, next |-> next], "[")
            = [open |-> Append(open, "array"), next |-> Values \cup {"]"}]
      BY <3>1, FeedTokens
    <3> QED
      BY <2>2, <3>2
  <2> QED
    BY <2>1, <2>2 DEF KindSet
<1>8. Parsed(mBuilder') = Feed([open |-> open, next |-> next], token)
  <2> HIDE DEF token
  <2>1. Punctuated \o <<token>> = Append(Punctuated, token)
    BY <1>3, <1>5, OneMore
  <2>2. Parsed(Append(Punctuated, token)) = Feed(Parsed(Punctuated), token)
    BY <1>3, <1>5, ParsesOneMore
  <2> QED
    BY <1>2, <1>4, <2>1, <2>2
<1>9. KindsOf(nesting') = Append(open, kind)
  <2>1. Level(kind).kind = kind
    BY DEF Level
  <2> QED
    BY <1>2, <1>6, <2>1, KindsAppend
<1>10. nesting' # <<>> /\ Last(nesting') = Level(kind)
  <2> DEFINE level == Level(kind)
             outer == WithMember
  <2>1. nesting' = Append(outer, level) /\ outer \in Seq(Levels) /\ level \in Levels
    BY <1>2, <1>6
  <2> HIDE DEF level, outer
  <2>2. /\ nesting' # <<>> /\ Len(nesting') = Len(outer) + 1 /\ Len(outer) \in Nat
        /\ nesting'[Len(outer) + 1] = level
    BY <2>1
  <2> QED
    BY <2>2 DEF Last, level
<1>11. Stands' = [open |-> Append(open, kind), next |-> fresh]
  BY <1>9, <1>10 DEF Stands, Outer, Inner, MayFollow, Level
<1>12. Keyless(nesting')
  <2>1. \A k \in 1..(Len(nesting') - 1) : ~nesting'[k].keyed
    BY DEF IInv, Enclosing
  <2>2. /\ Len(nesting') \in Nat /\ nesting'[Len(nesting')] = Level(kind)
    BY <1>10 DEF Last, IInv, TypeOK
  <2>3. ~Level(kind).keyed
    BY DEF Level
  <2> QED
    BY <2>1, <2>2, <2>3 DEF Keyless
<1> QED
  BY <1>7, <1>8, <1>11, <1>12 DEF Reads, Keyless

LEMMA ReadsEnd ==
    ASSUME IInv, IInv', Reads, end_object \/ end_array
    PROVE  Reads'
<1>1. PICK kind \in KindSet : End(kind, Closing[kind])
  BY DEF end_object, end_array, KindSet, Closing
<1> DEFINE token == Closing[kind]
           open == KindsOf(nesting)
<1>2. /\ nesting \in Seq(Levels) /\ nesting # <<>> /\ mBuilder \in Seq(Tokens)
      /\ mBuilder' = Append(mBuilder, token) /\ nesting' = Front(nesting)
      /\ Inner.kind = kind /\ ~Inner.keyed /\ ~Outer
  BY <1>1 DEF End, MayEnd, Outer, IInv, TypeOK
<1>3. token \in Tokens /\ token \in MayFollow(Inner) /\ token \in {"}", "]"}
  <2>1. CASE kind = "object"
    <3>1. Closing[kind] = "}"
      BY <2>1 DEF Closing
    <3>2. ~Inner.keyed /\ Inner.kind = "object"
      BY <1>2, <2>1
    <3>3. "}" \in MayFollow(Inner)
      <4>1. CASE Inner.members
        BY <3>1, <3>2, <4>1, <2>1 DEF MayFollow
      <4>2. CASE ~Inner.members
        BY <3>2, <4>2 DEF MayFollow
      <4> QED
        BY <4>1, <4>2
    <3> QED
      BY <3>1, <3>3 DEF Tokens
  <2>2. CASE kind = "array"
    <3>1. Closing[kind] = "]"
      BY <2>2 DEF Closing
    <3>2. ~Inner.keyed /\ Inner.kind = "array"
      BY <1>2, <2>2
    <3>3. "]" \in MayFollow(Inner)
      <4>1. CASE Inner.members
        BY <3>1, <3>2, <4>1, <2>2 DEF MayFollow
      <4>2. CASE ~Inner.members
        BY <3>2, <4>2 DEF MayFollow
      <4> QED
        BY <4>1, <4>2
    <3> QED
      BY <3>1, <3>3 DEF Tokens
  <2> QED
    BY <2>1, <2>2 DEF KindSet
<1>4. Parsed(mBuilder) = [open |-> open, next |-> MayFollow(Inner)]
  BY <1>2 DEF Reads, Stands
<1>5. Parsed(mBuilder') = Behind(Front(open))
  <2>1. Parsed(mBuilder') = Feed([open |-> open, next |-> MayFollow(Inner)], token)
    <3> HIDE DEF token
    <3> QED
      BY <1>2, <1>3, <1>4, ParsesOneMore
  <2> HIDE DEF open, token
  <2>2. Feed([open |-> open, next |-> MayFollow(Inner)], token) = Behind(Front(open))
    BY <1>3 DEF Feed
  <2> QED
    BY <2>1, <2>2
<1>6. KindsOf(nesting') = Front(open)
  BY <1>2, KindsFront
<1>7. /\ nesting' \in Seq(Levels) /\ Len(nesting') = Len(nesting) - 1
      /\ \A k \in 1..Len(nesting') : nesting'[k] = nesting[k]
      /\ Len(nesting) \in Nat \ {0}
  BY <1>2, FrontAndLast
<1>8. \A k \in 1..Len(nesting') : nesting'[k].members /\ ~nesting'[k].keyed
  BY <1>7 DEF IInv, Enclosing
<1>9. nesting' # <<>> => Last(nesting').members /\ ~Last(nesting').keyed
  BY <1>7, <1>8 DEF Last
<1>10. mBuilder' # <<>>
  <2> HIDE DEF token
  <2> QED
    BY <1>2, <1>3, OneMore
<1>11. Parsed(mBuilder') = Stands'
  BY <1>5, <1>6, <1>7, <1>9, <1>10, Completed
<1> QED
  BY <1>8, <1>11 DEF Reads

LEMMA ReadsMember ==
    ASSUME IInv, IInv', Reads, value \/ field
    PROVE  Reads'
<1> DEFINE open == KindsOf(nesting)
<1>1. nesting' = WithMember
  BY DEF value, field
<1>2. /\ nesting' \in Seq(Levels) /\ Len(nesting') = Len(nesting)
      /\ \A k \in 1..Len(nesting') : nesting'[k].members /\ ~nesting'[k].keyed
      /\ KindsOf(nesting') = open
  BY <1>1, MemberGiven, MemberKinds
<1>3. MayAddValue \/ MayAddKey
  BY DEF value, field
<1>4. Punctuated \in Seq(Tokens)
  BY <1>3, AfterComma
<1>5. PICK next : /\ Parsed(Punctuated) = [open |-> open, next |-> next]
                  /\ MayAddValue => Values \subseteq next
                  /\ MayAddKey => "name" \in next
  BY <1>3, AfterComma
<1>6. "name" \in Tokens /\ ":" \in Tokens /\ "value" \in Tokens /\ "value" \in Values
  BY DEF Tokens, Values
<1> HIDE DEF open
<1>7. ASSUME value PROVE Parsed(mBuilder') = Behind(open) /\ mBuilder' # <<>>
  <2>1. mBuilder' = Append(Punctuated, "value") /\ mBuilder' # <<>>
    <3>1. mBuilder' = Punctuated \o <<"value">>
      BY <1>7 DEF value, Emit, Punctuated
    <3> QED
      BY <1>4, <1>6, <3>1, OneMore, Zenon
  <2>2. "value" \in next
    BY <1>5, <1>6, <1>7 DEF value
  <2>3. Parsed(Append(Punctuated, "value")) = Feed(Parsed(Punctuated), "value")
    BY <1>4, <1>6, ParsesOneMore, Zenon
  <2>4. Feed([open |-> open, next |-> next], "value") = Behind(open)
    BY <2>2, FeedTokens
  <2> QED
    BY <1>5, <2>1, <2>3, <2>4
<1>8. ASSUME field PROVE Parsed(mBuilder') = Behind(open) /\ mBuilder' # <<>>
  <2> DEFINE t1 == Append(Punctuated, "name")
             t2 == Append(t1, ":")
  <2>1. t1 \in Seq(Tokens)
    BY <1>4, <1>6, OneMore, Zenon
  <2>2. Parsed(t1) = Feed(Parsed(Punctuated), "name")
    BY <1>4, <1>6, ParsesOneMore, Zenon
  <2>3. "name" \in next
    BY <1>5, <1>8 DEF field
  <2>4. Feed([open |-> open, next |-> next], "name") = [open |-> open, next |-> {":"}]
    BY <2>3, FeedTokens
  <2>5. mBuilder' = Append(t2, "value")
    <3>1. mBuilder' = Punctuated \o <<"name", ":", "value">>
      BY <1>8 DEF field, Emit, Punctuated
    <3>2. Punctuated \o <<"name", ":", "value">> = Append(t2, "value")
      <4> DEFINE a == "name"
                 b == ":"
                 c == "value"
      <4>1. a \in Tokens /\ b \in Tokens /\ c \in Tokens
        BY <1>6
      <4> HIDE DEF a, b, c
      <4>2. Punctuated \o <<a, b, c>> = Append(Append(Append(Punctuated, a), b), c)
        BY <1>4, <4>1, ThreeMore
      <4> QED
        BY <4>2 DEF a, b, c
    <3> QED
      BY <3>1, <3>2
  <2> HIDE DEF t1
  <2>6. t2 \in Seq(Tokens)
    BY <1>6, <2>1, OneMore, Zenon
  <2>7. Parsed(t2) = Feed(Parsed(t1), ":")
    BY <1>6, <2>1, ParsesOneMore, Zenon
  <2>8. Feed([open |-> open, next |-> {":"}], ":") = [open |-> open, next |-> Values]
    BY FeedTokens
  <2> HIDE DEF t2
  <2>9. Parsed(mBuilder') = Feed(Parsed(t2), "value") /\ mBuilder' # <<>>
    BY <1>6, <2>5, <2>6, ParsesOneMore, OneMore, Zenon
  <2>10. Feed([open |-> open, next |-> Values], "value") = Behind(open)
    BY <1>6, FeedTokens
  <2> QED
    BY <1>5, <2>2, <2>4, <2>7, <2>8, <2>9, <2>10
<1>9. nesting' # <<>> => Last(nesting').members /\ ~Last(nesting').keyed
  BY <1>2 DEF Last
<1>10. Parsed(mBuilder') = Stands'
  BY <1>2, <1>7, <1>8, <1>9, Completed
<1> QED
  BY <1>2, <1>10 DEF Reads

LEMMA ReadsKey ==
    ASSUME IInv, IInv', Reads, key
    PROVE  Reads'
<1> DEFINE open == KindsOf(nesting)
           keyed == [Inner EXCEPT !.keyed = TRUE]
           n == Len(nesting)
<1>1. /\ MayAddKey /\ mBuilder' = Punctuated \o <<"name", ":">>
      /\ nesting' = Append(Front(nesting), keyed)
      /\ nesting \in Seq(Levels) /\ nesting # <<>> /\ Inner.kind = "object"
  BY DEF key, MayAddKey, Outer, IInv, TypeOK, Emit, Punctuated
<1>2. /\ Front(nesting) \in Seq(Levels) /\ Len(Front(nesting)) = n - 1
      /\ \A k \in 1..(n - 1) : Front(nesting)[k] = nesting[k]
      /\ Inner \in Levels /\ n \in Nat \ {0} /\ Inner = nesting[n]
  BY <1>1, FrontAndLast DEF Inner
<1>3. keyed \in Levels /\ keyed.kind = "object" /\ keyed.keyed
  BY <1>1, <1>2 DEF Levels
<1> HIDE DEF keyed, n
<1>4. /\ nesting' \in Seq(Levels) /\ Len(nesting') = n /\ nesting'[n] = keyed
      /\ \A k \in 1..(n - 1) : nesting'[k] = nesting[k]
  BY <1>1, <1>2, <1>3
<1>5. \A k \in 1..n : nesting'[k].kind = nesting[k].kind
  BY <1>1, <1>2, <1>3, <1>4
<1>6. KindsOf(nesting') = open
  BY <1>1, <1>4, <1>5, KindsAgree DEF n
<1>7. nesting' # <<>> /\ Last(nesting') = keyed
  BY <1>2, <1>4 DEF Last
<1>8. Stands' = [open |-> open, next |-> Values]
  BY <1>3, <1>6, <1>7 DEF Stands, Outer, Inner, MayFollow
<1> HIDE DEF open
<1>9. Parsed(mBuilder') = [open |-> open, next |-> Values]
  <2> DEFINE t1 == Append(Punctuated, "name")
  <2>1. "name" \in Tokens /\ ":" \in Tokens
    BY DEF Tokens
  <2>2. Punctuated \in Seq(Tokens)
    BY <1>1, AfterComma
  <2>3. PICK next : Parsed(Punctuated) = [open |-> open, next |-> next] /\ "name" \in next
    BY <1>1, AfterComma DEF open
  <2>4. t1 \in Seq(Tokens)
    BY <2>1, <2>2, OneMore, Zenon
  <2>5. Parsed(t1) = Feed(Parsed(Punctuated), "name")
    BY <2>1, <2>2, ParsesOneMore, Zenon
  <2>6. Feed([open |-> open, next |-> next], "name") = [open |-> open, next |-> {":"}]
    BY <2>3, FeedTokens
  <2>7. mBuilder' = Append(t1, ":")
    <3>1. Punctuated \o <<"name", ":">> = Append(t1, ":")
      <4> DEFINE a == "name"
                 b == ":"
      <4>1. a \in Tokens /\ b \in Tokens
        BY <2>1
      <4> HIDE DEF a, b
      <4>2. Punctuated \o <<a, b>> = Append(Append(Punctuated, a), b)
        BY <2>2, <4>1, TwoMore
      <4> QED
        BY <4>2 DEF a, b
    <3> QED
      BY <1>1, <3>1
  <2> HIDE DEF t1
  <2>8. Parsed(Append(t1, ":")) = Feed(Parsed(t1), ":")
    BY <2>1, <2>4, ParsesOneMore, Zenon
  <2>9. Feed([open |-> open, next |-> {":"}], ":") = [open |-> open, next |-> Values]
    BY FeedTokens
  <2> QED
    BY <2>3, <2>5, <2>6, <2>7, <2>8, <2>9
<1>10. Keyless(nesting')
  <2>1. \A k \in 1..n : nesting[k].keyed => nesting[k].kind = "object"
    BY DEF Reads, n
  <2>2. \A k \in 1..n : k \in 1..(n - 1) \/ k = n
    BY <1>2
  <2>3. \A k \in 1..n : nesting'[k].keyed => nesting'[k].kind = "object"
    BY <1>3, <1>4, <2>1, <2>2
  <2> QED
    BY <1>4, <2>3 DEF Keyless
<1> QED
  BY <1>8, <1>9, <1>10 DEF Reads, Keyless

LEMMA ReadsNext == IInv /\ Reads /\ [Next]_vars => Reads'
<1> SUFFICES ASSUME IInv, Reads, [Next]_vars PROVE Reads'
  OBVIOUS
<1>1. IInv'
  BY IInvNext
<1>2. CASE clear
  <2>1. mBuilder' = <<>> /\ nesting' = <<>>
    BY <1>2 DEF clear
  <2>2. KindsOf(<<>>) = <<>>
    <3>1. KindsOf(<<>>) \in Seq(KindSet) /\ Len(KindsOf(<<>>)) = 0
      BY EmptyText, KindsType
    <3> QED
      BY <3>1
  <2>3. Stands' = [open |-> <<>>, next |-> Values]
    BY <2>1, <2>2 DEF Stands, Outer
  <2>4. Keyless(nesting')
    BY <2>1 DEF Keyless
  <2> QED
    BY <2>1, <2>3, <2>4, ParsesNothing DEF Reads, Keyless
<1>3. CASE UNCHANGED vars
  BY <1>3 DEF vars, Reads, Stands, Outer, Inner
<1> QED
  BY <1>1, <1>2, <1>3, ReadsBegin, ReadsEnd, ReadsMember, ReadsKey DEF Next

LEMMA ReadsInit == Init => Reads
<1> SUFFICES ASSUME Init PROVE Reads
  OBVIOUS
<1>1. mBuilder = <<>> /\ nesting = <<>>
  BY DEF Init
<1>2. KindsOf(<<>>) = <<>>
  <2>1. KindsOf(<<>>) \in Seq(KindSet) /\ Len(KindsOf(<<>>)) = 0
    BY EmptyText, KindsType
  <2> QED
    BY <2>1
<1> QED
  BY <1>1, <1>2, ParsesNothing DEF Reads, Stands, Outer

(***************************************************************************)
(* The errors of str() are no texts; a text is one of its results only if  *)
(* nothing is open.                                                        *)
(***************************************************************************)
LEMMA NoTexts ==
    ASSUME NEW text \in Seq(Tokens)
    PROVE  text # Unbalanced /\ text # ParseFailed /\ text # Pending
<1>1. ASSUME NEW word, word \notin Tokens PROVE text # <<word>>
  <2> SUFFICES ASSUME text = <<word>> PROVE FALSE
    OBVIOUS
  <2>1. text[1] \in Tokens
    OBVIOUS
  <2> QED
    BY <1>1, <2>1
<1>2. "Unbalanced" \notin Tokens /\ "ParseFailed" \notin Tokens /\ "pending" \notin Tokens
  BY DEF Tokens
<1> QED
  BY <1>1, <1>2 DEF Unbalanced, ParseFailed, Pending

LEMMA HandedOut == IInv => (mBuilder \in str <=> Outer)
<1> SUFFICES ASSUME IInv PROVE mBuilder \in str <=> Outer
  OBVIOUS
<1>1. nesting \in Seq(Levels) /\ mBuilder \in Seq(Tokens) /\ mDepth = Len(nesting)
  BY DEF IInv, TypeOK, TracksNesting
<1>2. mBuilder # Unbalanced
  BY <1>1, NoTexts
<1>3. mDepth = 0 <=> Outer
  BY <1>1 DEF Outer
<1> QED
  BY <1>2, <1>3 DEF str, balanced

(***************************************************************************)
(* str() hands a text out only when nothing the caller opened is open      *)
(* still (json_util.cpp:129).                                              *)
(***************************************************************************)
THEOREM NothingOpenHandedOut == Spec => [](mBuilder \in str => Outer)
  BY HandedOut, Invariance, PTL

(***************************************************************************)
(* A text that reads like this is JSON when nothing is open.               *)
(***************************************************************************)
LEMMA ReadsJson == IInv /\ Reads => WritesJson
<1> SUFFICES ASSUME IInv, Reads PROVE WritesJson
  OBVIOUS
<1> DEFINE open == KindsOf(nesting)
<1>1. nesting \in Seq(Levels)
  BY DEF IInv, TypeOK
<1>2. open \in Seq(KindSet) /\ Len(open) = Len(nesting)
  BY <1>1, KindsType
<1>3. Parsed(mBuilder).open = open
  BY DEF Reads, Stands
<1>4. Parsed(mBuilder) # NotJson
  <2> HIDE DEF open
  <2>1. open # <<"failed">>
    BY <1>2 DEF KindSet
  <2> QED
    BY <1>3, <2>1 DEF NotJson
<1>5. (nesting = <<>> /\ mBuilder # <<>>) => IsJson(mBuilder)
  <2> SUFFICES ASSUME nesting = <<>>, mBuilder # <<>> PROVE IsJson(mBuilder)
    OBVIOUS
  <2>1. open = <<>>
    <3> HIDE DEF open
    <3> QED
      BY <1>2
  <2> QED
    BY <2>1 DEF IsJson, Behind, Reads, Stands, Outer
<1> QED
  BY <1>4, <1>5, HandedOut DEF WritesJson, Outer

(***************************************************************************)
(* json_util.h:24: whatever values, keys and ends are written, in whatever *)
(* nesting, a reader of JSON never finds a comma missing or one too many,  *)
(* and a text that str() hands out is one whole value, if any is written.  *)
(***************************************************************************)
THEOREM AlwaysWritesJson == Spec => []WritesJson
<1>1. Spec => []Reads
  <2>1. IInv /\ Reads /\ [Next]_vars => Reads'
    BY ReadsNext
  <2> QED
    BY <2>1, ReadsInit, Invariance, PTL DEF Spec
<1> QED
  BY <1>1, ReadsJson, Invariance, PTL

-------------------------------------------------------------------------------
(***************************************************************************)
(* Where a caller is, as far as it matters to the calls it may make: what  *)
(* is open, outermost first, with a mark for a key that waits, or the text *)
(* that has not begun.  And where a call leads from there.                 *)
(***************************************************************************)
Marks == {"text", "object", "keyed", "array"}

Mark(level) ==
    IF level.kind = "array" THEN "array" ELSE IF level.keyed THEN "keyed" ELSE "object"

MarksOf(levels) == [k \in 1..Len(levels) |-> Mark(levels[k])]

Place == IF Outer /\ mBuilder = <<>> THEN <<"text">> ELSE MarksOf(nesting)

Text(p)   == Append(p, "text")
Object(p) == Append(p, "object")
Keyed(p)  == Append(p, "keyed")
Array(p)  == Append(p, "array")

Goes(s, name, t) ==
    \E p \in Seq(Marks) :
        \/ name = "key" /\ s = Object(p) /\ t = Keyed(p)
        \/ name = "field" /\ s = Object(p) /\ t = Object(p)
        \/ name = "value" /\ s = Array(p) /\ t = Array(p)
        \/ name = "begin_object" /\ s = Array(p) /\ t = Object(Array(p))
        \/ name = "begin_object" /\ s = Keyed(p) /\ t = Object(Object(p))
        \/ name = "begin_array" /\ s = Keyed(p) /\ t = Array(Object(p))
        \/ name = "begin_array" /\ s = Text(p) /\ t = Array(p)
        \/ name = "end_object" /\ s = Object(p) /\ t = p
        \/ name = "end_array" /\ s = Array(p) /\ t = p

CallNames ==
    {"begin_object", "end_object", "begin_array", "end_array", "key", "value", "field"}

Leads(s, calls, t) ==
    \E r : /\ r[1] = s /\ r[Len(calls) + 1] = t
           /\ \A k \in 1..Len(calls) : Goes(r[k], calls[k], r[k + 1])

(***************************************************************************)
(* The calls still to be made can all be made, and lead out of everything. *)
(***************************************************************************)
Leaves ==
    /\ script # Free => script \in Seq(CallNames) /\ Leads(Place, script, <<>>)
    /\ result # Pending => script = <<>> /\ result \in {mBuilder, ParseFailed}

-------------------------------------------------------------------------------
(***************************************************************************)
(* No call, one call, and some calls after others.                         *)
(***************************************************************************)
LEMMA LeadsNowhere == ASSUME NEW s, NEW t, Leads(s, <<>>, t) PROVE s = t
<1>1. Len(<<>>) + 1 = 1
  OBVIOUS
<1> QED
  BY <1>1 DEF Leads

LEMMA StaysThere == ASSUME NEW s PROVE Leads(s, <<>>, s)
<1> DEFINE r == <<s>>
<1>1. r[1] = s /\ r[Len(<<>>) + 1] = s /\ 1..Len(<<>>) = {}
  OBVIOUS
<1> HIDE DEF r
<1> QED
  BY <1>1 DEF Leads

LEMMA LeadsFirst ==
    ASSUME NEW calls \in Seq(CallNames), calls # <<>>, NEW s, NEW t, Leads(s, calls, t)
    PROVE  \E u : Goes(s, Head(calls), u) /\ Leads(u, Tail(calls), t)
<1>1. PICK r : /\ r[1] = s /\ r[Len(calls) + 1] = t
               /\ \A k \in 1..Len(calls) : Goes(r[k], calls[k], r[k + 1])
  BY DEF Leads
<1> DEFINE n == Len(calls)
           later == Tail(calls)
           q == [k \in 1..n |-> r[k + 1]]
<1>2. /\ n \in Nat \ {0} /\ Len(later) = n - 1 /\ Head(calls) = calls[1]
      /\ \A k \in 1..(n - 1) : later[k] = calls[k + 1]
  OBVIOUS
<1> HIDE DEF later
<1>3. q[1] = r[2] /\ q[(n - 1) + 1] = t
  BY <1>1, <1>2
<1>4. \A k \in 1..(n - 1) : q[k] = r[k + 1] /\ q[k + 1] = r[(k + 1) + 1] /\ k + 1 \in 1..n
  BY <1>2
<1> HIDE DEF q
<1>5. \A k \in 1..(n - 1) : Goes(q[k], later[k], q[k + 1])
  BY <1>1, <1>2, <1>4
<1>6. Leads(r[2], later, t)
  BY <1>2, <1>3, <1>5 DEF Leads
<1>7. Goes(s, Head(calls), r[2])
  <2>1. 1 \in 1..n /\ 1 + 1 = 2
    BY <1>2
  <2> QED
    BY <1>1, <1>2, <2>1
<1> QED
  BY <1>6, <1>7 DEF later

LEMMA LeadsOn ==
    ASSUME NEW a \in Seq(CallNames), NEW b \in Seq(CallNames), NEW s, NEW t, NEW u,
           Leads(s, a, t), Leads(t, b, u)
    PROVE  a \o b \in Seq(CallNames) /\ Leads(s, a \o b, u)
<1> DEFINE y == a \o b
           m == Len(a)
           n == Len(b)
<1>1. /\ y \in Seq(CallNames) /\ m \in Nat /\ n \in Nat /\ Len(y) = m + n
      /\ \A k \in 1..m : y[k] = a[k]
  OBVIOUS
<1>2. \A k \in 1..n : y[m + k] = b[k]
  OBVIOUS
<1>3. PICK p : p[1] = s /\ p[m + 1] = t /\ \A k \in 1..m : Goes(p[k], a[k], p[k + 1])
  BY DEF Leads
<1>4. PICK q : q[1] = t /\ q[n + 1] = u /\ \A k \in 1..n : Goes(q[k], b[k], q[k + 1])
  BY DEF Leads
<1> HIDE DEF y, m, n
<1> DEFINE r == [k \in 1..(m + n + 1) |-> IF k <= m + 1 THEN p[k] ELSE q[k - m]]
<1>5. /\ \A k \in 1..(m + 1) : r[k] = p[k]
      /\ \A k \in 1..(n + 1) : r[m + k] = q[k]
  <2>1. ASSUME NEW k \in 1..(m + 1) PROVE r[k] = p[k]
    BY <1>1
  <2>2. ASSUME NEW k \in 1..(n + 1) PROVE r[m + k] = q[k]
    <3>1. CASE k = 1
      BY <1>1, <1>3, <1>4, <3>1
    <3>2. CASE k # 1
      <4>1. m + k \in 1..(m + n + 1) /\ ~(m + k <= m + 1) /\ (m + k) - m = k
        BY <1>1, <3>2
      <4> QED
        BY <4>1
    <3> QED
      BY <3>1, <3>2
  <2> QED
    BY <2>1, <2>2
<1> HIDE DEF r
<1>6. r[1] = s /\ r[Len(y) + 1] = u
  <2>1. 1 \in 1..(m + 1) /\ n + 1 \in 1..(n + 1) /\ m + (n + 1) = Len(y) + 1
    BY <1>1
  <2> QED
    BY <1>3, <1>4, <1>5, <2>1
<1>7. ASSUME NEW k \in 1..Len(y) PROVE Goes(r[k], y[k], r[k + 1])
  <2>1. CASE k <= m
    <3>1. k \in 1..m /\ k \in 1..(m + 1) /\ k + 1 \in 1..(m + 1)
      BY <1>1, <2>1
    <3> QED
      BY <1>1, <1>3, <1>5, <3>1
  <2>2. CASE m < k
    <3> DEFINE j == k - m
    <3>1. /\ j \in 1..n /\ j \in 1..(n + 1) /\ j + 1 \in 1..(n + 1)
          /\ k = m + j /\ k + 1 = m + (j + 1)
      BY <1>1, <2>2
    <3> HIDE DEF j
    <3> QED
      BY <1>2, <1>4, <1>5, <3>1
  <2> QED
    BY <1>1, <2>1, <2>2
<1> QED
  BY <1>1, <1>6, <1>7 DEF Leads, y

(***************************************************************************)
(* Calls that lead back to where they began, once for each of many items.  *)
(***************************************************************************)
Loops(s, calls) == calls \in Seq(CallNames) /\ Leads(s, calls, s)

Joining == INSTANCE FoldProofs WITH Op <- Then, Base <- <<>>

LEMMA JoinedRun ==
    ASSUME NEW S, NEW parts \in Seq(S)
    PROVE  \E r : /\ r[0] = <<>> /\ \A k \in 1..Len(parts) : r[k] = Then(r[k - 1], parts[k])
                  /\ FoldLeft(Then, <<>>, parts) = r[Len(parts)]
  BY Joining!FoldIsRun, Zenon
     DEF Joining!Fold, Joining!IsRun, FoldLeft, Joining!FoldLeft, MapThenFoldSet,
         Joining!MapThenFoldSet, Max, Joining!Max

LEMMA NothingLoops == ASSUME NEW s PROVE Loops(s, <<>>)
  BY StaysThere, EmptyText DEF Loops

LEMMA AllLoop ==
    ASSUME NEW s, NEW S, NEW parts \in Seq(S), \A k \in 1..Len(parts) : Loops(s, parts[k])
    PROVE  Loops(s, FoldLeft(Then, <<>>, parts))
<1>1. PICK r : /\ r[0] = <<>> /\ \A k \in 1..Len(parts) : r[k] = Then(r[k - 1], parts[k])
               /\ FoldLeft(Then, <<>>, parts) = r[Len(parts)]
  BY JoinedRun
<1> DEFINE P == {k \in Nat : k <= Len(parts) => Loops(s, r[k])}
<1>2. 0 \in P
  BY <1>1, NothingLoops
<1>3. ASSUME NEW k \in P PROVE k + 1 \in P
  <2> SUFFICES ASSUME k + 1 <= Len(parts) PROVE Loops(s, r[k + 1])
    OBVIOUS
  <2>1. k + 1 \in 1..Len(parts) /\ (k + 1) - 1 = k /\ Loops(s, r[k])
    OBVIOUS
  <2>2. r[k + 1] = r[k] \o parts[k + 1]
    BY <1>1, <2>1 DEF Then
  <2>3. Loops(s, parts[k + 1])
    BY <2>1
  <2> QED
    BY <2>1, <2>2, <2>3, LeadsOn DEF Loops
<1>4. P \in SUBSET Nat
  OBVIOUS
<1> HIDE DEF P
<1>5. P = Nat
  BY <1>2, <1>3, <1>4, Joining!Induction
<1>6. Len(parts) \in P /\ Len(parts) <= Len(parts)
  BY <1>5
<1> QED
  BY <1>1, <1>6 DEF P

(***************************************************************************)
(* Values in an array, as many as there are.                               *)
(***************************************************************************)
LEMMA ValuesLoop ==
    ASSUME NEW p \in Seq(Marks), NEW n \in Nat
    PROVE  Loops(Array(p), [k \in 1..n |-> "value"])
<1> DEFINE calls == [k \in 1..n |-> "value"]
           r == [k \in 1..(n + 1) |-> Array(p)]
<1>1. calls \in Seq(CallNames) /\ Len(calls) = n /\ \A k \in 1..n : calls[k] = "value"
  BY DEF CallNames
<1>2. Goes(Array(p), "value", Array(p))
  BY DEF Goes
<1>3. /\ r[1] = Array(p) /\ r[n + 1] = Array(p)
      /\ \A k \in 1..n : r[k] = Array(p) /\ r[k + 1] = Array(p)
  OBVIOUS
<1> HIDE DEF calls, r
<1>4. \A k \in 1..Len(calls) : Goes(r[k], calls[k], r[k + 1])
  BY <1>1, <1>2, <1>3
<1>5. Leads(Array(p), calls, Array(p))
  BY <1>1, <1>3, <1>4 DEF Leads
<1> QED
  BY <1>1, <1>5 DEF Loops, calls

(***************************************************************************)
(* Where the calls lead that render_catalog makes.                         *)
(***************************************************************************)
LEMMA Moves ==
    ASSUME NEW p \in Seq(Marks)
    PROVE  /\ Object(p) \in Seq(Marks) /\ Keyed(p) \in Seq(Marks) /\ Array(p) \in Seq(Marks)
           /\ Goes(Object(p), "key", Keyed(p))
           /\ Goes(Object(p), "field", Object(p))
           /\ Goes(Array(p), "value", Array(p))
           /\ Goes(Array(p), "begin_object", Object(Array(p)))
           /\ Goes(Keyed(p), "begin_object", Object(Object(p)))
           /\ Goes(Keyed(p), "begin_array", Array(Object(p)))
           /\ Goes(Text(p), "begin_array", Array(p))
           /\ Goes(Object(p), "end_object", p)
           /\ Goes(Array(p), "end_array", p)
<1>1. Object(p) \in Seq(Marks) /\ Keyed(p) \in Seq(Marks) /\ Array(p) \in Seq(Marks)
  BY DEF Object, Keyed, Array, Marks
<1> QED
  BY <1>1, Zenon DEF Goes

-------------------------------------------------------------------------------
(***************************************************************************)
(* render_catalog's calls for a parameter, for the triggers and for a tool *)
(* can be made where it makes them, and lead back to there; those for the  *)
(* catalog lead from a text not begun to one with nothing open.            *)
(***************************************************************************)
LEMMA ParamLoops ==
    ASSUME NEW p \in Seq(Marks), NEW param, param.list \in BOOLEAN
    PROVE  Loops(Object(p), ParamCalls(param))
<1> DEFINE a == <<"key", "begin_object", "field", "field">>
           b == <<"key", "begin_object", "field", "end_object">>
           c == <<"end_object">>
           s == Object(p)
           t == Object(s)
<1>1. a \in Seq(CallNames) /\ b \in Seq(CallNames) /\ c \in Seq(CallNames)
  BY DEF CallNames
<1>2. s \in Seq(Marks) /\ t \in Seq(Marks) /\ Goes(t, "end_object", s)
  BY Moves
<1>3. Leads(s, a, t)
  <2>1. /\ Goes(s, "key", Keyed(p)) /\ Goes(Keyed(p), "begin_object", t)
        /\ Goes(t, "field", t)
    BY <1>2, Moves
  <2> DEFINE r == <<s, Keyed(p), t, t, t>>
  <2> HIDE DEF s, t
  <2>2. r[1] = s /\ r[Len(a) + 1] = t /\ \A k \in 1..Len(a) : Goes(r[k], a[k], r[k + 1])
    BY <2>1
  <2> HIDE DEF a, r
  <2> QED
    BY <2>2 DEF Leads
<1>4. Leads(t, b, t)
  <2> DEFINE u == Object(t)
             v == Keyed(s)
  <2>1. /\ Goes(t, "key", v) /\ Goes(v, "begin_object", u)
        /\ Goes(u, "field", u) /\ Goes(u, "end_object", t)
    BY <1>2, Moves
  <2> DEFINE r == <<t, v, u, u, t>>
  <2> HIDE DEF s, t, u, v
  <2>2. r[1] = t /\ r[Len(b) + 1] = t /\ \A k \in 1..Len(b) : Goes(r[k], b[k], r[k + 1])
    BY <2>1
  <2> HIDE DEF b, r
  <2> QED
    BY <2>2 DEF Leads
<1>5. Leads(t, c, s)
  <2> DEFINE r == <<t, s>>
  <2> HIDE DEF s, t
  <2>1. r[1] = t /\ r[Len(c) + 1] = s /\ \A k \in 1..Len(c) : Goes(r[k], c[k], r[k + 1])
    BY <1>2
  <2> HIDE DEF c, r
  <2> QED
    BY <2>1 DEF Leads
<1> DEFINE d == IF param.list THEN b ELSE <<>>
           ad == a \o d
<1>6. d \in Seq(CallNames) /\ Leads(t, d, t)
  <2> HIDE DEF t, b
  <2> QED
    BY <1>1, <1>4, NothingLoops DEF Loops
<1>7. ParamCalls(param) = ad \o c
  BY DEF ParamCalls
<1> HIDE DEF a, b, c, d, s, t
<1>8. ad \in Seq(CallNames) /\ Leads(s, ad, t)
  BY <1>1, <1>3, <1>6, LeadsOn
<1> HIDE DEF ad
<1>9. ad \o c \in Seq(CallNames) /\ Leads(s, ad \o c, s)
  BY <1>1, <1>5, <1>8, LeadsOn
<1> QED
  BY <1>7, <1>9 DEF Loops, s

LEMMA TriggersLoop ==
    ASSUME NEW p \in Seq(Marks), NEW triggers \in Nat
    PROVE  Loops(Object(p), TriggerCalls(triggers))
<1> DEFINE a == <<"key", "begin_array">>
           b == [n \in 1..triggers |-> "value"]
           c == <<"end_array">>
           s == Object(p)
           t == Array(s)
           ab == a \o b
<1>1. a \in Seq(CallNames) /\ c \in Seq(CallNames)
  BY DEF CallNames
<1>2. /\ Goes(s, "key", Keyed(p)) /\ Goes(Keyed(p), "begin_array", t)
      /\ Goes(t, "end_array", s) /\ s \in Seq(Marks)
  BY Moves
<1>3. Loops(t, b)
  BY <1>2, ValuesLoop
<1>4. TriggerCalls(triggers) = IF triggers = 0 THEN <<>> ELSE ab \o c
  BY DEF TriggerCalls
<1> HIDE DEF s, t, b
<1>5. Leads(s, a, t)
  <2> DEFINE r == <<s, Keyed(p), t>>
  <2>1. r[1] = s /\ r[Len(a) + 1] = t /\ \A k \in 1..Len(a) : Goes(r[k], a[k], r[k + 1])
    BY <1>2
  <2> HIDE DEF a, r
  <2> QED
    BY <2>1 DEF Leads
<1>6. Leads(t, c, s)
  <2> DEFINE r == <<t, s>>
  <2>1. r[1] = t /\ r[Len(c) + 1] = s /\ \A k \in 1..Len(c) : Goes(r[k], c[k], r[k + 1])
    BY <1>2
  <2> HIDE DEF c, r
  <2> QED
    BY <2>1 DEF Leads
<1> HIDE DEF a, c
<1>7. ab \in Seq(CallNames) /\ Leads(s, ab, t)
  BY <1>1, <1>3, <1>5, LeadsOn DEF Loops
<1> HIDE DEF ab
<1>8. ab \o c \in Seq(CallNames) /\ Leads(s, ab \o c, s)
  BY <1>1, <1>6, <1>7, LeadsOn
<1>9. Loops(s, ab \o c) /\ Loops(s, <<>>)
  BY <1>8, NothingLoops DEF Loops
<1>10. Loops(s, TriggerCalls(triggers))
  BY <1>4, <1>9
<1> QED
  BY <1>10 DEF s

LEMMA RequiredLoops ==
    ASSUME NEW p \in Seq(Marks), NEW param, param.required \in BOOLEAN
    PROVE  Loops(Array(p), RequiredCalls(param))
<1> DEFINE s == Array(p)
           a == <<"value">>
           r == <<s, s>>
<1>1. a \in Seq(CallNames) /\ Goes(s, "value", s)
  BY Moves DEF CallNames
<1> HIDE DEF s
<1>2. r[1] = s /\ r[Len(a) + 1] = s /\ \A k \in 1..Len(a) : Goes(r[k], a[k], r[k + 1])
  BY <1>1
<1>3. RequiredCalls(param) = IF param.required THEN a ELSE <<>>
  BY DEF RequiredCalls
<1> HIDE DEF a, r
<1>4. Loops(s, a) /\ Loops(s, <<>>)
  BY <1>1, <1>2, NothingLoops DEF Leads, Loops
<1>5. Loops(s, RequiredCalls(param))
  BY <1>3, <1>4
<1> QED
  BY <1>5 DEF s

LEMMA Listed ==
    ASSUME NEW n \in Nat, NEW f, f = [k \in 1..n |-> f[k]]
    PROVE  f \in Seq({f[k] : k \in 1..n}) /\ Len(f) = n
  OBVIOUS

(***************************************************************************)
(* All parameters of a tool.                                               *)
(***************************************************************************)
LEMMA ParamsLoop ==
    ASSUME NEW p \in Seq(Marks),
           NEW params \in Seq([list : BOOLEAN, required : BOOLEAN])
    PROVE  /\ Loops(Object(p), Each(ParamCalls, params))
           /\ Loops(Array(p), Each(RequiredCalls, params))
<1> DEFINE n == Len(params)
           P == [list : BOOLEAN, required : BOOLEAN]
           calls == [k \in 1..n |-> ParamCalls(params[k])]
           names == [k \in 1..n |-> RequiredCalls(params[k])]
<1>1. n \in Nat /\ DOMAIN params = 1..n /\ \A k \in 1..n : params[k] \in P
  <2>1. params \in Seq(P)
    OBVIOUS
  <2> HIDE DEF P
  <2> QED
    BY <2>1
<1>2. \A q \in P : q.list \in BOOLEAN /\ q.required \in BOOLEAN
  OBVIOUS
<1>3. calls = [k \in 1..n |-> calls[k]] /\ names = [k \in 1..n |-> names[k]]
  <2> HIDE DEF n
  <2> QED
    OBVIOUS
<1>4. \A k \in 1..n : Loops(Object(p), calls[k]) /\ Loops(Array(p), names[k])
  <2> TAKE k \in 1..n
  <2>1. params[k].list \in BOOLEAN /\ params[k].required \in BOOLEAN
    BY <1>1, <1>2
  <2> QED
    BY <2>1, ParamLoops, RequiredLoops
<1>5. /\ Each(ParamCalls, params) = FoldLeft(Then, <<>>, calls)
      /\ Each(RequiredCalls, params) = FoldLeft(Then, <<>>, names)
  BY <1>1 DEF Each
<1> HIDE DEF n, P, calls, names
<1>6. /\ calls \in Seq({calls[k] : k \in 1..n}) /\ Len(calls) = n
      /\ names \in Seq({names[k] : k \in 1..n}) /\ Len(names) = n
  BY <1>1, <1>3, Listed, Zenon
<1>7. Loops(Object(p), FoldLeft(Then, <<>>, calls))
  BY <1>4, <1>6, AllLoop
<1>8. Loops(Array(p), FoldLeft(Then, <<>>, names))
  BY <1>4, <1>6, AllLoop
<1> QED
  BY <1>5, <1>7, <1>8

LEMMA SpecLoops ==
    ASSUME NEW p \in Seq(Marks), NEW spec \in ToolSpec
    PROVE  Loops(Array(p), SpecCalls(spec))
<1> DEFINE a == <<"begin_object", "field", "key", "begin_object", "field", "field">>
           b == TriggerCalls(spec.triggers)
           c == <<"key", "begin_object", "field", "key", "begin_object">>
           d == Each(ParamCalls, spec.params)
           e == <<"end_object", "key", "begin_array">>
           f == Each(RequiredCalls, spec.params)
           g == <<"end_array", "end_object", "end_object", "end_object">>
           s0 == Array(p)
           s1 == Object(s0)
           s2 == Object(s1)
           s3 == Object(s2)
           s4 == Object(s3)
           k1 == Keyed(s0)
           k2 == Keyed(s1)
           k3 == Keyed(s2)
           s5 == Array(s3)
<1>1. /\ a \in Seq(CallNames) /\ c \in Seq(CallNames)
      /\ e \in Seq(CallNames) /\ g \in Seq(CallNames)
  BY DEF CallNames
<1>2. /\ spec.triggers \in Nat /\ spec.params \in Seq([list : BOOLEAN, required : BOOLEAN])
  BY DEF ToolSpec
<1>3. /\ s0 \in Seq(Marks) /\ s1 \in Seq(Marks) /\ s2 \in Seq(Marks) /\ s3 \in Seq(Marks)
  <2>1. s0 \in Seq(Marks)
    BY Moves
  <2>2. s1 \in Seq(Marks)
    BY <2>1, Moves
  <2>3. s2 \in Seq(Marks)
    BY <2>2, Moves
  <2> QED
    BY <2>1, <2>2, <2>3, Moves
<1>4. /\ Goes(s0, "begin_object", s1) /\ Goes(s1, "end_object", s0)
      /\ Goes(s1, "field", s1) /\ Goes(s1, "key", k1) /\ Goes(k1, "begin_object", s2)
  BY <1>3, Moves
<1>5. /\ Goes(s2, "end_object", s1) /\ Goes(s2, "field", s2) /\ Goes(s2, "key", k2)
      /\ Goes(k2, "begin_object", s3)
  BY <1>3, Moves
<1>6. /\ Goes(s3, "end_object", s2) /\ Goes(s3, "field", s3) /\ Goes(s3, "key", k3)
      /\ Goes(k3, "begin_object", s4) /\ Goes(k3, "begin_array", s5)
      /\ Goes(s4, "end_object", s3) /\ Goes(s5, "end_array", s3)
  BY <1>3, Moves
<1>7. Loops(s2, b)
  BY <1>2, <1>3, TriggersLoop
<1>8. Loops(s4, d) /\ Loops(s5, f)
  BY <1>2, <1>3, ParamsLoop
<1>9. SpecCalls(spec) = (((((a \o b) \o c) \o d) \o e) \o f) \o g
  BY DEF SpecCalls
<1> HIDE DEF b, d, f, s0, s1, s2, s3, s4, s5, k1, k2, k3
<1>10. Leads(s0, a, s2)
  <2> DEFINE r == <<s0, s1, s1, k1, s2, s2, s2>>
  <2>1. r[1] = s0 /\ r[Len(a) + 1] = s2 /\ \A k \in 1..Len(a) : Goes(r[k], a[k], r[k + 1])
    BY <1>4, <1>5
  <2> HIDE DEF a, r
  <2> QED
    BY <2>1 DEF Leads
<1>11. Leads(s2, c, s4)
  <2> DEFINE r == <<s2, k2, s3, s3, k3, s4>>
  <2>1. r[1] = s2 /\ r[Len(c) + 1] = s4 /\ \A k \in 1..Len(c) : Goes(r[k], c[k], r[k + 1])
    BY <1>5, <1>6
  <2> HIDE DEF c, r
  <2> QED
    BY <2>1 DEF Leads
<1>12. Leads(s4, e, s5)
  <2> DEFINE r == <<s4, s3, k3, s5>>
  <2>1. r[1] = s4 /\ r[Len(e) + 1] = s5 /\ \A k \in 1..Len(e) : Goes(r[k], e[k], r[k + 1])
    BY <1>6
  <2> HIDE DEF e, r
  <2> QED
    BY <2>1 DEF Leads
<1>13. Leads(s5, g, s0)
  <2> DEFINE r == <<s5, s3, s2, s1, s0>>
  <2>1. r[1] = s5 /\ r[Len(g) + 1] = s0 /\ \A k \in 1..Len(g) : Goes(r[k], g[k], r[k + 1])
    BY <1>4, <1>5, <1>6
  <2> HIDE DEF g, r
  <2> QED
    BY <2>1 DEF Leads
<1> DEFINE ab == a \o b
           abc == ab \o c
           abcd == abc \o d
           abcde == abcd \o e
           abcdef == abcde \o f
           abcdefg == abcdef \o g
<1> HIDE DEF a, c, e, g, ab, abc, abcd, abcde, abcdef, abcdefg
<1>14. ab \in Seq(CallNames) /\ Leads(s0, ab, s2)
  BY <1>1, <1>7, <1>10, LeadsOn DEF ab, Loops
<1>15. abc \in Seq(CallNames) /\ Leads(s0, abc, s4)
  BY <1>1, <1>11, <1>14, LeadsOn DEF abc
<1>16. abcd \in Seq(CallNames) /\ Leads(s0, abcd, s4)
  BY <1>8, <1>15, LeadsOn DEF abcd, Loops
<1>17. abcde \in Seq(CallNames) /\ Leads(s0, abcde, s5)
  BY <1>1, <1>12, <1>16, LeadsOn DEF abcde
<1>18. abcdef \in Seq(CallNames) /\ Leads(s0, abcdef, s5)
  BY <1>8, <1>17, LeadsOn DEF abcdef, Loops
<1>19. abcdefg \in Seq(CallNames) /\ Leads(s0, abcdefg, s0)
  BY <1>1, <1>13, <1>18, LeadsOn DEF abcdefg
<1>20. SpecCalls(spec) = abcdefg
  BY <1>9 DEF ab, abc, abcd, abcde, abcdef, abcdefg
<1> QED
  BY <1>19, <1>20 DEF Loops, s0

LEMMA CatalogLeaves ==
    ASSUME NEW specs \in Seq(ToolSpec)
    PROVE  /\ render_catalog(specs) \in Seq(CallNames)
           /\ Leads(<<"text">>, render_catalog(specs), <<>>)
<1> DEFINE n == Len(specs)
           parts == [k \in 1..n |-> SpecCalls(specs[k])]
           none == <<>>
           s == Text(none)
           t == Array(none)
           a == <<"begin_array">>
           b == Each(SpecCalls, specs)
           c == <<"end_array">>
           ab == a \o b
<1>1. n \in Nat /\ DOMAIN specs = 1..n /\ \A k \in 1..n : specs[k] \in ToolSpec
  OBVIOUS
<1>2. none \in Seq(Marks) /\ s = <<"text">>
  BY EmptyText DEF Text
<1>3. Goes(s, "begin_array", t) /\ Goes(t, "end_array", none)
  BY <1>2, Moves
<1>4. parts \in Seq({parts[k] : k \in 1..n}) /\ Len(parts) = n
  BY <1>1, Listed, Zenon
<1>5. \A k \in 1..n : Loops(t, parts[k])
  BY <1>1, <1>2, SpecLoops
<1>6. b = FoldLeft(Then, <<>>, parts)
  BY <1>1 DEF Each
<1>7. a \in Seq(CallNames) /\ c \in Seq(CallNames)
  BY DEF CallNames
<1>8. render_catalog(specs) = ab \o c
  BY DEF render_catalog
<1> HIDE DEF n, parts, b, s, t, none
<1>9. Loops(t, FoldLeft(Then, <<>>, parts))
  BY <1>4, <1>5, AllLoop
<1>10. Leads(s, a, t)
  <2> DEFINE r == <<s, t>>
  <2>1. r[1] = s /\ r[Len(a) + 1] = t /\ \A k \in 1..Len(a) : Goes(r[k], a[k], r[k + 1])
    BY <1>3
  <2> HIDE DEF a, r
  <2> QED
    BY <2>1 DEF Leads
<1>11. Leads(t, c, none)
  <2> DEFINE r == <<t, none>>
  <2>1. r[1] = t /\ r[Len(c) + 1] = none /\ \A k \in 1..Len(c) : Goes(r[k], c[k], r[k + 1])
    BY <1>3
  <2> HIDE DEF c, r
  <2> QED
    BY <2>1 DEF Leads
<1> HIDE DEF a, c
<1>12. ab \in Seq(CallNames) /\ Leads(s, ab, t)
  BY <1>6, <1>7, <1>9, <1>10, LeadsOn DEF Loops
<1> HIDE DEF ab
<1>13. ab \o c \in Seq(CallNames) /\ Leads(s, ab \o c, none)
  BY <1>7, <1>11, <1>12, LeadsOn
<1> QED
  BY <1>2, <1>8, <1>13 DEF none

-------------------------------------------------------------------------------
(***************************************************************************)
(* The marks of what is open, as levels come and go.                       *)
(***************************************************************************)
LEMMA MarksType ==
    ASSUME NEW levels \in Seq(Levels)
    PROVE  /\ MarksOf(levels) \in Seq(Marks) /\ Len(MarksOf(levels)) = Len(levels)
           /\ \A k \in 1..Len(levels) : MarksOf(levels)[k] = Mark(levels[k])
<1>1. \A level : Mark(level) \in Marks
  BY DEF Mark, Marks
<1> QED
  BY <1>1 DEF MarksOf

LEMMA MarksAppend ==
    ASSUME NEW levels \in Seq(Levels), NEW level \in Levels
    PROVE  MarksOf(Append(levels, level)) = Append(MarksOf(levels), Mark(level))
<1> DEFINE more == Append(levels, level)
           m == Mark(level)
           a == MarksOf(more)
           b == Append(MarksOf(levels), m)
           n == Len(levels)
<1>1. /\ more \in Seq(Levels) /\ Len(more) = n + 1 /\ n \in Nat
      /\ more[n + 1] = level /\ \A k \in 1..n : more[k] = levels[k]
  OBVIOUS
<1>2. m \in Marks
  BY DEF Mark, Marks
<1>3. /\ MarksOf(levels) \in Seq(Marks) /\ Len(MarksOf(levels)) = n
      /\ \A k \in 1..n : MarksOf(levels)[k] = Mark(levels[k])
  BY MarksType
<1>4. a \in Seq(Marks) /\ Len(a) = n + 1 /\ \A k \in 1..(n + 1) : a[k] = Mark(more[k])
  <2> HIDE DEF more
  <2> QED
    BY <1>1, MarksType
<1> HIDE DEF m
<1>5. /\ b \in Seq(Marks) /\ Len(b) = n + 1 /\ b[n + 1] = m
      /\ \A k \in 1..n : b[k] = Mark(levels[k])
  BY <1>1, <1>2, <1>3
<1> HIDE DEF a, b, more, n
<1>6. \A k \in 1..(n + 1) : a[k] = b[k]
  <2> TAKE k \in 1..(n + 1)
  <2>1. CASE k \in 1..n
    BY <1>1, <1>4, <1>5, <2>1
  <2>2. CASE k = n + 1
    BY <1>1, <1>4, <1>5, <2>2 DEF m
  <2> QED
    BY <1>1, <2>1, <2>2
<1>7. a = b
  BY <1>1, <1>4, <1>5, <1>6
<1> QED
  BY <1>7 DEF a, b, m, more

LEMMA Splits ==
    ASSUME NEW S, NEW s \in Seq(S), s # <<>>
    PROVE  s = Append(Front(s), Last(s))
<1> DEFINE n == Len(s)
           f == Front(s)
           x == Last(s)
           a == Append(f, x)
<1>1. /\ n \in Nat \ {0} /\ f \in Seq(S) /\ Len(f) = n - 1 /\ x \in S /\ x = s[n]
      /\ \A k \in 1..(n - 1) : f[k] = s[k]
  BY FrontAndLast
<1> HIDE DEF f, x
<1>2. /\ a \in Seq(S) /\ Len(a) = n /\ a[n] = x
      /\ \A k \in 1..(n - 1) : a[k] = f[k]
  BY <1>1
<1>3. s \in Seq(S) /\ Len(s) = n
  OBVIOUS
<1> HIDE DEF a, n
<1>4. \A k \in 1..n : a[k] = s[k]
  BY <1>1, <1>2
<1>5. s = a
  BY <1>1, <1>2, <1>3, <1>4
<1> QED
  BY <1>5 DEF a, f, x

LEMMA Inside ==
    ASSUME IInv, ~Outer
    PROVE  /\ Front(nesting) \in Seq(Levels) /\ Inner \in Levels
           /\ MarksOf(Front(nesting)) \in Seq(Marks)
           /\ MarksOf(nesting) = Append(MarksOf(Front(nesting)), Mark(Inner))
<1>1. nesting \in Seq(Levels) /\ nesting # <<>>
  BY DEF IInv, TypeOK, Outer
<1>2. Front(nesting) \in Seq(Levels) /\ Inner \in Levels
  BY <1>1, FrontAndLast DEF Inner
<1>3. nesting = Append(Front(nesting), Inner)
  BY <1>1, Splits DEF Inner
<1>4. MarksOf(Append(Front(nesting), Inner)) = Append(MarksOf(Front(nesting)), Mark(Inner))
  BY <1>2, MarksAppend
<1> QED
  BY <1>2, <1>3, <1>4, MarksType, Zenon

LEMMA MemberMarks ==
    ASSUME IInv, ~Outer
    PROVE  /\ WithMember \in Seq(Levels)
           /\ MarksOf(WithMember) = Append(MarksOf(Front(nesting)),
                                           IF Inner.kind = "array" THEN "array" ELSE "object")
<1> DEFINE given == [Inner EXCEPT !.members = TRUE, !.keyed = FALSE]
<1>1. Front(nesting) \in Seq(Levels) /\ Inner \in Levels
  BY Inside
<1>2. given \in Levels /\ given.kind = Inner.kind /\ ~given.keyed
  BY <1>1 DEF Levels
<1>3. Mark(given) = IF Inner.kind = "array" THEN "array" ELSE "object"
  <2> HIDE DEF given
  <2> QED
    BY <1>2 DEF Mark
<1>4. WithMember = Append(Front(nesting), given)
  BY DEF WithMember
<1> HIDE DEF given
<1> QED
  BY <1>1, <1>2, <1>3, <1>4, MarksAppend, MemberGiven

(***************************************************************************)
(* What a place says of the nesting.                                       *)
(***************************************************************************)
LEMMA At ==
    ASSUME IInv, NEW p \in Seq(Marks), NEW x \in Marks, Place = Append(p, x)
    PROVE  \/ x = "text" /\ Outer /\ mBuilder = <<>> /\ p = <<>>
           \/ x # "text" /\ ~Outer /\ p = MarksOf(Front(nesting)) /\ x = Mark(Inner)
<1>1. CASE Outer /\ mBuilder = <<>>
  <2>1. Append(p, x) = <<"text">>
    BY <1>1 DEF Place
  <2>2. Len(Append(p, x)) = Len(p) + 1 /\ Append(p, x)[Len(p) + 1] = x
    OBVIOUS
  <2>3. Len(p) = 0 /\ x = "text"
    BY <2>1, <2>2
  <2> QED
    BY <1>1, <2>3
<1>2. CASE Outer /\ mBuilder # <<>>
  <2>1. Len(MarksOf(nesting)) = 0
    BY <1>2, EmptyText, MarksType DEF Outer
  <2>2. Len(Append(p, x)) = Len(p) + 1 /\ Len(p) \in Nat
    OBVIOUS
  <2> QED
    BY <1>2, <2>1, <2>2 DEF Place
<1>3. CASE ~Outer
  <2> DEFINE q == MarksOf(Front(nesting))
             y == Mark(Inner)
  <2>1. q \in Seq(Marks) /\ y \in Marks /\ y # "text"
    BY <1>3, Inside DEF Mark, Marks
  <2>2. Append(q, y) = Append(p, x)
    BY <1>3, Inside DEF Place
  <2> HIDE DEF q, y
  <2>3. q = p /\ y = x
    BY <2>1, <2>2, AppendInjective
  <2> QED
    BY <1>3, <2>1, <2>3 DEF q, y
<1> QED
  BY <1>1, <1>2, <1>3

-------------------------------------------------------------------------------
(***************************************************************************)
(* A call that leads somewhere from where the caller is may be made.       *)
(***************************************************************************)
LEMMA Allowed ==
    ASSUME IInv, Reads, NEW name, NEW t, Goes(Place, name, t)
    PROVE  MayCall(name)
<1>1. {"text", "object", "keyed", "array"} \subseteq Marks
  BY DEF Marks
<1>2. ~Outer => Inner.kind \in {"object", "array"} /\ (Inner.keyed => Inner.kind = "object")
  <2> SUFFICES ASSUME ~Outer
               PROVE  Inner.kind \in {"object", "array"} /\ (Inner.keyed => Inner.kind = "object")
    OBVIOUS
  <2>1. nesting \in Seq(Levels) /\ nesting # <<>>
    BY DEF IInv, TypeOK, Outer
  <2>2. Inner = nesting[Len(nesting)] /\ Len(nesting) \in 1..Len(nesting) /\ Inner \in Levels
    BY <2>1, FrontAndLast DEF Inner
  <2> QED
    BY <2>2 DEF Reads, Levels
<1>3. PICK p \in Seq(Marks) :
        \/ name \in {"key", "field", "end_object"} /\ Place = Append(p, "object")
        \/ name \in {"value", "begin_object", "end_array"} /\ Place = Append(p, "array")
        \/ name \in {"begin_object", "begin_array"} /\ Place = Append(p, "keyed")
        \/ name = "begin_array" /\ Place = Append(p, "text")
  BY Zenon DEF Goes, Object, Keyed, Array, Text
<1>4. CASE name \in {"key", "field", "end_object"} /\ Place = Append(p, "object")
  <2>1. ~Outer /\ Mark(Inner) = "object"
    BY <1>1, <1>4, At
  <2>2. Inner.kind = "object" /\ ~Inner.keyed
    BY <1>2, <2>1 DEF Mark
  <2> QED
    BY <1>4, <2>1, <2>2 DEF MayCall, MayAddKey, MayEnd
<1>5. CASE name \in {"value", "begin_object", "end_array"} /\ Place = Append(p, "array")
  <2>1. ~Outer /\ Mark(Inner) = "array"
    BY <1>1, <1>5, At
  <2>2. Inner.kind = "array" /\ ~Inner.keyed
    BY <1>2, <2>1 DEF Mark
  <2> QED
    BY <1>5, <2>1, <2>2 DEF MayCall, MayAddValue, MayEnd
<1>6. CASE name \in {"begin_object", "begin_array"} /\ Place = Append(p, "keyed")
  <2>1. ~Outer /\ Mark(Inner) = "keyed"
    BY <1>1, <1>6, At
  <2>2. Inner.keyed
    BY <2>1 DEF Mark
  <2> QED
    BY <1>6, <2>1, <2>2 DEF MayCall, MayAddValue
<1>7. CASE name = "begin_array" /\ Place = Append(p, "text")
  <2>1. Outer /\ mBuilder = <<>>
    BY <1>1, <1>7, At
  <2> QED
    BY <1>7, <2>1 DEF MayCall, MayAddValue
<1> QED
  BY <1>3, <1>4, <1>5, <1>6, <1>7

(***************************************************************************)
(* And it leads there: one step for each call.                             *)
(***************************************************************************)
LEMMA Writes ==
    ASSUME IInv,
           \/ begin_object \/ end_object \/ begin_array \/ end_array \/ key \/ value \/ field
    PROVE  Place' = MarksOf(nesting')
<1> SUFFICES mBuilder' # <<>>
  BY DEF Place
<1>1. ASSUME NEW kind, NEW token \in Tokens, Begin(kind, token) PROVE mBuilder' # <<>>
  <2>1. <<token>> \in Seq(Tokens) /\ <<token>> # <<>> /\ FALSE \in BOOLEAN
    OBVIOUS
  <2> QED
    BY <1>1, <2>1, Emitted DEF Begin
<1>2. ASSUME NEW kind, NEW token \in Tokens, End(kind, token) PROVE mBuilder' # <<>>
  BY <1>2 DEF End, IInv, TypeOK
<1>3. ASSUME key PROVE mBuilder' # <<>>
  <2>1. <<"name", ":">> \in Seq(Tokens) /\ <<"name", ":">> # <<>>
    BY DEF Tokens
  <2> QED
    BY <1>3, <2>1, Emitted DEF key
<1>4. ASSUME value \/ field PROVE mBuilder' # <<>>
  <2>1. /\ <<"value">> \in Seq(Tokens) /\ <<"value">> # <<>>
        /\ <<"name", ":", "value">> \in Seq(Tokens) /\ <<"name", ":", "value">> # <<>>
    BY DEF Tokens
  <2> QED
    BY <1>4, <2>1, Emitted DEF value, field
<1>5. {"{", "}", "[", "]"} \subseteq Tokens
  BY DEF Tokens
<1> QED
  BY <1>1, <1>2, <1>3, <1>4, <1>5 DEF begin_object, begin_array, end_object, end_array

LEMMA BeginLeads ==
    ASSUME IInv, NEW kind \in {"object", "array"}, NEW token \in Tokens, Begin(kind, token),
           NEW p \in Seq(Marks)
    PROVE  /\ Place = Array(p) => MarksOf(nesting') = Append(Array(p), kind)
           /\ Place = Keyed(p) => MarksOf(nesting') = Append(Object(p), kind)
           /\ Place = Text(p) => MarksOf(nesting') = Append(p, kind)
<1>1. {"text", "object", "keyed", "array"} \subseteq Marks
  BY DEF Marks
<1>2. Level(kind) \in Levels /\ Mark(Level(kind)) = kind
  BY DEF Level, Levels, Mark
<1>3. MarksOf(nesting') = Append(MarksOf(WithMember), kind)
  <2>1. WithMember \in Seq(Levels) /\ nesting' = Append(WithMember, Level(kind))
    BY MemberGiven DEF Begin
  <2>2. MarksOf(Append(WithMember, Level(kind))) = Append(MarksOf(WithMember), Mark(Level(kind)))
    BY <1>2, <2>1, MarksAppend
  <2> QED
    BY <1>2, <2>1, <2>2
<1>4. ASSUME Place = Array(p) PROVE MarksOf(WithMember) = Array(p)
  <2>1. ~Outer /\ p = MarksOf(Front(nesting)) /\ Mark(Inner) = "array"
    BY <1>1, <1>4, At DEF Array
  <2>2. Inner.kind = "array"
    BY <2>1 DEF Mark
  <2> QED
    BY <2>1, <2>2, MemberMarks DEF Array
<1>5. ASSUME Place = Keyed(p) PROVE MarksOf(WithMember) = Object(p)
  <2>1. ~Outer /\ p = MarksOf(Front(nesting)) /\ Mark(Inner) = "keyed"
    BY <1>1, <1>5, At DEF Keyed
  <2>2. Inner.kind # "array"
    BY <2>1 DEF Mark
  <2> QED
    BY <2>1, <2>2, MemberMarks DEF Object
<1>6. ASSUME Place = Text(p) PROVE MarksOf(WithMember) = p
  <2>1. Outer /\ p = <<>>
    BY <1>1, <1>6, At DEF Text
  <2> DEFINE marks == MarksOf(WithMember)
  <2>2. WithMember = <<>> /\ Len(WithMember) = 0
    BY <2>1 DEF WithMember, Outer
  <2>3. marks \in Seq(Marks) /\ Len(marks) = 0
    BY <2>2, MemberGiven, MarksType
  <2> HIDE DEF marks
  <2>4. marks = <<>>
    BY <2>3
  <2> QED
    BY <2>1, <2>4 DEF marks
<1> QED
  BY <1>3, <1>4, <1>5, <1>6

LEMMA EndLeads ==
    ASSUME IInv, NEW kind, NEW token, End(kind, token), NEW p \in Seq(Marks), NEW x \in Marks,
           Place = Append(p, x)
    PROVE  MarksOf(nesting') = p
<1>1. ~Outer /\ nesting' = Front(nesting)
  BY DEF End, MayEnd
<1> QED
  BY <1>1, At

LEMMA KeyLeads ==
    ASSUME IInv, key, NEW p \in Seq(Marks), Place = Object(p)
    PROVE  MarksOf(nesting') = Keyed(p)
<1> DEFINE keyed == [Inner EXCEPT !.keyed = TRUE]
<1>1. ~Outer /\ Inner.kind = "object" /\ nesting' = Append(Front(nesting), keyed)
  BY DEF key, MayAddKey
<1>2. Front(nesting) \in Seq(Levels) /\ Inner \in Levels
  BY <1>1, Inside
<1>3. keyed \in Levels /\ Mark(keyed) = "keyed"
  <2>1. keyed \in Levels /\ keyed.kind = "object" /\ keyed.keyed
    BY <1>1, <1>2 DEF Levels
  <2> HIDE DEF keyed
  <2> QED
    BY <2>1 DEF Mark
<1>4. p = MarksOf(Front(nesting))
  BY <1>1, At DEF Object, Marks
<1> HIDE DEF keyed
<1> QED
  BY <1>1, <1>2, <1>3, <1>4, MarksAppend DEF Keyed

LEMMA MemberLeads ==
    ASSUME IInv, nesting' = WithMember, NEW p \in Seq(Marks), NEW x \in {"object", "array"},
           Place = Append(p, x)
    PROVE  MarksOf(nesting') = Append(p, x)
<1>1. x \in Marks /\ x # "text"
  BY DEF Marks
<1>2. ~Outer /\ p = MarksOf(Front(nesting)) /\ x = Mark(Inner)
  BY <1>1, At
<1>3. x = IF Inner.kind = "array" THEN "array" ELSE "object"
  BY <1>2 DEF Mark
<1> QED
  BY <1>2, <1>3, MemberMarks

(***************************************************************************)
(* So the caller is where the call leads to.                               *)
(***************************************************************************)
Made(name) ==
    \/ name = "begin_object" /\ begin_object
    \/ name = "end_object" /\ end_object
    \/ name = "begin_array" /\ begin_array
    \/ name = "end_array" /\ end_array
    \/ name = "key" /\ key
    \/ name = "value" /\ value
    \/ name = "field" /\ field

LEMMA LeadsThere ==
    ASSUME IInv, NEW name, NEW t, Goes(Place, name, t), Made(name)
    PROVE  Place' = t
<1>1. Place' = MarksOf(nesting')
  BY Writes, Zenon DEF Made
<1>2. PICK p \in Seq(Marks) :
        \/ name = "key" /\ Place = Object(p) /\ t = Keyed(p)
        \/ name = "field" /\ Place = Object(p) /\ t = Object(p)
        \/ name = "value" /\ Place = Array(p) /\ t = Array(p)
        \/ name = "begin_object" /\ Place = Array(p) /\ t = Object(Array(p))
        \/ name = "begin_object" /\ Place = Keyed(p) /\ t = Object(Object(p))
        \/ name = "begin_array" /\ Place = Keyed(p) /\ t = Array(Object(p))
        \/ name = "begin_array" /\ Place = Text(p) /\ t = Array(p)
        \/ name = "end_object" /\ Place = Object(p) /\ t = p
        \/ name = "end_array" /\ Place = Array(p) /\ t = p
  BY Zenon DEF Goes
<1>3. {"object", "array"} \subseteq Marks /\ {"{", "}", "[", "]"} \subseteq Tokens
  BY DEF Marks, Tokens
<1>4. CASE name = "key"
  <2>1. key /\ Place = Object(p) /\ t = Keyed(p)
    BY <1>2, <1>4 DEF Made
  <2> QED
    BY <1>1, <2>1, KeyLeads
<1>5. CASE name = "field"
  <2>1. nesting' = WithMember /\ Place = Append(p, "object") /\ t = Append(p, "object")
    BY <1>2, <1>5 DEF Made, field, Object
  <2> QED
    BY <1>1, <2>1, MemberLeads
<1>6. CASE name = "value"
  <2>1. nesting' = WithMember /\ Place = Append(p, "array") /\ t = Append(p, "array")
    BY <1>2, <1>6 DEF Made, value, Array
  <2> QED
    BY <1>1, <2>1, MemberLeads
<1>7. CASE name = "begin_object"
  <2>1. Begin("object", "{")
    BY <1>7 DEF Made, begin_object
  <2>2. /\ Place = Array(p) => MarksOf(nesting') = Append(Array(p), "object")
        /\ Place = Keyed(p) => MarksOf(nesting') = Append(Object(p), "object")
    BY <1>3, <2>1, BeginLeads
  <2>3. \/ Place = Array(p) /\ t = Object(Array(p))
        \/ Place = Keyed(p) /\ t = Object(Object(p))
    BY <1>2, <1>7
  <2> QED
    BY <1>1, <2>2, <2>3, Zenon DEF Object
<1>8. CASE name = "begin_array"
  <2>1. Begin("array", "[")
    BY <1>8 DEF Made, begin_array
  <2>2. /\ Place = Keyed(p) => MarksOf(nesting') = Append(Object(p), "array")
        /\ Place = Text(p) => MarksOf(nesting') = Append(p, "array")
    BY <1>3, <2>1, BeginLeads
  <2>3. \/ Place = Keyed(p) /\ t = Array(Object(p))
        \/ Place = Text(p) /\ t = Array(p)
    BY <1>2, <1>8
  <2> QED
    BY <1>1, <2>2, <2>3, Zenon DEF Array
<1>9. CASE name = "end_object"
  <2>1. End("object", "}") /\ Place = Append(p, "object") /\ t = p
    BY <1>2, <1>9 DEF Made, end_object, Object
  <2> QED
    BY <1>1, <1>3, <2>1, EndLeads
<1>10. CASE name = "end_array"
  <2>1. End("array", "]") /\ Place = Append(p, "array") /\ t = p
    BY <1>2, <1>10 DEF Made, end_array, Array
  <2> QED
    BY <1>1, <1>3, <2>1, EndLeads
<1> QED
  BY <1>2, <1>4, <1>5, <1>6, <1>7, <1>8, <1>9, <1>10

-------------------------------------------------------------------------------
LEMMA LeavesInit == SchemaInit => Leaves
<1> SUFFICES ASSUME SchemaInit PROVE Leaves
  OBVIOUS
<1>1. Place = <<"text">> /\ result = Pending
  BY DEF SchemaInit, Init, Place, Outer
<1>2. ASSUME script # Free PROVE script \in Seq(CallNames) /\ Leads(Place, script, <<>>)
  <2>1. PICK specs \in Catalogs : script = render_catalog(specs)
    BY <1>2 DEF SchemaInit
  <2>2. specs \in Seq(ToolSpec)
    BY SchemaAssumption
  <2> QED
    BY <1>1, <2>1, <2>2, CatalogLeaves
<1> QED
  BY <1>1, <1>2 DEF Leaves

(***************************************************************************)
(* When its calls are made, all that render_catalog opened is closed.      *)
(***************************************************************************)
LEMMA AllClosed ==
    ASSUME IInv, Leaves, script = <<>>
    PROVE  Outer /\ mBuilder # <<>> /\ str = {mBuilder, ParseFailed}
<1>1. Place = <<>>
  BY LeadsNowhere DEF Leaves, Free
<1>2. Outer /\ mBuilder # <<>>
  <2>1. ~(Outer /\ mBuilder = <<>>)
    BY <1>1 DEF Place
  <2>2. MarksOf(nesting) = <<>> /\ nesting \in Seq(Levels)
    BY <1>1, <2>1 DEF Place, IInv, TypeOK
  <2>3. Len(nesting) = 0
    BY <2>2, MarksType, EmptyText
  <2> QED
    BY <2>1, <2>2, <2>3 DEF Outer
<1>3. balanced
  BY <1>2 DEF balanced, Outer, IInv, TracksNesting
<1> QED
  BY <1>2, <1>3 DEF str

LEMMA LeavesNext == IInv /\ Reads /\ Leaves /\ [SchemaNext]_schemaVars => Leaves'
<1> SUFFICES ASSUME IInv, Reads, Leaves, [SchemaNext]_schemaVars PROVE Leaves'
  OBVIOUS
<1>1. ASSUME NEW name, Made(name), Call(name) PROVE Leaves'
  <2>1. CASE script = Free /\ UNCHANGED <<script, result>>
    BY <2>1 DEF Leaves, Free
  <2>2. CASE script # Free
    <3>1. /\ script # <<>> /\ Head(script) = name /\ script' = Tail(script)
          /\ script \in Seq(CallNames) /\ Leads(Place, script, <<>>) /\ result' = Pending
      BY <1>1, <2>2 DEF Call, Leaves
    <3>2. PICK u : Goes(Place, name, u) /\ Leads(u, Tail(script), <<>>)
      BY <3>1, LeadsFirst
    <3>3. Place' = u
      BY <1>1, <3>2, LeadsThere
    <3> QED
      BY <3>1, <3>2, <3>3 DEF Leaves
  <2>3. CASE script = Free
    <3>1. Head(script) # name
      BY <1>1, <2>3 DEF Made, Free
    <3> QED
      BY <1>1, <2>1, <2>3, <3>1 DEF Call
  <2> QED
    BY <2>2, <2>3
<1>2. CASE clear /\ script = Free /\ UNCHANGED <<script, result>>
  BY <1>2 DEF Leaves, Free
<1>3. CASE Return
  <2>1. script = <<>> /\ UNCHANGED <<vars, script>> /\ result' \in {mBuilder, ParseFailed}
    BY <1>3, AllClosed DEF Return
  <2>2. Place' = Place /\ mBuilder' = mBuilder /\ script' = script
    BY <2>1 DEF vars, Place, Outer
  <2>3. script # Free => script \in Seq(CallNames) /\ Leads(Place, script, <<>>)
    BY DEF Leaves
  <2>4. (script # Free => script \in Seq(CallNames) /\ Leads(Place, script, <<>>))'
    BY <2>2, <2>3
  <2>5. script' = <<>> /\ result' \in {mBuilder, ParseFailed}'
    BY <2>1, <2>2 DEF ParseFailed
  <2> QED
    BY <2>4, <2>5, Zenon DEF Leaves
<1>4. CASE UNCHANGED schemaVars
  BY <1>4 DEF Leaves, schemaVars, vars, Place, Outer
<1> QED
  BY <1>1, <1>2, <1>3, <1>4, Zenon DEF SchemaNext, Returned, Made

LEMMA Pair == ASSUME NEW S, NEW a \in S, NEW b \in S PROVE Append(<<a>>, b) = <<a, b>>
<1> DEFINE s == <<a>>
           x == Append(s, b)
           y == <<a, b>>
<1>1. s \in Seq(S)
  OBVIOUS
<1>2. Len(s) = 1 /\ s[1] = a
  OBVIOUS
<1>3. y \in Seq(S) /\ Len(y) = 2 /\ y[1] = a /\ y[2] = b
  OBVIOUS
<1> HIDE DEF s, y
<1>4. /\ x \in Seq(S) /\ Len(x) = Len(s) + 1 /\ x[Len(s) + 1] = b
      /\ \A k \in 1..Len(s) : x[k] = s[k]
  BY <1>1
<1> HIDE DEF x
<1>5. x = y
  BY <1>2, <1>3, <1>4
<1> QED
  BY <1>5 DEF x, y, s

LEMMA NoToolsIsJson == IsJson(<<"[", "]">>)
<1> DEFINE none == [open |-> <<>>, next |-> Values]
           one == [open |-> <<"array">>, next |-> Values \cup {"]"}]
<1>1. /\ <<>> \in Seq(Tokens) /\ "[" \in Tokens /\ "]" \in Tokens /\ "[" \in Values
      /\ <<"[">> \in Seq(Tokens)
  <2>1. "[" \in Tokens /\ "]" \in Tokens /\ "[" \in Values
    BY DEF Tokens, Values
  <2> QED
    BY <2>1, EmptyText, OneToken
<1>2. Append(<<>>, "[") = <<"[">> /\ Append(<<"[">>, "]") = <<"[", "]">>
  <2>1. Append(<<>>, "[") = <<"[">>
    OBVIOUS
  <2> QED
    BY <1>1, <2>1, Pair
<1>3. Parsed(<<"[">>) = Feed(none, "[")
  BY <1>1, <1>2, ParsesNothing, ParsesOneMore
<1>4. Feed(none, "[") = one
  <2>1. Append(<<>>, "array") = <<"array">>
    OBVIOUS
  <2> QED
    BY <1>1, <2>1, FeedTokens
<1>5. Parsed(<<"[", "]">>) = Feed(one, "]")
  BY <1>1, <1>2, <1>3, <1>4, ParsesOneMore
<1>6. Feed(one, "]") = Behind(Front(<<"array">>))
  <2>1. "]" \in Values \cup {"]"}
    OBVIOUS
  <2> QED
    BY <2>1, FeedTokens
<1>7. Front(<<"array">>) = <<>>
  <2> DEFINE s == <<"array">>
             f == Front(s)
  <2>1. s \in Seq(KindSet) /\ s # <<>> /\ Len(s) = 1
    BY DEF KindSet
  <2> HIDE DEF s
  <2>2. f \in Seq(KindSet) /\ Len(f) = 0
    BY <2>1, FrontAndLast
  <2> HIDE DEF f
  <2>3. f = <<>>
    BY <2>2
  <2> QED
    BY <2>3 DEF f, s
<1> QED
  BY <1>5, <1>6, <1>7 DEF IsJson

(***************************************************************************)
(* tools.cpp:303-352: for a catalog of any number of tools, triggers and   *)
(* parameters, render_catalog opens, closes and names only where it may,   *)
(* and closes everything: what it hands out is JSON and the whole catalog, *)
(* unless view() failed, and then it is the "[]" that stands for no tools. *)
(***************************************************************************)
THEOREM SchemaAlwaysWhole == SchemaSpec => []SchemaIsWhole
<1>1. SchemaInit => Init
  BY DEF SchemaInit
<1>2. [SchemaNext]_schemaVars => [Next]_vars
  BY DEF SchemaNext, Next, schemaVars, Return, Returned
<1>3. IInv /\ Reads /\ Leaves => SchemaIsWhole
  <2> SUFFICES ASSUME IInv, Reads, Leaves PROVE SchemaIsWhole
    OBVIOUS
  <2>1. ASSUME script \notin {<<>>, Free} PROVE MayCall(Head(script))
    <3>1. PICK u : Goes(Place, Head(script), u)
      BY <2>1, LeadsFirst DEF Leaves
    <3> QED
      BY <3>1, Allowed
  <2>2. ASSUME result # Pending
        PROVE  IsJson(Schema) /\ (Schema = mBuilder \/ result = ParseFailed)
    <3>1. Outer /\ mBuilder # <<>> /\ str = {mBuilder, ParseFailed}
      BY <2>2, AllClosed DEF Leaves
    <3>2. IsJson(mBuilder)
      BY <3>1, ReadsJson DEF WritesJson
    <3>3. mBuilder \notin {Unbalanced, ParseFailed}
      BY NoTexts DEF IInv, TypeOK
    <3>4. result \in {mBuilder, ParseFailed}
      BY <2>2 DEF Leaves
    <3> QED
      BY <3>2, <3>3, <3>4, NoToolsIsJson, Zenon DEF Schema
  <2> QED
    BY <2>1, <2>2 DEF SchemaIsWhole
<1> QED
  BY <1>1, <1>2, <1>3, IInvInit, IInvNext, ReadsInit, ReadsNext, LeavesInit, LeavesNext, PTL
     DEF SchemaSpec
===============================================================================
