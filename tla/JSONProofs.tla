----------------------------- MODULE JSONProofs -----------------------------
(***************************************************************************)
(* Theorems about JSONParse, for texts of any length and any depth: it_    *)
(* never passes end_ where end_ is set, the assertion of JSON::parse holds,*)
(* only a string that is never closed is read past the text, what a parse  *)
(* returns is made of what it read, and what was written is read back but  *)
(* for numbers that six digits do not tell.                                *)
(***************************************************************************)
EXTENDS JSONRoundTrip, NaturalFacts, SequenceTheorems

\* Characters that the parser looks for, of which it may step over one.
Symbols == {" ", "d", "-", ".", "q", "[", "]", "{", "}", ",", ":"} \cup Letters

\* it_ may be at p.
InText(p) == p \in 1 .. Len(text) + 1 /\ (end # Nowhere => p <= end)

TextOK ==
    /\ text \in Chars
    /\ end \in 1 .. Len(text) + 1 \cup {Nowhere}

-----------------------------------------------------------------------------
(* Positions.                                                              *)

LEMMA ChAtEnd == TextOK => Ch(Len(text) + 1) \in {NUL, kEOF} /\ (end # Nowhere => Ch(end) = kEOF)
  BY DEF TextOK, Ch, NUL, kEOF, Nowhere

LEMMA StepOver ==
    ASSUME TextOK, NEW p, InText(p), Ch(p) \in Symbols
    PROVE  /\ p \in 1 .. Len(text) /\ p # end /\ text[p] = Ch(p)
           /\ InText(p + 1)
  <1>1. Ch(p) \notin {NUL, kEOF, "beyond"}
    BY DEF Symbols, Letters, NUL, kEOF
  <1>2. Len(text) \in Nat /\ p \in 1 .. Len(text) + 1 /\ (end # Nowhere => p <= end)
        /\ (end # Nowhere => end \in 1 .. Len(text) + 1)
    BY DEF InText, TextOK
  <1>3. p # end
    BY <1>1 DEF Ch
  <1>4. p # Len(text) + 1
    BY <1>1, <1>2, ChAtEnd
  <1> QED
    BY <1>2, <1>3, <1>4 DEF Ch, InText, Nowhere

\* So may be read the n characters from p on, one after the other.
LEMMA StepsOver ==
    ASSUME TextOK, NEW p, InText(p), NEW n \in Nat, \A i \in 1 .. n : Ch(p + i - 1) \in Symbols
    PROVE  /\ InText(p + n)
           /\ \A i \in 1 .. n : p + i - 1 \in 1 .. Len(text) /\ text[p + i - 1] = Ch(p + i - 1)
  <1> DEFINE T == {k \in 0 .. n : ~ InText(p + k)}
  <1>1. p \in Nat
    BY DEF InText, TextOK
  <1>2. T = {}
    <2> SUFFICES ASSUME T # {} PROVE FALSE
      OBVIOUS
    <2>1. T \subseteq Nat
      OBVIOUS
    <2>2. PICK k \in T : \A j \in T : k <= j
      <3> HIDE DEF T
      <3> QED
        BY <2>1, Least
    <2>3. k \in 0 .. n /\ ~ InText(p + k)
      OBVIOUS
    <2>4. k # 0
      BY <1>1, <2>3
    <2>5. k \in 1 .. n /\ k - 1 \in 0 .. n /\ ~ (k <= k - 1)
          /\ p + (k - 1) = p + k - 1 /\ (p + k - 1) + 1 = p + k
      BY <1>1, <2>3, <2>4
    <2>6. InText(p + k - 1)
      BY <2>2, <2>5
    <2> HIDE DEF T
    <2>7. Ch(p + k - 1) \in Symbols
      BY <2>5
    <2>8. InText((p + k - 1) + 1)
      BY <2>6, <2>7, StepOver
    <2> QED
      BY <2>3, <2>5, <2>8
  <1>3. \A k \in 0 .. n : InText(p + k)
    BY <1>2
  <1> HIDE DEF T
  <1>4. ASSUME NEW i \in 1 .. n
        PROVE  p + i - 1 \in 1 .. Len(text) /\ text[p + i - 1] = Ch(p + i - 1)
    <2>1. i - 1 \in 0 .. n /\ p + (i - 1) = p + i - 1
      BY <1>1
    <2>2. InText(p + i - 1)
      BY <1>3, <2>1
    <2> QED
      BY <2>2, StepOver
  <1>5. InText(p + n)
    BY <1>3
  <1> QED
    BY <1>4, <1>5

LEMMA WordsAre ==
    ASSUME NEW w \in Words
    PROVE  /\ w \in Seq(Letters) /\ w \in Chars /\ Len(w) \in 4 .. 5 /\ DOMAIN w = 1 .. Len(w)
           /\ \A i \in 1 .. Len(w) : w[i] \in Letters
  <1>1. w \in Seq(Letters) /\ Len(w) \in 4 .. 5
    <2>1. <<"n", "u", "l", "l">> \in Seq(Letters) /\ Len(<<"n", "u", "l", "l">>) = 4
      BY DEF Letters
    <2>2. <<"t", "r", "u", "e">> \in Seq(Letters) /\ Len(<<"t", "r", "u", "e">>) = 4
      BY DEF Letters
    <2>3. <<"f", "a", "l", "s", "e">> \in Seq(Letters) /\ Len(<<"f", "a", "l", "s", "e">>) = 5
      BY DEF Letters
    <2>4. w \in Seq(Letters) /\ (Len(w) = 4 \/ Len(w) = 5)
      BY <2>1, <2>2, <2>3, Zenon DEF Words
    <2> QED
      BY <2>4
  <1>2. w \in Chars
    BY <1>1, SeqMonotonic DEF Chars, Alphabet
  <1> QED
    BY <1>1, <1>2, ElementOfSeq, LenProperties

LEMMA WordInText ==
    ASSUME TextOK, InText(Here), NEW w \in Words, NEW k \in 0 .. Len(w), Agrees(w, k)
    PROVE  /\ InText(Here + k)
           /\ \A i \in 1 .. k : Here + i - 1 \in 1 .. Len(text) /\ text[Here + i - 1] = w[i]
  <1>1. k \in Nat /\ \A i \in 1 .. k : i \in 1 .. Len(w)
    BY WordsAre
  <1>2. \A i \in 1 .. k : Ch(Here + i - 1) = w[i] /\ w[i] \in Letters
    BY <1>1, WordsAre DEF Agrees
  <1>3. \A i \in 1 .. k : Ch(Here + i - 1) \in Symbols
    BY <1>2 DEF Symbols
  <1> QED
    BY <1>1, <1>2, <1>3, StepsOver

\* Skipping ends at the first character of another kind.
LEMMA PastIs ==
    ASSUME TextOK, NEW S, NUL \notin S, kEOF \notin S, NEW p, InText(p)
    PROVE  /\ Past(S, p) \in p .. Len(text) + 1 /\ Ch(Past(S, p)) \notin S
           /\ \A r \in p .. Past(S, p) - 1 : Ch(r) \in S
  <1> DEFINE T == {q \in p .. Len(text) + 1 : Ch(q) \notin S}
  <1>1. Len(text) \in Nat /\ p \in 1 .. Len(text) + 1
    BY DEF InText, TextOK
  <1>2. T \subseteq Nat /\ Len(text) + 1 \in T
    BY <1>1, ChAtEnd
  <1>3. PICK q \in T : \A r \in T : q <= r
    <2> HIDE DEF T
    <2> QED
      BY <1>2, Least
  <1>4. q \in p .. Len(text) + 1 /\ Ch(q) \notin S /\ \A r \in p .. q - 1 : Ch(r) \in S
    BY <1>1, <1>3
  <1> QED
    BY <1>4 DEF Past

LEMMA PastInText ==
    ASSUME TextOK, NEW S, NUL \notin S, kEOF \notin S, NEW p, InText(p)
    PROVE  InText(Past(S, p)) /\ Ch(Past(S, p)) \notin S
  <1>1. Len(text) \in Nat /\ p \in 1 .. Len(text) + 1 /\ (end # Nowhere => p <= end)
        /\ (end # Nowhere => end \in 1 .. Len(text) + 1)
    BY DEF InText, TextOK
  <1>2. PICK z : z = Past(S, p)
    OBVIOUS
  <1>3. z \in p .. Len(text) + 1 /\ Ch(z) \notin S /\ \A r \in p .. z - 1 : Ch(r) \in S
    BY <1>2, PastIs
  <1>4. end # Nowhere => z <= end
    <2> SUFFICES ASSUME end # Nowhere, z > end PROVE FALSE
      BY <1>1, <1>3
    <2>1. end \in p .. z - 1
      BY <1>1, <1>3
    <2> QED
      BY <2>1, <1>3, ChAtEnd
  <1>5. InText(z) /\ Ch(z) \notin S
    BY <1>1, <1>3, <1>4 DEF InText
  <1> QED
    BY <1>2, <1>5

LEMMA SkipSpaceInText ==
    ASSUME TextOK, NEW p, InText(p)
    PROVE  InText(SkipSpace(p))
  BY PastInText DEF SkipSpace, NUL, kEOF

LEMMA NumberEndInText ==
    ASSUME TextOK, NEW p, InText(p), Ch(p) \in {"d", "-"}
    PROVE  InText(NumberEnd(p))
  <1> DEFINE s == IF Ch(p) = "-" THEN p + 1 ELSE p
             i == Past({"d"}, s)
  <1>1. InText(s)
    BY StepOver DEF Symbols
  <1>2. InText(i)
    <2> HIDE DEF s
    <2> QED
      BY <1>1, PastInText DEF NUL, kEOF
  <1> HIDE DEF i
  <1>3. Ch(i) = "." => InText(i + 1)
    BY <1>2, StepOver DEF Symbols
  <1>4. Ch(i) = "." => InText(Past({"d"}, i + 1))
    BY <1>3, PastInText DEF NUL, kEOF
  <1> QED
    BY <1>2, <1>4 DEF NumberEnd, i

\* Where a string stops, and what it means that it does not.
LEMMA StringEndInText ==
    ASSUME TextOK, NEW p, InText(p), Ch(p) = "q"
    PROVE  /\ StringEnd(p) # 0 => InText(StringEnd(p)) /\ StringEnd(p) >= p + 1
           /\ StringEnd(p) = 0 =>
                 /\ end = Nowhere
                 /\ p \in DOMAIN text /\ text[p] = "q"
                 /\ \A r \in p + 1 .. Len(text) : text[r] \notin {"q", kEOF}
  <1> DEFINE stops == {q \in p + 1 .. Len(text) + 1 : Ch(q) \in {"q", kEOF}}
  <1>1. /\ Len(text) \in Nat /\ p \in 1 .. Len(text) /\ p # end /\ text[p] = "q"
        /\ (end # Nowhere => end \in p + 1 .. Len(text) + 1)
    <2>1. p \in 1 .. Len(text) /\ p # end /\ text[p] = "q" /\ InText(p + 1)
      BY StepOver DEF Symbols
    <2> QED
      BY <2>1 DEF InText, TextOK
  <1>2. end # Nowhere => end \in stops
    BY <1>1, ChAtEnd
  <1>3. CASE stops = {}
    <2>1. StringEnd(p) = 0
      BY <1>3 DEF StringEnd
    <2>2. end = Nowhere
      BY <1>2, <1>3
    <2>3. ASSUME NEW r \in p + 1 .. Len(text) PROVE text[r] \notin {"q", kEOF}
      <3>1. Ch(r) \notin {"q", kEOF}
        BY <1>1, <1>3
      <3> QED
        BY <1>1, <2>2, <3>1 DEF Ch, Nowhere
    <2> QED
      BY <1>1, <2>1, <2>2, <2>3 DEF TextOK
  <1>4. CASE stops # {}
    <2>1. stops \subseteq Nat
      BY <1>1
    <2>2. \E x \in stops : \A y \in stops : x <= y
      <3> HIDE DEF stops
      <3> QED
        BY <1>4, <2>1, Least
    <2>3. Min(stops) \in stops /\ \A y \in stops : Min(stops) <= y
      <3> HIDE DEF stops
      <3> QED
        BY <2>2 DEF Min
    <2>4. StringEnd(p) = Min(stops)
      BY <1>4 DEF StringEnd
    <2>5. StringEnd(p) \in p + 1 .. Len(text) + 1 /\ (end # Nowhere => StringEnd(p) <= end)
      BY <1>2, <2>3, <2>4
    <2> QED
      BY <1>1, <2>5 DEF InText
  <1> QED
    BY <1>3, <1>4

LEMMA ClosedInText ==
    ASSUME TextOK, NEW p, InText(p), Ch(p) = "q", Closed(p)
    PROVE  InText(StringEnd(p) + 1)
  BY StringEndInText, StepOver DEF Closed, Symbols

-----------------------------------------------------------------------------
(* The stack.                                                              *)

\* A sequence, of whatever.
IsSeq(s) == \E F : s \in Seq(F)

LEMMA AppendAny ==
    ASSUME NEW s, IsSeq(s), NEW x
    PROVE  /\ IsSeq(Append(s, x)) /\ Len(s) \in Nat /\ Len(Append(s, x)) = Len(s) + 1
           /\ \A k \in 1 .. Len(s) : Append(s, x)[k] = s[k]
           /\ Append(s, x)[Len(s) + 1] = x
  <1>1. PICK F : s \in Seq(F)
    BY DEF IsSeq
  <1>2. s \in Seq(F \cup {x})
    BY <1>1
  <1>3. Append(s, x) \in Seq(F \cup {x})
    BY <1>2
  <1> QED
    BY <1>2, <1>3 DEF IsSeq

LEMMA FrontAny ==
    ASSUME NEW s, IsSeq(s), Len(s) > 1
    PROVE  /\ IsSeq(Front(s)) /\ Len(s) \in Nat /\ Len(Front(s)) = Len(s) - 1
           /\ \A k \in 1 .. Len(s) - 1 : Front(s)[k] = s[k]
  <1>1. PICK F : s \in Seq(F)
    BY DEF IsSeq
  <1>2. Len(s) \in Nat /\ \A k \in 1 .. Len(s) - 1 : s[k] \in F
    BY <1>1
  <1>3. /\ Front(s) \in Seq(F) /\ Len(Front(s)) = Len(s) - 1
        /\ \A k \in 1 .. Len(s) - 1 : Front(s)[k] = s[1 + k - 1]
    BY <1>2, SubSeqProperties DEF Front
  <1> QED
    BY <1>2, <1>3 DEF IsSeq

LEMMA ExceptAny ==
    ASSUME NEW s, IsSeq(s), NEW n \in 1 .. Len(s), NEW x
    PROVE  /\ IsSeq([s EXCEPT ![n] = x]) /\ Len(s) \in Nat
           /\ Len([s EXCEPT ![n] = x]) = Len(s)
           /\ \A k \in 1 .. Len(s) : k # n => [s EXCEPT ![n] = x][k] = s[k]
           /\ [s EXCEPT ![n] = x][n] = x
  <1>1. PICK F : s \in Seq(F)
    BY DEF IsSeq
  <1>2. s \in Seq(F \cup {x}) /\ x \in F \cup {x}
    BY <1>1, SeqMonotonic
  <1>3. Len(s) \in Nat
    BY <1>1
  <1> QED
    BY <1>2, <1>3, ExceptSeq DEF IsSeq

LEMMA LenNat ==
    ASSUME NEW s, IsSeq(s)
    PROVE  Len(s) \in Nat
  BY DEF IsSeq

IsFrame(f) == f = [fn |-> f.fn, vals |-> f.vals, props |-> f.props, key |-> f.key]

\* Only the outermost frame is that of JSON::parse.
Frames(st) ==
    /\ IsSeq(st) /\ Len(st) >= 1
    /\ \A k \in 1 .. Len(st) : IsFrame(st[k]) /\ (st[k].fn = "top" <=> k = 1)

\* A frame with another vector or other properties.
LEMMA FrameSet ==
    ASSUME NEW g, IsFrame(g), NEW x
    PROVE  /\ IsFrame([g EXCEPT !.vals = x]) /\ [g EXCEPT !.vals = x].fn = g.fn
           /\ [g EXCEPT !.vals = x].vals = x
           /\ IsFrame([g EXCEPT !.props = x]) /\ [g EXCEPT !.props = x].fn = g.fn
  <1>1. PICK a, b, c, d : g = [fn |-> a, vals |-> b, props |-> c, key |-> d]
    BY DEF IsFrame
  <1>2. [g EXCEPT !.vals = x] = [fn |-> a, vals |-> x, props |-> c, key |-> d]
    BY <1>1
  <1>3. [g EXCEPT !.props = x] = [fn |-> a, vals |-> b, props |-> x, key |-> d]
    BY <1>1
  <1> QED
    BY <1>1, <1>2, <1>3 DEF IsFrame

LEMMA FramesPush ==
    ASSUME NEW st, Frames(st), NEW f, IsFrame(f), f.fn # "top"
    PROVE  Frames(Append(st, f)) /\ Append(st, f)[1] = st[1] /\ Len(Append(st, f)) > 1
  BY AppendAny DEF Frames

LEMMA FramesPop ==
    ASSUME NEW st, Frames(st), Len(st) > 1
    PROVE  Frames(Front(st)) /\ Front(st)[1] = st[1]
  BY FrontAny DEF Frames

LEMMA FramesSet ==
    ASSUME NEW st, Frames(st), NEW f, IsFrame(f), f.fn = st[Len(st)].fn
    PROVE  /\ Len(st) \in Nat
           /\ Frames([st EXCEPT ![Len(st)] = f])
           /\ Len([st EXCEPT ![Len(st)] = f]) = Len(st)
           /\ Len(st) > 1 => [st EXCEPT ![Len(st)] = f][1] = st[1]
           /\ [st EXCEPT ![Len(st)] = f][Len(st)] = f
  <1>1. Len(st) \in Nat /\ Len(st) \in 1 .. Len(st)
    BY AppendAny DEF Frames
  <1> QED
    BY <1>1, ExceptAny DEF Frames

-----------------------------------------------------------------------------
(* The invariant.                                                          *)

\* What Return gives back is told apart from what failures give.
IsValue(v) == v # None /\ v # <<"error">> /\ v # <<"undefined">>

\* The vector of the outermost frame is empty until its value is in.
Collected ==
    /\ at \in {"array", "object"} => Len(stack) > 1
    /\ at = "parse" \/ Len(stack) > 1 => stack[1].vals = <<>>
    /\ at = "after" /\ Len(stack) = 1 => \E v : IsValue(v) /\ stack[1].vals = <<v>>

IInv ==
    /\ TextOK
    /\ at \in {"parse", "array", "object", "after", "done"}
    /\ pos \in 1 .. Len(text) + 2 /\ (at # "done" => InText(pos))
    /\ Frames(stack) /\ Collected
    /\ result = None <=> at # "done"

LEMMA Results ==
    \A t : IsValue(Word(t)) /\ IsValue(Num(t)) /\ IsValue(Quoted(t)) /\ IsValue(Arr(t)) /\ IsValue(Obj(t))
  BY DEF IsValue, None, Word, Num, Quoted, Arr, Obj

LEMMA BeginIInv == text \in Chars /\ Begin => IInv
  <1> SUFFICES ASSUME text \in Chars, Begin PROVE IInv
    OBVIOUS
  <1>1. TextOK /\ Len(text) \in Nat
    BY DEF Begin, TextOK
  <1>2. InText(pos) /\ pos \in 1 .. Len(text) + 2
    BY <1>1 DEF Begin, InText, TextOK
  <1>3. IsSeq(<<Frame("top")>>) /\ Len(<<Frame("top")>>) = 1
        /\ <<Frame("top")>>[1] = Frame("top")
    <2>1. <<Frame("top")>> \in Seq({Frame("top")})
      OBVIOUS
    <2> QED
      BY <2>1 DEF IsSeq
  <1>4. IsFrame(Frame("top")) /\ Frame("top").fn = "top" /\ Frame("top").vals = <<>>
    BY DEF IsFrame, Frame
  <1>5. Frames(stack) /\ Collected
    BY <1>3, <1>4 DEF Begin, Frames, Collected
  <1>6. result = None /\ at = "parse"
    BY DEF Begin
  <1> QED
    BY <1>1, <1>2, <1>5, <1>6 DEF IInv

-----------------------------------------------------------------------------
(* One lemma for each way a step ends.                                     *)

LEMMA InputStays ==
    ASSUME TextOK, UNCHANGED Input
    PROVE  /\ TextOK'
           /\ \A p : InText(p) => InText(p)'
           /\ Len(text) \in Nat
           /\ \A p : InText(p) => p \in 1 .. Len(text) + 2
  BY DEF Input, TextOK, InText

LEMMA ErrorKeeps ==
    ASSUME IInv, UNCHANGED Input, NEW p, InText(p), Error(p)
    PROVE  IInv'
  <1>1. TextOK' /\ p \in 1 .. Len(text) + 2 /\ text' = text
    BY InputStays DEF IInv, Input
  <1>2. Frames(stack)' /\ Collected'
    BY DEF IInv, Error, Frames, Collected
  <1>3. <<"error">> # None
    BY DEF None
  <1> QED
    BY <1>1, <1>2, <1>3 DEF IInv, Error

LEMMA OverrunKeeps ==
    ASSUME IInv, UNCHANGED Input, Overrun
    PROVE  IInv'
  <1>1. TextOK' /\ Len(text) \in Nat /\ text' = text
    BY InputStays DEF IInv, Input
  <1>2. Frames(stack)' /\ Collected'
    BY DEF IInv, Overrun, Frames, Collected
  <1>3. <<"undefined">> # None
    BY DEF None
  <1> QED
    BY <1>1, <1>2, <1>3 DEF IInv, Overrun

\* A step that goes on with a stack st, at label a.
LEMMA GoesOn ==
    ASSUME IInv, UNCHANGED Input, at # "done",
           NEW st, Frames(st), NEW a \in {"parse", "array", "object", "after"}, NEW p, InText(p),
           a \in {"array", "object"} => Len(st) > 1,
           a = "parse" \/ Len(st) > 1 => st[1].vals = <<>>,
           a = "after" /\ Len(st) = 1 => \E v : IsValue(v) /\ st[1].vals = <<v>>,
           stack' = st, at' = a, pos' = p, result' = result
    PROVE  IInv'
  <1>1. TextOK' /\ InText(p)' /\ p \in 1 .. Len(text) + 2 /\ text' = text
    BY InputStays DEF IInv, Input
  <1>2. Frames(stack)' /\ Collected'
    BY DEF Frames, Collected
  <1>3. result' = None
    BY DEF IInv
  <1> QED
    BY <1>1, <1>2, <1>3 DEF IInv, InText

LEMMA DeliverKeeps ==
    ASSUME IInv, UNCHANGED Input, at # "done",
           NEW st, Frames(st), st[1].vals = <<>>,
           NEW v, IsValue(v), NEW p, InText(p), Deliver(v, p, st)
    PROVE  IInv'
  <1> DEFINE f == [st[Len(st)] EXCEPT !.vals = Append(@, v)]
             new == [st EXCEPT ![Len(st)] = f]
  <1>1. Len(st) \in 1 .. Len(st) /\ Len(st) \in Nat /\ IsFrame(st[Len(st)])
    BY AppendAny DEF Frames
  <1>2. IsFrame(f) /\ f.fn = st[Len(st)].fn /\ f.vals = Append(st[Len(st)].vals, v)
    BY <1>1, FrameSet
  <1>3. stack' = new /\ at' = "after" /\ pos' = p /\ result' = result
    BY DEF Deliver
  <1>4. /\ Frames(new) /\ Len(new) = Len(st) /\ new[Len(st)] = f
        /\ Len(st) > 1 => new[1] = st[1]
    <2> HIDE DEF f
    <2> QED
      BY <1>2, FramesSet
  <1>5. Len(new) = 1 => new[1].vals = <<v>>
    <2>1. Append(<<>>, v) = <<v>>
      OBVIOUS
    <2> HIDE DEF f, new
    <2> QED
      BY <1>2, <1>4, <2>1
  <1> HIDE DEF new
  <1> QED
    BY <1>3, <1>4, <1>5, GoesOn

LEMMA CloseKeeps ==
    ASSUME IInv, UNCHANGED Input, at # "done", Len(stack) > 1,
           NEW v, IsValue(v), NEW p, InText(p), Ch(p) \in Symbols, Close(v, p)
    PROVE  IInv'
  <1>1. Frames(Front(stack)) /\ Front(stack)[1].vals = <<>>
    BY FramesPop DEF IInv, Collected
  <1>2. InText(p + 1)
    BY StepOver DEF IInv
  <1> QED
    BY <1>1, <1>2, DeliverKeeps DEF Close

LEMMA EnterKeeps ==
    ASSUME IInv, UNCHANGED Input, at = "parse",
           NEW fn \in {"array", "object"}, NEW p, InText(p), Ch(p) \in Symbols, Enter(fn, p)
    PROVE  IInv'
  <1> DEFINE st == Append(stack, Frame(fn))
  <1>1. IsFrame(Frame(fn)) /\ Frame(fn).fn # "top"
    BY DEF IsFrame, Frame
  <1>2. Frames(st) /\ st[1] = stack[1] /\ Len(st) > 1
    BY <1>1, FramesPush DEF IInv
  <1>3. st[1].vals = <<>>
    BY <1>2 DEF IInv, Collected
  <1>4. InText(p + 1)
    BY StepOver DEF IInv
  <1>5. stack' = st /\ at' = fn /\ pos' = p + 1 /\ result' = result
    BY DEF Enter
  <1> HIDE DEF st
  <1> QED
    BY <1>2, <1>3, <1>4, <1>5, GoesOn

\* Back to parse() or to the loop of a call that is under way.
LEMMA GotoKeeps ==
    ASSUME IInv, UNCHANGED Input, at # "done", Len(stack) > 1,
           NEW a \in {"parse", "array", "object", "after"}, NEW p, InText(p), Goto(a, p)
    PROVE  IInv'
  <1>1. Frames(stack) /\ stack[1].vals = <<>>
    BY DEF IInv, Collected
  <1> QED
    BY <1>1, GoesOn DEF Goto

\* The innermost call changes its own frame, and goes on.
LEMMA SetKeeps ==
    ASSUME IInv, UNCHANGED Input, at # "done", Len(stack) > 1,
           NEW f, IsFrame(f), f.fn = Top.fn, stack' = [stack EXCEPT ![Len(stack)] = f],
           NEW a \in {"parse", "array", "object", "after"}, NEW p, InText(p),
           at' = a, pos' = p, result' = result
    PROVE  IInv'
  <1> DEFINE st == [stack EXCEPT ![Len(stack)] = f]
  <1>1. Frames(st) /\ Len(st) = Len(stack) /\ st[1] = stack[1]
    BY FramesSet, ZenonT(30) DEF IInv, Top
  <1>2. st[1].vals = <<>>
    BY <1>1 DEF IInv, Collected
  <1>3. stack' = st
    OBVIOUS
  <1>4. ~ (Len(st) = 1)
    BY <1>1
  <1> HIDE DEF st
  <1>5. Len(st) > 1
    BY <1>1
  <1> QED
    BY <1>1, <1>2, <1>3, <1>4, <1>5, GoesOn

LEMMA ColonKeeps ==
    ASSUME IInv, UNCHANGED Input, at # "done", Len(stack) > 1,
           NEW t, NEW p, InText(p), ObjectColon(t, p)
    PROVE  IInv'
  <1> DEFINE c == SkipSpace(p)
             f == [fn |-> Top.fn, vals |-> <<>>, props |-> Top.props, key |-> t]
  <1>1. InText(c)
    BY SkipSpaceInText DEF IInv
  <1>2. CASE Ch(c) = ":"
    <2>1. InText(c + 1)
      BY <1>1, <1>2, StepOver DEF IInv, Symbols
    <2>2. IsFrame(f) /\ f.fn = Top.fn
      BY DEF IsFrame
    <2>3. /\ stack' = [stack EXCEPT ![Len(stack)] = f]
          /\ at' = "parse" /\ pos' = c + 1 /\ result' = result
      BY <1>2 DEF ObjectColon
    <2> HIDE DEF c, f
    <2> QED
      BY <2>1, <2>2, <2>3, SetKeeps
  <1>3. CASE Ch(c) # ":"
    <2>1. Error(c)
      BY <1>3 DEF ObjectColon
    <2> HIDE DEF c
    <2> QED
      BY <1>1, <2>1, ErrorKeeps
  <1> QED
    BY <1>2, <1>3

LEMMA UnclosedKeeps ==
    ASSUME IInv, UNCHANGED Input, NEW p, InText(p), Ch(p) = "q", Unclosed(p)
    PROVE  IInv'
  <1>1. CASE StringEnd(p) = 0 /\ Overrun
    BY <1>1, OverrunKeeps
  <1>2. CASE StringEnd(p) # 0 /\ Error(StringEnd(p))
    BY <1>2, StringEndInText, ErrorKeeps DEF IInv
  <1> QED
    BY <1>1, <1>2 DEF Unclosed

-----------------------------------------------------------------------------
(* Every step keeps the invariant.                                         *)

LEMMA HereInText ==
    ASSUME IInv, at # "done"
    PROVE  InText(Here) /\ InText(pos)
  BY SkipSpaceInText DEF IInv, Here

LEMMA ParseKeeps ==
    ASSUME IInv, UNCHANGED Input, at = "parse",
           ParseWord \/ ParseNumber \/ ParseString \/ EnterArray \/ EnterObject
               \/ ParseComma \/ ParseOther
    PROVE  IInv'
  <1>1. InText(Here) /\ Frames(stack) /\ stack[1].vals = <<>> /\ TextOK /\ at # "done"
    BY HereInText DEF IInv, Collected
  <1>2. ASSUME ParseWord PROVE IInv'
    <2>1. ASSUME NEW w \in Words, Agrees(w, Len(w)), Deliver(Word(w), Here + Len(w), stack)
          PROVE  IInv'
      <3>1. Len(w) \in 0 .. Len(w)
        BY WordsAre
      <3>2. InText(Here + Len(w))
        BY <1>1, <2>1, <3>1, WordInText
      <3> QED
        BY <1>1, <2>1, <3>2, Results, DeliverKeeps
    <2>2. ASSUME NEW w \in Words, NEW k \in DOMAIN w, Agrees(w, k - 1), Error(Here + k - 1)
          PROVE  IInv'
      <3>1. k - 1 \in 0 .. Len(w) /\ Here + (k - 1) = Here + k - 1
        <4>1. Here \in Nat /\ Len(w) \in Nat /\ k \in 1 .. Len(w)
          BY <1>1, WordsAre DEF InText, TextOK
        <4> QED
          BY <4>1
      <3>2. InText(Here + k - 1)
        BY <1>1, <2>2, <3>1, WordInText
      <3> QED
        BY <1>1, <2>2, <3>2, ErrorKeeps
    <2> QED
      BY <1>2, <2>1, <2>2 DEF ParseWord
  <1>3. ASSUME ParseNumber PROVE IInv'
    <2>1. InText(NumberEnd(Here))
      BY <1>1, <1>3, NumberEndInText DEF ParseNumber
    <2> QED
      BY <1>1, <1>3, <2>1, Results, DeliverKeeps DEF ParseNumber
  <1>4. ASSUME ParseString PROVE IInv'
    <2>1. ASSUME Closed(Here), Deliver(Quoted(StringText(Here)), StringEnd(Here) + 1, stack)
          PROVE  IInv'
      BY <1>1, <1>4, <2>1, ClosedInText, Results, DeliverKeeps DEF ParseString
    <2>2. ASSUME Unclosed(Here) PROVE IInv'
      BY <1>1, <1>4, <2>2, UnclosedKeeps DEF ParseString
    <2> QED
      BY <1>4, <2>1, <2>2 DEF ParseString
  <1>5. ASSUME EnterArray \/ EnterObject PROVE IInv'
    BY <1>1, <1>5, EnterKeeps DEF EnterArray, EnterObject, Symbols
  <1>6. ASSUME ParseComma PROVE IInv'
    <2>1. CASE Depth = 0
      BY <1>1, <1>6, <2>1, ErrorKeeps DEF ParseComma
    <2>2. CASE Depth # 0
      <3>1. Len(stack) \in Nat /\ Len(stack) >= 1
        BY <1>1, LenNat DEF Frames
      <3>2. Len(stack) > 1
        BY <2>2, <3>1 DEF Depth
      <3>3. InText(Here + 1)
        BY <1>1, <1>6, StepOver DEF ParseComma, Symbols
      <3> QED
        BY <1>1, <1>6, <2>2, <3>2, <3>3, GotoKeeps DEF ParseComma
    <2> QED
      BY <2>1, <2>2
  <1>7. ASSUME ParseOther PROVE IInv'
    BY <1>1, <1>7, ErrorKeeps DEF ParseOther
  <1> QED
    BY <1>2, <1>3, <1>4, <1>5, <1>6, <1>7

LEMMA InACall ==
    ASSUME IInv, Top.fn # "top"
    PROVE  Len(stack) > 1
  BY LenNat DEF IInv, Frames, Top

LEMMA InNoCall ==
    ASSUME IInv, Top.fn = "top"
    PROVE  Len(stack) = 1
  <1>1. /\ IsSeq(stack) /\ Len(stack) >= 1
        /\ \A k \in 1 .. Len(stack) : stack[k].fn = "top" <=> k = 1
    BY DEF IInv, Frames
  <1>2. Len(stack) \in 1 .. Len(stack)
    BY <1>1, LenNat
  <1> QED
    BY <1>1, <1>2 DEF Top

LEMMA ArrayKeeps ==
    ASSUME IInv, UNCHANGED Input, ArrayItems \/ ArrayAfter
    PROVE  IInv'
  <1>1. at # "done" /\ Len(stack) > 1
    BY InACall DEF ArrayItems, ArrayAfter, IInv, Collected
  <1>2. InText(Here) /\ InText(pos) /\ TextOK
    BY <1>1, HereInText DEF IInv
  <1>3. ASSUME NEW p, InText(p), Ch(p) = "]", Close(Arr(Top.vals), p) PROVE IInv'
    BY <1>1, <1>3, Results, CloseKeeps DEF Symbols
  <1>4. ASSUME ArrayItems PROVE IInv'
    BY <1>1, <1>2, <1>3, <1>4, GotoKeeps DEF ArrayItems
  <1>5. ASSUME Ch(Here) = ",", Goto("array", Here + 1) PROVE IInv'
    <2>1. InText(Here + 1)
      BY <1>2, <1>5, StepOver DEF Symbols
    <2> QED
      BY <1>1, <1>5, <2>1, GotoKeeps
  <1>6. ASSUME ArrayAfter PROVE IInv'
    BY <1>2, <1>3, <1>5, <1>6, ErrorKeeps DEF ArrayAfter
  <1> QED
    BY <1>4, <1>6

LEMMA ObjectKeeps ==
    ASSUME IInv, UNCHANGED Input, ObjectProps \/ ObjectAfter
    PROVE  IInv'
  <1>1. at # "done" /\ Len(stack) > 1
    BY InACall DEF ObjectProps, ObjectAfter, IInv, Collected
  <1>2. InText(Here) /\ InText(pos) /\ TextOK
    BY <1>1, HereInText DEF IInv
  <1>3. ASSUME NEW ps, Ch(Here) = "}", Close(Obj(ps), Here) PROVE IInv'
    BY <1>1, <1>2, <1>3, Results, CloseKeeps DEF Symbols
  <1>4. ASSUME ObjectProps PROVE IInv'
    <2>1. ASSUME Ch(Here) = "q", Closed(Here),
                 ObjectColon(StringText(Here), StringEnd(Here) + 1)
          PROVE  IInv'
      BY <1>1, <1>2, <2>1, ClosedInText, ColonKeeps
    <2>2. ASSUME Ch(Here) = "q", Unclosed(Here) PROVE IInv'
      BY <1>2, <2>2, UnclosedKeeps
    <2> QED
      BY <1>2, <1>3, <1>4, <2>1, <2>2, ErrorKeeps DEF ObjectProps
  <1>5. ASSUME NEW ps, Ch(Here) = ",", stack' = [stack EXCEPT ![Len(stack)].props = ps],
               at' = "object", pos' = Here + 1, UNCHANGED result
        PROVE  IInv'
    <2> DEFINE f == [Top EXCEPT !.props = ps]
    <2>1. InText(Here + 1)
      BY <1>2, <1>5, StepOver DEF Symbols
    <2>2. IsFrame(Top)
      BY LenNat DEF IInv, Frames, Top
    <2>3. IsFrame(f) /\ f.fn = Top.fn
      BY <2>2, FrameSet
    <2>4. stack' = [stack EXCEPT ![Len(stack)] = f]
      BY <1>5 DEF Top
    <2> HIDE DEF f
    <2> QED
      BY <1>1, <1>5, <2>1, <2>3, <2>4, SetKeeps
  <1>6. ASSUME ObjectAfter PROVE IInv'
    BY <1>2, <1>3, <1>5, <1>6, ErrorKeeps DEF ObjectAfter
  <1> QED
    BY <1>4, <1>6

LEMMA ReturnKeeps ==
    ASSUME IInv, UNCHANGED Input, Return
    PROVE  IInv'
  <1>1. Len(stack) = 1
    BY InNoCall DEF Return
  <1>2. PICK v : IsValue(v) /\ stack[1].vals = <<v>>
    BY <1>1 DEF IInv, Collected, Return
  <1>3. result' = v /\ at' = "done" /\ pos' = pos /\ stack' = stack
    BY <1>1, <1>2 DEF Return, Top
  <1>4. Frames(stack)' /\ Collected'
    BY <1>3 DEF IInv, Frames, Collected
  <1>5. TextOK' /\ text' = text
    BY InputStays DEF IInv, Input
  <1> QED
    BY <1>2, <1>3, <1>4, <1>5 DEF IInv, IsValue

LEMMA StepIInv == IInv /\ [Next]_vars => IInv'
  <1> SUFFICES ASSUME IInv, [Next]_vars PROVE IInv'
    OBVIOUS
  <1>1. CASE UNCHANGED vars
    BY <1>1 DEF vars, IInv, TextOK, InText, Frames, Collected
  <1>2. CASE Next
    <2>1. UNCHANGED Input
      BY <1>2 DEF Next
    <2>2. ASSUME ParseWord \/ ParseNumber \/ ParseString \/ EnterArray \/ EnterObject
                     \/ ParseComma \/ ParseOther
          PROVE  IInv'
      <3>1. at = "parse"
        BY <2>2 DEF ParseWord, ParseNumber, ParseString, EnterArray, EnterObject,
                    ParseComma, ParseOther
      <3> QED
        BY <2>1, <2>2, <3>1, ParseKeeps
    <2> QED
      BY <1>2, <2>1, <2>2, ArrayKeeps, ObjectKeeps, ReturnKeeps DEF Next
  <1> QED
    BY <1>1, <1>2

LEMMA Invariant == Spec => []IInv
  <1>1. Init => IInv
    BY TextsAssumption, BeginIInv DEF Init
  <1> QED
    BY <1>1, StepIInv, PTL DEF Spec

-----------------------------------------------------------------------------
(* Texts put together and what is left of them: Join and Essence.          *)

Sep(k) == IF k = 1 THEN <<>> ELSE <<",">>

LEMMA CharsAre ==
    ASSUME NEW t \in Chars
    PROVE  /\ t \in Seq(Alphabet) /\ Len(t) \in Nat /\ DOMAIN t = 1 .. Len(t)
           /\ \A k \in 1 .. Len(t) : t[k] \in Alphabet
  <1>1. t \in Seq(Alphabet)
    BY DEF Chars
  <1> QED
    BY <1>1, LenProperties, ElementOfSeq

LEMMA OneChar ==
    ASSUME NEW c \in Alphabet
    PROVE  <<c>> \in Chars /\ Len(<<c>>) = 1 /\ <<c>>[1] = c
  <1>1. <<c>> \in Seq(Alphabet)
    OBVIOUS
  <1> QED
    BY <1>1 DEF Chars

LEMMA NoChars == <<>> \in Chars /\ Len(<<>>) = 0
  BY DEF Chars

LEMMA SepChars == \A k : Sep(k) \in Chars
  <1>1. "," \in Alphabet
    BY DEF Alphabet
  <1> QED
    BY <1>1, OneChar, NoChars DEF Sep

\* J[k] is the writing of the items before the k-th.
Joining(J, ss) ==
    /\ J \in [1 .. Len(ss) + 1 -> Chars]
    /\ J[1] = <<>>
    /\ \A k \in 1 .. Len(ss) : J[k + 1] = J[k] \o Sep(k) \o ss[k]

LEMMA JoinIs ==
    ASSUME NEW ss \in Seq(Chars)
    PROVE  \E J : Joining(J, ss) /\ Join(ss) = J[Len(ss) + 1]
  <1> DEFINE n == Len(ss)
             step == [k \in 1 .. n |-> [t \in Chars |-> t \o Sep(k) \o ss[k]]]
             Is(h) == h = [k \in 1 .. n + 1 |->
                             IF k = 1 THEN <<>>
                             ELSE h[k - 1] \o (IF k = 2 THEN <<>> ELSE <<",">>) \o ss[k - 1]]
             J == CHOOSE h : Is(h)
  <1>1. n \in Nat /\ \A k \in 1 .. n : ss[k] \in Chars
    BY ElementOfSeq, LenProperties
  <1>2. <<>> \in Chars /\ \A k : Sep(k) \in Chars
    BY NoChars, SepChars
  <1>3. step \in SteppingTo(n, Chars)
    <2>1. \A k \in 1 .. n : \A t \in Chars : t \o Sep(k) \o ss[k] \in Chars
      BY <1>1, <1>2, ConcatProperties DEF Chars
    <2> HIDE DEF n
    <2> QED
      BY <2>1 DEF SteppingTo
  <1>4. \A k \in 1 .. n : \A t \in Chars : step[k][t] = t \o Sep(k) \o ss[k]
    OBVIOUS
  <1>5. Join(ss) = J[n + 1]
    BY DEF Join
  <1> HIDE DEF step, n, J
  <1>6. PICK f : IteratedTo(f, n, <<>>, step, Chars)
    BY <1>1, <1>2, <1>3, IteratesTo
  <1>7. Is(f)
    <2> DEFINE r == [k \in 1 .. n + 1 |->
                             IF k = 1 THEN <<>>
                             ELSE f[k - 1] \o (IF k = 2 THEN <<>> ELSE <<",">>) \o ss[k - 1]]
    <2>1. ASSUME NEW k \in 1 .. n + 1 PROVE f[k] = r[k]
      <3>1. CASE k = 1
        BY <1>6, <3>1 DEF IteratedTo
      <3>2. CASE k # 1
        <4>1. k - 1 \in 1 .. n /\ k - 1 \in 1 .. n + 1 /\ (k - 1) + 1 = k /\ (k - 1 = 1 <=> k = 2)
          BY <1>1, <3>2
        <4>2. f[k] = step[k - 1][f[k - 1]] /\ f[k - 1] \in Chars
          BY <1>6, <4>1 DEF IteratedTo
        <4>3. f[k] = f[k - 1] \o Sep(k - 1) \o ss[k - 1]
          BY <1>4, <4>1, <4>2
        <4>4. Sep(k - 1) = IF k = 2 THEN <<>> ELSE <<",">>
          BY <4>1 DEF Sep
        <4> QED
          BY <3>2, <4>3, <4>4
      <3> QED
        BY <3>1, <3>2
    <2>2. f = [k \in 1 .. n + 1 |-> f[k]] /\ r = [k \in 1 .. n + 1 |-> r[k]]
      BY <1>6 DEF IteratedTo
    <2> HIDE DEF r
    <2>3. f = r
      BY <2>1, <2>2
    <2> QED
      BY <2>3 DEF r
  <1>8. Is(J)
    <2> HIDE DEF Is
    <2> QED
      BY <1>7 DEF J
  <1> DEFINE e == [k \in 1 .. n + 1 |->
                             IF k = 1 THEN <<>>
                             ELSE J[k - 1] \o (IF k = 2 THEN <<>> ELSE <<",">>) \o ss[k - 1]]
  <1>9. J = e
    BY <1>8
  <1>10. DOMAIN e = 1 .. n + 1
         /\ \A k \in 1 .. n + 1 : e[k] = IF k = 1 THEN <<>>
                             ELSE J[k - 1] \o (IF k = 2 THEN <<>> ELSE <<",">>) \o ss[k - 1]
    OBVIOUS
  <1> HIDE DEF e, Is
  <1>11. J[1] = <<>>
    <2>1. 1 \in 1 .. n + 1
      BY <1>1
    <2> QED
      BY <1>9, <1>10, <2>1
  <1>12. ASSUME NEW k \in 1 .. n PROVE J[k + 1] = J[k] \o Sep(k) \o ss[k]
    <2>1. k + 1 \in 1 .. n + 1 /\ k + 1 # 1 /\ (k + 1) - 1 = k /\ (k + 1 = 2 <=> k = 1)
      BY <1>1
    <2> QED
      BY <1>9, <1>10, <2>1 DEF Sep
  <1>13. \A k \in 1 .. n + 1 : J[k] \in Chars
    <2> DEFINE T == {k \in 1 .. n + 1 : J[k] \notin Chars}
    <2> SUFFICES ASSUME T # {} PROVE FALSE
      OBVIOUS
    <2>1. T \subseteq Nat
      OBVIOUS
    <2>2. PICK k \in T : \A j \in T : k <= j
      <3> HIDE DEF T
      <3> QED
        BY <2>1, Least
    <2>3. k \in 1 .. n + 1 /\ J[k] \notin Chars
      OBVIOUS
    <2>4. k # 1
      BY <2>3, <1>11, <1>2
    <2>5. k - 1 \in 1 .. n /\ k - 1 \in 1 .. n + 1 /\ (k - 1) + 1 = k /\ ~ (k <= k - 1)
      BY <1>1, <2>3, <2>4
    <2>6. J[k - 1] \in Chars
      BY <2>2, <2>5
    <2> HIDE DEF T
    <2>7. J[k] = J[k - 1] \o Sep(k - 1) \o ss[k - 1]
      BY <1>12, <2>5
    <2>8. J[k] \in Chars
      BY <1>1, <1>2, <2>5, <2>6, <2>7, ConcatProperties DEF Chars
    <2> QED
      BY <2>3, <2>8
  <1>14. J \in [1 .. n + 1 -> Chars]
    <2>1. J = [k \in 1 .. n + 1 |-> J[k]]
      BY <1>8 DEF Is
    <2> QED
      BY <1>13, <2>1
  <1>15. Joining(J, ss)
    BY <1>11, <1>12, <1>14 DEF Joining, n
  <1> QED
    BY <1>5, <1>15 DEF n

\* Lists with the same items to begin with have the same writing so far.
LEMMA JoiningSame ==
    ASSUME NEW ss \in Seq(Chars), NEW tt \in Seq(Chars), NEW m \in Nat, m <= Len(ss), m <= Len(tt),
           \A k \in 1 .. m : ss[k] = tt[k],
           NEW J, Joining(J, ss), NEW K, Joining(K, tt)
    PROVE  \A k \in 1 .. m + 1 : J[k] = K[k]
  <1> DEFINE T == {k \in 1 .. m + 1 : J[k] # K[k]}
  <1> SUFFICES ASSUME T # {} PROVE FALSE
    OBVIOUS
  <1>1. T \subseteq Nat
    OBVIOUS
  <1>2. PICK k \in T : \A j \in T : k <= j
    <2> HIDE DEF T
    <2> QED
      BY <1>1, Least
  <1>3. k \in 1 .. m + 1 /\ J[k] # K[k]
    OBVIOUS
  <1>4. k # 1
    BY <1>3 DEF Joining
  <1>5. k - 1 \in 1 .. m /\ k - 1 \in 1 .. m + 1 /\ (k - 1) + 1 = k /\ ~ (k <= k - 1)
    BY <1>3, <1>4
  <1>6. J[k - 1] = K[k - 1]
    BY <1>2, <1>5
  <1> HIDE DEF T
  <1>7. Len(ss) \in Nat /\ Len(tt) \in Nat
    BY LenProperties
  <1>8. k - 1 \in 1 .. Len(ss) /\ k - 1 \in 1 .. Len(tt)
    BY <1>5, <1>7
  <1>9. J[k] = J[k - 1] \o Sep(k - 1) \o ss[k - 1] /\ K[k] = K[k - 1] \o Sep(k - 1) \o tt[k - 1]
    BY <1>5, <1>8 DEF Joining
  <1> QED
    BY <1>3, <1>5, <1>6, <1>9

LEMMA JoinEmpty == Join(<<>>) = <<>>
  <1>1. <<>> \in Seq(Chars) /\ Len(<<>>) = 0
    OBVIOUS
  <1>2. PICK J : Joining(J, <<>>) /\ Join(<<>>) = J[0 + 1]
    BY <1>1, JoinIs
  <1> QED
    BY <1>2 DEF Joining

LEMMA JoinAppend ==
    ASSUME NEW ss \in Seq(Chars), NEW t \in Chars
    PROVE  /\ Join(ss) \in Chars
           /\ Join(Append(ss, t)) = Join(ss) \o Sep(Len(ss) + 1) \o t
  <1> DEFINE n == Len(ss)
  <1>1. /\ Append(ss, t) \in Seq(Chars) /\ Len(Append(ss, t)) = n + 1 /\ n \in Nat
        /\ \A k \in 1 .. n : Append(ss, t)[k] = ss[k]
        /\ Append(ss, t)[n + 1] = t
    BY AppendProperties, LenProperties
  <1>2. PICK J : Joining(J, ss) /\ Join(ss) = J[n + 1]
    BY JoinIs
  <1>3. PICK K : Joining(K, Append(ss, t)) /\ Join(Append(ss, t)) = K[(n + 1) + 1]
    BY <1>1, JoinIs
  <1> HIDE DEF n
  <1>4. n = Len(ss)
    BY DEF n
  <1>5. n <= Len(ss) /\ n <= Len(Append(ss, t)) /\ n + 1 \in 1 .. n + 1
    BY <1>1, <1>4
  <1>6. \A k \in 1 .. n + 1 : J[k] = K[k]
    <2> DEFINE u == Append(ss, t)
    <2>1. u \in Seq(Chars) /\ n <= Len(u) /\ Joining(K, u) /\ \A k \in 1 .. n : ss[k] = u[k]
      BY <1>1, <1>3, <1>5
    <2> HIDE DEF u
    <2> QED
      BY <1>1, <1>2, <1>5, <2>1, JoiningSame
  <1>7. K[(n + 1) + 1] = K[n + 1] \o Sep(n + 1) \o t
    BY <1>1, <1>3, <1>5 DEF Joining
  <1>8. J[n + 1] \in Chars
    BY <1>2, <1>4, <1>5 DEF Joining
  <1> QED
    BY <1>2, <1>3, <1>4, <1>5, <1>6, <1>7, <1>8

\* E[k] is the essence of the characters before the k-th.
Gathering(E, t) ==
    /\ E \in [1 .. Len(t) + 1 -> Chars]
    /\ E[1] = <<>>
    /\ \A k \in 1 .. Len(t) : E[k + 1] = IF t[k] \in {" ", ","} THEN E[k] ELSE Append(E[k], t[k])

LEMMA EssenceIs ==
    ASSUME NEW t \in Chars
    PROVE  \E E : Gathering(E, t) /\ Essence(t) = E[Len(t) + 1]
  <1> DEFINE n == Len(t)
             step == [k \in 1 .. n |-> [s \in Chars |->
                        IF t[k] \in {" ", ","} THEN s ELSE Append(s, t[k])]]
             Is(h) == h = [k \in 1 .. n + 1 |->
                             IF k = 1 THEN <<>>
                             ELSE IF t[k - 1] \in {" ", ","} THEN h[k - 1]
                                  ELSE Append(h[k - 1], t[k - 1])]
             E == CHOOSE h : Is(h)
  <1>1. n \in Nat /\ \A k \in 1 .. n : t[k] \in Alphabet
    BY ElementOfSeq, LenProperties DEF Chars
  <1>2. <<>> \in Chars
    BY DEF Chars
  <1>3. step \in SteppingTo(n, Chars)
    <2>1. \A k \in 1 .. n : \A s \in Chars : Append(s, t[k]) \in Chars
      BY <1>1, AppendProperties DEF Chars
    <2> HIDE DEF n
    <2> QED
      BY <2>1 DEF SteppingTo
  <1>4. \A k \in 1 .. n : \A s \in Chars :
            step[k][s] = IF t[k] \in {" ", ","} THEN s ELSE Append(s, t[k])
    OBVIOUS
  <1>5. Essence(t) = E[n + 1]
    BY DEF Essence
  <1> HIDE DEF step, n, E
  <1>6. PICK f : IteratedTo(f, n, <<>>, step, Chars)
    BY <1>1, <1>2, <1>3, IteratesTo
  <1>7. Is(f)
    <2> DEFINE r == [k \in 1 .. n + 1 |->
                             IF k = 1 THEN <<>>
                             ELSE IF t[k - 1] \in {" ", ","} THEN f[k - 1]
                                  ELSE Append(f[k - 1], t[k - 1])]
    <2>1. ASSUME NEW k \in 1 .. n + 1 PROVE f[k] = r[k]
      <3>1. CASE k = 1
        BY <1>6, <3>1 DEF IteratedTo
      <3>2. CASE k # 1
        <4>1. k - 1 \in 1 .. n /\ k - 1 \in 1 .. n + 1 /\ (k - 1) + 1 = k
          BY <1>1, <3>2
        <4>2. f[k] = step[k - 1][f[k - 1]] /\ f[k - 1] \in Chars
          BY <1>6, <4>1 DEF IteratedTo
        <4>3. f[k] = IF t[k - 1] \in {" ", ","} THEN f[k - 1] ELSE Append(f[k - 1], t[k - 1])
          BY <1>4, <4>1, <4>2
        <4> QED
          BY <3>2, <4>3
      <3> QED
        BY <3>1, <3>2
    <2>2. f = [k \in 1 .. n + 1 |-> f[k]] /\ r = [k \in 1 .. n + 1 |-> r[k]]
      BY <1>6 DEF IteratedTo
    <2> HIDE DEF r
    <2>3. f = r
      BY <2>1, <2>2
    <2> QED
      BY <2>3 DEF r
  <1>8. Is(E)
    <2> HIDE DEF Is
    <2> QED
      BY <1>7 DEF E
  <1> DEFINE e == [k \in 1 .. n + 1 |->
                             IF k = 1 THEN <<>>
                             ELSE IF t[k - 1] \in {" ", ","} THEN E[k - 1]
                                  ELSE Append(E[k - 1], t[k - 1])]
  <1>9. E = e
    BY <1>8
  <1>10. DOMAIN e = 1 .. n + 1
         /\ \A k \in 1 .. n + 1 : e[k] = IF k = 1 THEN <<>>
                             ELSE IF t[k - 1] \in {" ", ","} THEN E[k - 1]
                                  ELSE Append(E[k - 1], t[k - 1])
    OBVIOUS
  <1> HIDE DEF e, Is
  <1>11. E[1] = <<>>
    <2>1. 1 \in 1 .. n + 1
      BY <1>1
    <2> QED
      BY <1>9, <1>10, <2>1
  <1>12. ASSUME NEW k \in 1 .. n
         PROVE  E[k + 1] = IF t[k] \in {" ", ","} THEN E[k] ELSE Append(E[k], t[k])
    <2>1. k + 1 \in 1 .. n + 1 /\ k + 1 # 1 /\ (k + 1) - 1 = k
      BY <1>1
    <2> QED
      BY <1>9, <1>10, <2>1
  <1>13. \A k \in 1 .. n + 1 : E[k] \in Chars
    <2> DEFINE T == {k \in 1 .. n + 1 : E[k] \notin Chars}
    <2> SUFFICES ASSUME T # {} PROVE FALSE
      OBVIOUS
    <2>1. T \subseteq Nat
      OBVIOUS
    <2>2. PICK k \in T : \A j \in T : k <= j
      <3> HIDE DEF T
      <3> QED
        BY <2>1, Least
    <2>3. k \in 1 .. n + 1 /\ E[k] \notin Chars
      OBVIOUS
    <2>4. k # 1
      BY <2>3, <1>11, <1>2
    <2>5. k - 1 \in 1 .. n /\ k - 1 \in 1 .. n + 1 /\ (k - 1) + 1 = k /\ ~ (k <= k - 1)
      BY <1>1, <2>3, <2>4
    <2>6. E[k - 1] \in Chars
      BY <2>2, <2>5
    <2> HIDE DEF T
    <2>7. E[k] = E[k - 1] \/ E[k] = Append(E[k - 1], t[k - 1])
      BY <1>12, <2>5
    <2>8. E[k] \in Chars
      <3>1. E[k - 1] \in Seq(Alphabet) /\ t[k - 1] \in Alphabet
        BY <1>1, <2>5, <2>6 DEF Chars
      <3>2. Append(E[k - 1], t[k - 1]) \in Seq(Alphabet)
        BY ONLY <3>1, AppendProperties
      <3> QED
        BY <2>6, <2>7, <3>2 DEF Chars
    <2> QED
      BY <2>3, <2>8
  <1>14. E \in [1 .. n + 1 -> Chars]
    <2>1. E = [k \in 1 .. n + 1 |-> E[k]]
      BY <1>8 DEF Is
    <2> QED
      BY <1>13, <2>1
  <1>15. Gathering(E, t)
    BY <1>11, <1>12, <1>14 DEF Gathering, n
  <1> QED
    BY <1>5, <1>15 DEF n

LEMMA GatheringSame ==
    ASSUME NEW s \in Chars, NEW t \in Chars, NEW m \in Nat, m <= Len(s), m <= Len(t),
           \A k \in 1 .. m : s[k] = t[k],
           NEW E, Gathering(E, s), NEW F, Gathering(F, t)
    PROVE  \A k \in 1 .. m + 1 : E[k] = F[k]
  <1> DEFINE T == {k \in 1 .. m + 1 : E[k] # F[k]}
  <1> SUFFICES ASSUME T # {} PROVE FALSE
    OBVIOUS
  <1>1. T \subseteq Nat
    OBVIOUS
  <1>2. PICK k \in T : \A j \in T : k <= j
    <2> HIDE DEF T
    <2> QED
      BY <1>1, Least
  <1>3. k \in 1 .. m + 1 /\ E[k] # F[k]
    OBVIOUS
  <1>4. k # 1
    BY <1>3 DEF Gathering
  <1>5. k - 1 \in 1 .. m /\ k - 1 \in 1 .. m + 1 /\ (k - 1) + 1 = k /\ ~ (k <= k - 1)
    BY <1>3, <1>4
  <1>6. E[k - 1] = F[k - 1]
    BY <1>2, <1>5
  <1> HIDE DEF T
  <1>7. Len(s) \in Nat /\ Len(t) \in Nat
    BY LenProperties DEF Chars
  <1>8. k - 1 \in 1 .. Len(s) /\ k - 1 \in 1 .. Len(t)
    BY <1>5, <1>7
  <1>9. /\ E[k] = IF s[k - 1] \in {" ", ","} THEN E[k - 1] ELSE Append(E[k - 1], s[k - 1])
        /\ F[k] = IF t[k - 1] \in {" ", ","} THEN F[k - 1] ELSE Append(F[k - 1], t[k - 1])
    BY <1>5, <1>8 DEF Gathering
  <1> QED
    BY <1>3, <1>5, <1>6, <1>9

LEMMA EssenceEmpty == Essence(<<>>) = <<>>
  <1>1. <<>> \in Chars /\ Len(<<>>) = 0
    BY DEF Chars
  <1>2. PICK E : Gathering(E, <<>>) /\ Essence(<<>>) = E[0 + 1]
    BY <1>1, EssenceIs
  <1> QED
    BY <1>2 DEF Gathering

LEMMA EssenceAppend ==
    ASSUME NEW t \in Chars, NEW c \in Alphabet
    PROVE  /\ Essence(t) \in Chars
           /\ Essence(Append(t, c)) =
                 IF c \in {" ", ","} THEN Essence(t) ELSE Append(Essence(t), c)
  <1> DEFINE n == Len(t)
             u == Append(t, c)
  <1>1. /\ u \in Chars /\ Len(u) = n + 1 /\ n \in Nat
        /\ \A k \in 1 .. n : u[k] = t[k]
        /\ u[n + 1] = c
    <2>1. t \in Seq(Alphabet) /\ n \in Nat
      BY CharsAre
    <2> HIDE DEF n
    <2> QED
      BY <2>1, AppendProperties DEF Chars, n
  <1>2. PICK E : Gathering(E, t) /\ Essence(t) = E[n + 1]
    BY EssenceIs
  <1>3. PICK F : Gathering(F, u) /\ Essence(u) = F[(n + 1) + 1]
    <2> HIDE DEF u
    <2> QED
      BY <1>1, EssenceIs
  <1>4. n = Len(t)
    OBVIOUS
  <1> HIDE DEF n
  <1>5. n <= Len(t) /\ n <= Len(u) /\ n + 1 \in 1 .. n + 1
    BY <1>1, <1>4
  <1>6. \A k \in 1 .. n + 1 : E[k] = F[k]
    <2> HIDE DEF u
    <2> QED
      BY <1>1, <1>2, <1>3, <1>5, GatheringSame
  <1>7. F[(n + 1) + 1] = IF c \in {" ", ","} THEN F[n + 1] ELSE Append(F[n + 1], c)
    <2> HIDE DEF u
    <2> QED
      BY <1>1, <1>3, <1>5 DEF Gathering
  <1>8. E[n + 1] \in Chars
    BY <1>2, <1>4, <1>5 DEF Gathering
  <1> QED
    BY <1>2, <1>3, <1>4, <1>5, <1>6, <1>7, <1>8

LEMMA EssenceChars ==
    ASSUME NEW t \in Chars
    PROVE  Essence(t) \in Chars
  <1>1. PICK E : Gathering(E, t) /\ Essence(t) = E[Len(t) + 1]
    BY EssenceIs
  <1>2. Len(t) + 1 \in 1 .. Len(t) + 1
    BY CharsAre
  <1> QED
    BY <1>1, <1>2 DEF Gathering

LEMMA EssenceConcat ==
    ASSUME NEW s \in Chars, NEW t \in Chars
    PROVE  Essence(s \o t) = Essence(s) \o Essence(t)
  <1> DEFINE Wrong(u) == u \in Chars /\ Essence(s \o u) # Essence(s) \o Essence(u)
             T == {n \in Nat : \E u : Wrong(u) /\ Len(u) = n}
  <1> SUFFICES ASSUME Wrong(t) PROVE FALSE
    OBVIOUS
  <1>1. T \subseteq Nat /\ Len(t) \in T
    BY LenProperties DEF Chars
  <1>2. PICK n \in T : \A j \in T : n <= j
    <2> HIDE DEF T
    <2> QED
      BY <1>1, Least
  <1>3. PICK u : Wrong(u) /\ Len(u) = n
    OBVIOUS
  <1>4. Essence(s) \in Chars
    BY EssenceChars
  <1>5. u # <<>>
    <2>1. s \o <<>> = s /\ Essence(s) \o <<>> = Essence(s)
      BY <1>4, ConcatEmptySeq DEF Chars
    <2> QED
      BY <1>3, <2>1, EssenceEmpty
  <1>6. PICK r \in Chars, c \in Alphabet : u = Append(r, c)
    BY <1>3, <1>5, SequenceEmptyOrAppend DEF Chars
  <1>7. Len(u) = Len(r) + 1 /\ Len(r) \in Nat
    BY <1>6, AppendProperties, LenProperties DEF Chars
  <1>8. ~ Wrong(r)
    <2> SUFFICES ASSUME Wrong(r) PROVE FALSE
      OBVIOUS
    <2>1. Len(r) \in T
      BY <1>7
    <2>2. n \in Nat /\ n = Len(r) + 1
      BY <1>3, <1>7
    <2> HIDE DEF T
    <2>3. n <= Len(r)
      BY <1>2, <2>1
    <2> QED
      BY <1>7, <2>2, <2>3
  <1>9. Essence(s \o r) = Essence(s) \o Essence(r)
    BY <1>6, <1>8
  <1> HIDE DEF T
  <1>10. s \o r \in Chars /\ Essence(r) \in Chars
    BY <1>6, ConcatProperties, EssenceAppend DEF Chars
  <1>11. s \o u = Append(s \o r, c)
    <2>1. <<c>> \in Chars
      BY <1>6, OneChar
    <2>2. u = r \o <<c>> /\ Append(s \o r, c) = (s \o r) \o <<c>>
      BY <1>6, <1>10, AppendIsConcat DEF Chars
    <2> QED
      BY <1>6, <2>1, <2>2, ConcatAssociative DEF Chars
  <1>12. Append(Essence(s) \o Essence(r), c) = Essence(s) \o Append(Essence(r), c)
    <2>1. <<c>> \in Chars
      BY <1>6, OneChar
    <2>2. /\ Essence(s) \o Essence(r) \in Chars
          /\ Append(Essence(r), c) = Essence(r) \o <<c>>
      BY <1>4, <1>6, <1>10, AppendIsConcat, ConcatProperties DEF Chars
    <2>3. Append(Essence(s) \o Essence(r), c) = (Essence(s) \o Essence(r)) \o <<c>>
      BY <1>6, <2>2, AppendIsConcat DEF Chars
    <2>4. (Essence(s) \o Essence(r)) \o <<c>> = Essence(s) \o (Essence(r) \o <<c>>)
      <3>1. Essence(s) \in Seq(Alphabet) /\ Essence(r) \in Seq(Alphabet) /\ <<c>> \in Seq(Alphabet)
        BY <1>4, <1>10, <2>1 DEF Chars
      <3> QED
        BY ONLY <3>1, ConcatAssociative
    <2> QED
      BY <2>2, <2>3, <2>4
  <1>13. CASE c \in {" ", ","}
    <2>1. Essence(s \o u) = Essence(s \o r) /\ Essence(u) = Essence(r)
      BY <1>6, <1>10, <1>11, <1>13, EssenceAppend
    <2> QED
      BY <1>3, <1>9, <2>1
  <1>14. CASE c \notin {" ", ","}
    <2>1. Essence(s \o u) = Append(Essence(s \o r), c) /\ Essence(u) = Append(Essence(r), c)
      BY <1>6, <1>10, <1>11, <1>14, EssenceAppend
    <2> QED
      BY <1>3, <1>9, <1>12, <2>1
  <1> QED
    BY <1>13, <1>14

Blank(t) == \A k \in 1 .. Len(t) : t[k] \in {" ", ","}

\* Nothing but spaces and commas has no essence.
LEMMA EssenceBlank ==
    ASSUME NEW t \in Chars, Blank(t)
    PROVE  Essence(t) = <<>>
  <1>1. PICK E : Gathering(E, t) /\ Essence(t) = E[Len(t) + 1]
    BY EssenceIs
  <1> DEFINE T == {k \in 1 .. Len(t) + 1 : E[k] # <<>>}
  <1>2. T = {}
    <2> SUFFICES ASSUME T # {} PROVE FALSE
      OBVIOUS
    <2>0. Len(t) \in Nat
      BY CharsAre
    <2>1. T \subseteq Nat
      BY <2>0
    <2>2. PICK k \in T : \A j \in T : k <= j
      <3> HIDE DEF T
      <3> QED
        BY <2>1, Least
    <2>3. k \in 1 .. Len(t) + 1 /\ E[k] # <<>>
      OBVIOUS
    <2>4. k # 1
      BY <2>3, <1>1 DEF Gathering
    <2>5. k - 1 \in 1 .. Len(t) /\ k - 1 \in 1 .. Len(t) + 1 /\ (k - 1) + 1 = k /\ ~ (k <= k - 1)
      BY <2>0, <2>3, <2>4
    <2>6. E[k - 1] = <<>>
      BY <2>2, <2>5
    <2> HIDE DEF T
    <2>7. E[k] = E[k - 1]
      BY <1>1, <2>5 DEF Gathering, Blank
    <2> QED
      BY <2>3, <2>6, <2>7
  <1>3. Len(t) + 1 \in 1 .. Len(t) + 1
    BY CharsAre
  <1> QED
    BY <1>1, <1>2, <1>3

-----------------------------------------------------------------------------
(* The parser stands inside a string only while it reads one.              *)

LEMMA InStringIs ==
    ASSUME NEW t \in Chars
    PROVE  /\ InString(t)[1] = FALSE
           /\ \A k \in 1 .. Len(t) : InString(t)[k + 1] = IF t[k] = "q" THEN ~ InString(t)[k] ELSE InString(t)[k]
  <1> DEFINE n == Len(t)
             step == [k \in 1 .. n |-> [b \in BOOLEAN |-> IF t[k] = "q" THEN ~ b ELSE b]]
             Is(h) == h = [k \in 1 .. n + 1 |->
                             IF k = 1 THEN FALSE
                             ELSE IF t[k - 1] = "q" THEN ~ h[k - 1] ELSE h[k - 1]]
             I == CHOOSE h : Is(h)
  <1>1. n \in Nat
    BY CharsAre
  <1>2. step \in SteppingTo(n, BOOLEAN)
    BY Zenon DEF SteppingTo
  <1>3. \A k \in 1 .. n : \A b \in BOOLEAN : step[k][b] = IF t[k] = "q" THEN ~ b ELSE b
    BY Zenon
  <1>4. InString(t) = I
    BY DEF InString
  <1> HIDE DEF step, n, I
  <1>5. PICK f : IteratedTo(f, n, FALSE, step, BOOLEAN)
    BY <1>1, <1>2, IteratesTo
  <1>6. Is(f)
    <2> DEFINE r == [k \in 1 .. n + 1 |->
                             IF k = 1 THEN FALSE
                             ELSE IF t[k - 1] = "q" THEN ~ f[k - 1] ELSE f[k - 1]]
    <2>1. ASSUME NEW k \in 1 .. n + 1 PROVE f[k] = r[k]
      <3>1. CASE k = 1
        <4>1. f[k] = FALSE
          BY <1>5, <3>1 DEF IteratedTo
        <4> QED
          BY <3>1, <4>1, Zenon
      <3>2. CASE k # 1
        <4>1. k - 1 \in 1 .. n /\ k - 1 \in 1 .. n + 1 /\ (k - 1) + 1 = k
          BY <1>1, <3>2
        <4>2. f[k] = step[k - 1][f[k - 1]] /\ f[k - 1] \in BOOLEAN
          BY <1>5, <4>1, Zenon DEF IteratedTo
        <4>3. f[k] = IF t[k - 1] = "q" THEN ~ f[k - 1] ELSE f[k - 1]
          BY <1>3, <4>1, <4>2, Zenon
        <4> QED
          BY <3>2, <4>3, Zenon
      <3> QED
        BY <3>1, <3>2
    <2>2. f = [k \in 1 .. n + 1 |-> f[k]] /\ r = [k \in 1 .. n + 1 |-> r[k]]
      BY <1>5 DEF IteratedTo
    <2> HIDE DEF r
    <2>3. f = r
      BY <2>1, <2>2
    <2> QED
      BY <2>3 DEF r
  <1>7. Is(I)
    <2> HIDE DEF Is
    <2> QED
      BY <1>6 DEF I
  <1> DEFINE e == [k \in 1 .. n + 1 |->
                             IF k = 1 THEN FALSE
                             ELSE IF t[k - 1] = "q" THEN ~ I[k - 1] ELSE I[k - 1]]
  <1>8. I = e
    BY <1>7
  <1>9. \A k \in 1 .. n + 1 : e[k] = IF k = 1 THEN FALSE
                             ELSE IF t[k - 1] = "q" THEN ~ I[k - 1] ELSE I[k - 1]
    BY Zenon
  <1> HIDE DEF e, Is
  <1>10. I[1] = FALSE
    <2>1. 1 \in 1 .. n + 1
      BY <1>1
    <2> QED
      BY <1>8, <1>9, <2>1, Zenon
  <1>11. ASSUME NEW k \in 1 .. n
         PROVE  I[k + 1] = IF t[k] = "q" THEN ~ I[k] ELSE I[k]
    <2>1. k + 1 \in 1 .. n + 1 /\ k + 1 # 1 /\ (k + 1) - 1 = k
      BY <1>1
    <2> QED
      BY <1>8, <1>9, <2>1, Zenon
  <1> QED
    BY <1>4, <1>10, <1>11, Zenon DEF n

\* it_ may be at p, where no string is being read.
Unquoted(p) == InText(p) /\ ~ InString(text)[p]

\* The places between two quotes are alike.
LEMMA SameAlong ==
    ASSUME TextOK, NEW p, InText(p), NEW n \in Nat, p + n <= Len(text) + 1,
           \A i \in 1 .. n : text[p + i - 1] # "q"
    PROVE  InString(text)[p + n] <=> InString(text)[p]
  <1> DEFINE T == {k \in 0 .. n : ~ (InString(text)[p + k] <=> InString(text)[p])}
  <1>1. p \in Nat /\ p >= 1 /\ Len(text) \in Nat /\ text \in Chars
    BY DEF InText, TextOK
  <1>2. T = {}
    <2> SUFFICES ASSUME T # {} PROVE FALSE
      OBVIOUS
    <2>1. T \subseteq Nat
      OBVIOUS
    <2>2. PICK k \in T : \A j \in T : k <= j
      <3> HIDE DEF T
      <3> QED
        BY <2>1, Least
    <2>3. k \in 0 .. n /\ ~ (InString(text)[p + k] <=> InString(text)[p])
      BY Zenon
    <2>4. k # 0
      <3>1. p + 0 = p
        BY <1>1
      <3> QED
        BY <2>3, <3>1, Zenon
    <2>5. k \in 1 .. n /\ k - 1 \in 0 .. n /\ ~ (k <= k - 1)
          /\ p + (k - 1) = p + k - 1 /\ (p + k - 1) + 1 = p + k /\ p + k - 1 \in 1 .. Len(text)
      BY <1>1, <2>3, <2>4
    <2>6. k - 1 \notin T
      BY <2>2, <2>5
    <2>7. InString(text)[p + (k - 1)] <=> InString(text)[p]
      BY <2>5, <2>6, Zenon
    <2> HIDE DEF T
    <2>8. text[p + k - 1] # "q"
      BY <2>5
    <2>9. InString(text)[(p + k - 1) + 1] = InString(text)[p + k - 1]
      BY <1>1, <2>5, <2>8, InStringIs, Zenon
    <2> QED
      BY <2>3, <2>5, <2>7, <2>9, Zenon
  <1>3. n \in 0 .. n
    OBVIOUS
  <1> QED
    BY <1>2, <1>3, Zenon

LEMMA StepsUnquoted ==
    ASSUME TextOK, NEW p, Unquoted(p), NEW n \in Nat,
           \A i \in 1 .. n : Ch(p + i - 1) \in Symbols \ {"q"}
    PROVE  Unquoted(p + n)
  <1>1. /\ InText(p) /\ InText(p + n)
        /\ \A i \in 1 .. n : text[p + i - 1] = Ch(p + i - 1)
    BY StepsOver DEF Unquoted
  <1>2. \A i \in 1 .. n : text[p + i - 1] # "q"
    BY <1>1
  <1>3. p + n <= Len(text) + 1
    BY <1>1 DEF InText, TextOK
  <1>4. InString(text)[p + n] <=> InString(text)[p]
    BY <1>1, <1>2, <1>3, SameAlong
  <1> QED
    BY <1>1, <1>4, Zenon DEF Unquoted

LEMMA StepUnquoted ==
    ASSUME TextOK, NEW p, Unquoted(p), Ch(p) \in Symbols \ {"q"}
    PROVE  Unquoted(p + 1)
  <1>1. p \in Nat
    BY DEF Unquoted, InText, TextOK
  <1>2. \A i \in 1 .. 1 : p + i - 1 = p
    BY <1>1
  <1>3. \A i \in 1 .. 1 : Ch(p + i - 1) \in Symbols \ {"q"}
    BY <1>2, Zenon
  <1> QED
    BY <1>3, StepsUnquoted

LEMMA PastUnquoted ==
    ASSUME TextOK, NEW S, S \subseteq Symbols \ {"q"}, NEW p, Unquoted(p)
    PROVE  Unquoted(Past(S, p))
  <1>1. NUL \notin S /\ kEOF \notin S
    BY DEF Symbols, Letters, NUL, kEOF
  <1>2. PICK z : z = Past(S, p)
    OBVIOUS
  <1>3. z \in p .. Len(text) + 1 /\ \A r \in p .. z - 1 : Ch(r) \in S
    BY <1>1, <1>2, PastIs DEF Unquoted
  <1>4. p \in Nat /\ Len(text) \in Nat
    BY DEF Unquoted, InText, TextOK
  <1>5. z - p \in Nat /\ p + (z - p) = z /\ \A i \in 1 .. z - p : p + i - 1 \in p .. z - 1
    BY <1>3, <1>4
  <1>6. \A i \in 1 .. z - p : Ch(p + i - 1) \in Symbols \ {"q"}
    BY <1>3, <1>5
  <1>7. Unquoted(p + (z - p))
    BY <1>5, <1>6, StepsUnquoted
  <1> QED
    BY <1>2, <1>5, <1>7, Zenon

LEMMA NumberEndUnquoted ==
    ASSUME TextOK, NEW p, Unquoted(p), Ch(p) \in {"d", "-"}
    PROVE  Unquoted(NumberEnd(p))
  <1> DEFINE s == IF Ch(p) = "-" THEN p + 1 ELSE p
             i == Past({"d"}, s)
  <1>0. {"d"} \subseteq Symbols \ {"q"} /\ "-" \in Symbols \ {"q"} /\ "." \in Symbols \ {"q"}
    BY DEF Symbols
  <1>1. Unquoted(s)
    BY <1>0, StepUnquoted
  <1>2. Unquoted(i)
    <2> HIDE DEF s
    <2> QED
      BY <1>0, <1>1, PastUnquoted
  <1> HIDE DEF i
  <1>3. Ch(i) = "." => Unquoted(i + 1)
    BY <1>0, <1>2, StepUnquoted
  <1>4. Ch(i) = "." => Unquoted(Past({"d"}, i + 1))
    BY <1>0, <1>3, PastUnquoted
  <1> QED
    BY <1>2, <1>4 DEF NumberEnd, i

LEMMA WordUnquoted ==
    ASSUME TextOK, Unquoted(Here), NEW w \in Words, Agrees(w, Len(w))
    PROVE  Unquoted(Here + Len(w))
  <1>1. Len(w) \in Nat /\ \A i \in 1 .. Len(w) : Ch(Here + i - 1) = w[i] /\ w[i] \in Letters
    BY WordsAre DEF Agrees
  <1>2. Letters \subseteq Symbols \ {"q"}
    BY DEF Letters, Symbols
  <1>3. \A i \in 1 .. Len(w) : Ch(Here + i - 1) \in Symbols \ {"q"}
    BY <1>1, <1>2
  <1> QED
    BY <1>1, <1>3, StepsUnquoted

LEMMA ClosedUnquoted ==
    ASSUME TextOK, NEW p, Unquoted(p), Ch(p) = "q", Closed(p)
    PROVE  Unquoted(StringEnd(p) + 1)
  <1> DEFINE stops == {q \in p + 1 .. Len(text) + 1 : Ch(q) \in {"q", kEOF}}
  <1>1. /\ Len(text) \in Nat /\ text \in Chars /\ p \in 1 .. Len(text) /\ text[p] = "q"
        /\ InText(p + 1)
    BY StepOver, CharsAre DEF Unquoted, TextOK, Symbols
  <1>2. PICK z : z = StringEnd(p)
    OBVIOUS
  <1>3. z # 0 /\ Ch(z) = "q" /\ InText(z) /\ z >= p + 1
    BY <1>2, StringEndInText DEF Closed, Unquoted
  <1>4. z \in 1 .. Len(text) /\ text[z] = "q" /\ InText(z + 1) /\ (end # Nowhere => z < end)
    <2>1. z \in 1 .. Len(text) /\ text[z] = "q" /\ InText(z + 1) /\ z # end
      BY <1>3, StepOver DEF Symbols
    <2>2. end # Nowhere => z + 1 <= end
      BY <2>1 DEF InText
    <2> QED
      BY <1>1, <2>1, <2>2 DEF TextOK
  <1>5. stops \subseteq Nat /\ stops # {}
    <2>1. z \in stops
      BY <1>1, <1>3, <1>4
    <2> QED
      BY <1>1, <2>1
  <1>6. \A y \in stops : z <= y
    <2>1. \E x \in stops : \A y \in stops : x <= y
      <3> HIDE DEF stops
      <3> QED
        BY <1>5, Least
    <2>2. Min(stops) \in stops /\ \A y \in stops : Min(stops) <= y
      <3> HIDE DEF stops
      <3> QED
        BY <2>1 DEF Min
    <2>3. z = Min(stops)
      BY <1>2, <1>5 DEF StringEnd
    <2> QED
      BY <2>2, <2>3
  <1>7. ASSUME NEW r \in p + 1 .. z - 1 PROVE text[r] # "q"
    <2>1. r \in p + 1 .. Len(text) + 1 /\ r \in 1 .. Len(text) /\ ~ (z <= r) /\ r # end
      BY <1>1, <1>4 DEF TextOK, Nowhere
    <2>2. Ch(r) # "q"
      BY <1>6, <2>1
    <2> QED
      BY <2>1, <2>2 DEF Ch
  <1>8. InString(text)[p + 1]
    BY <1>1, InStringIs, Zenon DEF Unquoted
  <1>9. InString(text)[z]
    <2>1. /\ z - (p + 1) \in Nat /\ (p + 1) + (z - (p + 1)) = z
          /\ (p + 1) + (z - (p + 1)) <= Len(text) + 1
          /\ \A i \in 1 .. z - (p + 1) : (p + 1) + i - 1 \in p + 1 .. z - 1
      BY <1>1, <1>3, <1>4
    <2>2. \A i \in 1 .. z - (p + 1) : text[(p + 1) + i - 1] # "q"
      BY <1>7, <2>1
    <2>3. InString(text)[(p + 1) + (z - (p + 1))] <=> InString(text)[p + 1]
      BY <1>1, <2>1, <2>2, SameAlong
    <2> QED
      BY <1>8, <2>1, <2>3, Zenon
  <1>10. ~ InString(text)[z + 1]
    BY <1>1, <1>4, <1>9, InStringIs, Zenon
  <1> QED
    BY <1>2, <1>4, <1>10, Zenon DEF Unquoted

Paired ==
    /\ at # "done" => Unquoted(pos)
    /\ OverrunNeedsOpen

LEMMA HereUnquoted ==
    ASSUME IInv, Paired, at # "done"
    PROVE  Unquoted(Here) /\ Unquoted(pos) /\ TextOK /\ InText(Here)
  <1>1. {" "} \subseteq Symbols \ {"q"}
    BY DEF Symbols
  <1>2. TextOK /\ Unquoted(pos)
    BY DEF IInv, Paired
  <1>3. Unquoted(Here)
    BY <1>1, <1>2, PastUnquoted DEF Here, SkipSpace
  <1> QED
    BY <1>2, <1>3 DEF Unquoted

\* A step that goes on, outside any string.
LEMMA UnquotedKeeps ==
    ASSUME UNCHANGED Input, NEW p, Unquoted(p), pos' = p, result' = result, result = None
    PROVE  Paired'
  <1>1. Unquoted(p)'
    BY DEF Unquoted, InText, Input
  <1>2. Unquoted(pos)'
    BY <1>1 DEF Unquoted, InText
  <1>3. OverrunNeedsOpen'
    BY DEF OverrunNeedsOpen, None
  <1> QED
    BY <1>2, <1>3 DEF Paired

LEMMA ErrorPaired ==
    ASSUME NEW p, Error(p)
    PROVE  Paired'
  BY DEF Error, Paired, OverrunNeedsOpen

LEMMA UnclosedPaired ==
    ASSUME UNCHANGED Input, TextOK, NEW p, Unquoted(p), Ch(p) = "q", Unclosed(p)
    PROVE  Paired'
  <1>1. ASSUME StringEnd(p) # 0, Error(StringEnd(p)) PROVE Paired'
    BY <1>1, ErrorPaired
  <1>2. ASSUME StringEnd(p) = 0, Overrun PROVE Paired'
    <2>1. end = Nowhere /\ p \in DOMAIN text /\ NeverClosed(p)
      BY <1>2, StringEndInText DEF Unquoted, NeverClosed
    <2>2. OverrunNeedsOpen'
      BY <2>1 DEF OverrunNeedsOpen, Input, NeverClosed
    <2> QED
      BY <1>2, <2>2 DEF Overrun, Paired
  <1> QED
    BY <1>1, <1>2 DEF Unclosed

LEMMA ColonPaired ==
    ASSUME UNCHANGED Input, TextOK, NEW t, NEW p, Unquoted(p), ObjectColon(t, p), result = None
    PROVE  Paired'
  <1>1. {" "} \subseteq Symbols \ {"q"} /\ ":" \in Symbols \ {"q"}
    BY DEF Symbols
  <1>2. PICK c : c = SkipSpace(p)
    OBVIOUS
  <1>3. Unquoted(c)
    BY <1>1, <1>2, PastUnquoted DEF SkipSpace
  <1>4. CASE Ch(c) = ":"
    <2>1. Unquoted(c + 1) /\ pos' = c + 1 /\ result' = result
      BY <1>1, <1>2, <1>3, <1>4, StepUnquoted DEF ObjectColon
    <2> QED
      BY <2>1, UnquotedKeeps
  <1>5. CASE Ch(c) # ":"
    BY <1>2, <1>5, ErrorPaired DEF ObjectColon
  <1> QED
    BY <1>4, <1>5

LEMMA ParsePaired ==
    ASSUME IInv, Paired, UNCHANGED Input, at = "parse",
           ParseWord \/ ParseNumber \/ ParseString \/ EnterArray \/ EnterObject
               \/ ParseComma \/ ParseOther
    PROVE  Paired'
  <1>1. Unquoted(Here) /\ TextOK /\ InText(Here) /\ result = None
    BY HereUnquoted DEF IInv
  <1>2. ASSUME ParseWord PROVE Paired'
    <2>1. ASSUME NEW w \in Words, Agrees(w, Len(w)), Deliver(Word(w), Here + Len(w), stack)
          PROVE  Paired'
      BY <1>1, <2>1, WordUnquoted, UnquotedKeeps DEF Deliver
    <2> QED
      BY <1>2, <2>1, ErrorPaired DEF ParseWord
  <1>3. ASSUME ParseNumber PROVE Paired'
    BY <1>1, <1>3, NumberEndUnquoted, UnquotedKeeps DEF ParseNumber, Deliver
  <1>4. ASSUME ParseString PROVE Paired'
    <2>1. ASSUME Closed(Here), Deliver(Quoted(StringText(Here)), StringEnd(Here) + 1, stack)
          PROVE  Paired'
      BY <1>1, <1>4, <2>1, ClosedUnquoted, UnquotedKeeps DEF ParseString, Deliver
    <2> QED
      BY <1>1, <1>4, <2>1, UnclosedPaired DEF ParseString
  <1>5. ASSUME EnterArray \/ EnterObject PROVE Paired'
    <2>1. Unquoted(Here + 1)
      BY <1>1, <1>5, StepUnquoted DEF EnterArray, EnterObject, Symbols
    <2> QED
      BY <1>1, <1>5, <2>1, UnquotedKeeps DEF EnterArray, EnterObject, Enter
  <1>6. ASSUME ParseComma PROVE Paired'
    <2>1. Unquoted(Here + 1)
      BY <1>1, <1>6, StepUnquoted DEF ParseComma, Symbols
    <2> QED
      BY <1>1, <1>6, <2>1, UnquotedKeeps, ErrorPaired DEF ParseComma, Goto
  <1>7. ASSUME ParseOther PROVE Paired'
    BY <1>7, ErrorPaired DEF ParseOther
  <1> QED
    BY <1>2, <1>3, <1>4, <1>5, <1>6, <1>7

LEMMA ArrayPaired ==
    ASSUME IInv, Paired, UNCHANGED Input, ArrayItems \/ ArrayAfter
    PROVE  Paired'
  <1>0. at # "done"
    BY DEF ArrayItems, ArrayAfter
  <1>1. Unquoted(Here) /\ Unquoted(pos) /\ TextOK /\ InText(Here) /\ result = None
    BY <1>0, HereUnquoted DEF IInv
  <1>2. ASSUME NEW p, Unquoted(p), Ch(p) = "]", Close(Arr(Top.vals), p) PROVE Paired'
    BY <1>1, <1>2, StepUnquoted, UnquotedKeeps DEF Symbols, Close, Deliver
  <1>3. ASSUME ArrayItems PROVE Paired'
    BY <1>1, <1>2, <1>3, UnquotedKeeps DEF ArrayItems, Goto
  <1>4. ASSUME Ch(Here) = ",", Goto("array", Here + 1) PROVE Paired'
    BY <1>1, <1>4, StepUnquoted, UnquotedKeeps DEF Symbols, Goto
  <1>5. ASSUME ArrayAfter PROVE Paired'
    BY <1>1, <1>2, <1>4, <1>5, ErrorPaired DEF ArrayAfter
  <1> QED
    BY <1>3, <1>5

LEMMA ObjectPaired ==
    ASSUME IInv, Paired, UNCHANGED Input, ObjectProps \/ ObjectAfter
    PROVE  Paired'
  <1>0. at # "done"
    BY DEF ObjectProps, ObjectAfter
  <1>1. Unquoted(Here) /\ Unquoted(pos) /\ TextOK /\ InText(Here) /\ result = None
    BY <1>0, HereUnquoted DEF IInv
  <1>2. ASSUME NEW ps, Ch(Here) = "}", Close(Obj(ps), Here) PROVE Paired'
    BY <1>1, <1>2, StepUnquoted, UnquotedKeeps DEF Symbols, Close, Deliver
  <1>3. ASSUME ObjectProps PROVE Paired'
    <2>1. ASSUME Ch(Here) = "q", Closed(Here),
                 ObjectColon(StringText(Here), StringEnd(Here) + 1)
          PROVE  Paired'
      BY <1>1, <2>1, ClosedUnquoted, ColonPaired
    <2>2. ASSUME Ch(Here) = "q", Unclosed(Here) PROVE Paired'
      BY <1>1, <2>2, UnclosedPaired
    <2> QED
      BY <1>2, <1>3, <2>1, <2>2, ErrorPaired DEF ObjectProps
  <1>4. ASSUME Ch(Here) = ",", pos' = Here + 1, UNCHANGED result PROVE Paired'
    BY <1>1, <1>4, StepUnquoted, UnquotedKeeps DEF Symbols
  <1>5. ASSUME ObjectAfter PROVE Paired'
    BY <1>2, <1>4, <1>5, ErrorPaired DEF ObjectAfter
  <1> QED
    BY <1>3, <1>5

LEMMA ReturnPaired ==
    ASSUME IInv, Return
    PROVE  Paired'
  <1>1. Len(stack) = 1
    BY InNoCall DEF Return
  <1>2. PICK v : IsValue(v) /\ stack[1].vals = <<v>>
    BY <1>1 DEF IInv, Collected, Return
  <1>3. result' = v /\ at' = "done"
    BY <1>1, <1>2 DEF Return, Top
  <1> QED
    BY <1>2, <1>3 DEF Paired, OverrunNeedsOpen, IsValue

LEMMA StepPaired == IInv /\ Paired /\ [Next]_vars => Paired'
  <1> SUFFICES ASSUME IInv, Paired, [Next]_vars PROVE Paired'
    OBVIOUS
  <1>1. CASE UNCHANGED vars
    BY <1>1 DEF vars, Paired, Unquoted, InText, OverrunNeedsOpen, NeverClosed
  <1>2. CASE Next
    <2>1. UNCHANGED Input
      BY <1>2 DEF Next
    <2>2. ASSUME ParseWord \/ ParseNumber \/ ParseString \/ EnterArray \/ EnterObject
                     \/ ParseComma \/ ParseOther
          PROVE  Paired'
      <3>1. at = "parse"
        BY <2>2 DEF ParseWord, ParseNumber, ParseString, EnterArray, EnterObject,
                    ParseComma, ParseOther
      <3> QED
        BY <2>1, <2>2, <3>1, ParsePaired
    <2> QED
      BY <1>2, <2>1, <2>2, ArrayPaired, ObjectPaired, ReturnPaired DEF Next
  <1> QED
    BY <1>1, <1>2

LEMMA BeginPaired == text \in Chars /\ Begin => Paired
  <1> SUFFICES ASSUME text \in Chars, Begin PROVE Paired
    OBVIOUS
  <1>1. pos = 1 /\ InText(pos) /\ result = None
    BY BeginIInv DEF Begin, IInv
  <1>2. ~ InString(text)[1]
    BY InStringIs, Zenon
  <1>3. Unquoted(pos)
    BY <1>1, <1>2, Zenon DEF Unquoted
  <1> QED
    BY <1>1, <1>3 DEF Paired, OverrunNeedsOpen, None

-----------------------------------------------------------------------------
(* Values by how deep they nest.                                           *)

Flat(nums, strs) == ({"word"} \X Words) \cup ({"num"} \X nums) \cup ({"str"} \X strs)

\* The values whose parts are in S.
Over(nums, strs, S) ==
    Flat(nums, strs) \cup (({"arr"} \X Seq(S)) \cup ({"obj"} \X Seq(strs \X S)))

Levels(h, m, nums, strs) ==
    /\ h = [k \in 0 .. m |-> h[k]]
    /\ h[0] = Flat(nums, strs)
    /\ \A k \in 0 .. m - 1 : h[k + 1] = Over(nums, strs, h[k])

LEMMA LevelsSame ==
    ASSUME NEW nums, NEW strs, NEW m \in Nat, NEW n \in Nat, m <= n,
           NEW f, NEW g, Levels(f, m, nums, strs), Levels(g, n, nums, strs)
    PROVE  \A k \in 0 .. m : f[k] = g[k]
  <1> DEFINE T == {k \in 0 .. m : f[k] # g[k]}
  <1> SUFFICES ASSUME T # {} PROVE FALSE
    OBVIOUS
  <1>1. T \subseteq Nat
    OBVIOUS
  <1>2. PICK k \in T : \A j \in T : k <= j
    <2> HIDE DEF T
    <2> QED
      BY <1>1, Least
  <1>3. k \in 0 .. m /\ f[k] # g[k]
    OBVIOUS
  <1>4. k # 0
    BY <1>3 DEF Levels
  <1>5. k - 1 \in 0 .. m /\ k - 1 \in 0 .. m - 1 /\ k - 1 \in 0 .. n - 1 /\ (k - 1) + 1 = k
        /\ ~ (k <= k - 1)
    BY <1>3, <1>4
  <1>6. f[k - 1] = g[k - 1]
    BY <1>2, <1>5
  <1> HIDE DEF T
  <1>7. f[k] = Over(nums, strs, f[k - 1]) /\ g[k] = Over(nums, strs, g[k - 1])
    BY <1>5 DEF Levels
  <1> QED
    BY <1>3, <1>6, <1>7

LEMMA LevelsSome ==
    ASSUME NEW nums, NEW strs, NEW n \in Nat
    PROVE  \E h : Levels(h, n, nums, strs)
  <1> DEFINE T == {m \in Nat : ~ \E h : Levels(h, m, nums, strs)}
  <1> SUFFICES ASSUME T # {} PROVE FALSE
    OBVIOUS
  <1>1. T \subseteq Nat
    OBVIOUS
  <1>2. PICK m \in T : \A j \in T : m <= j
    <2> HIDE DEF T
    <2> QED
      BY <1>1, Least
  <1>3. m \in Nat /\ ~ \E h : Levels(h, m, nums, strs)
    OBVIOUS
  <1>4. CASE m = 0
    <2> DEFINE F == Flat(nums, strs)
               g == [k \in 0 .. 0 |-> F]
    <2> HIDE DEF F
    <2>1. g = [k \in 0 .. 0 |-> g[k]] /\ g[0] = F /\ 0 .. 0 - 1 = {}
      OBVIOUS
    <2> HIDE DEF g
    <2>2. Levels(g, 0, nums, strs)
      BY <2>1 DEF Levels, F
    <2> QED
      BY <1>3, <1>4, <2>2
  <1>5. CASE m # 0
    <2>1. m - 1 \in Nat /\ ~ (m <= m - 1)
      BY <1>3, <1>5
    <2>2. PICK f : Levels(f, m - 1, nums, strs)
      BY <1>2, <2>1
    <2> HIDE DEF T
    <2> DEFINE v == Over(nums, strs, f[m - 1])
               g == [k \in 0 .. m |-> IF k = m THEN v ELSE f[k]]
    <2> HIDE DEF v
    <2>3. /\ g = [k \in 0 .. m |-> g[k]] /\ g[m] = v
          /\ \A k \in 0 .. m - 1 : g[k] = f[k]
      BY <1>3, <2>1
    <2> HIDE DEF g
    <2>4. ASSUME NEW k \in 0 .. m - 1 PROVE g[k + 1] = Over(nums, strs, g[k])
      <3>1. CASE k = m - 1
        <4>1. k + 1 = m /\ k \in 0 .. m - 1
          BY <1>3, <3>1
        <4> QED
          BY <2>3, <3>1, <4>1 DEF v
      <3>2. CASE k # m - 1
        <4>1. k \in 0 .. m - 1 - 1 /\ k + 1 \in 0 .. m - 1
          BY <1>3, <3>2
        <4>2. f[k + 1] = Over(nums, strs, f[k])
          BY <2>2, <4>1 DEF Levels
        <4> QED
          BY <2>3, <4>1, <4>2
      <3> QED
        BY <3>1, <3>2
    <2>5. g[0] = Flat(nums, strs)
      <3>1. 0 \in 0 .. m - 1
        BY <2>1
      <3> QED
        BY <2>2, <2>3, <3>1 DEF Levels
    <2>6. Levels(g, m, nums, strs)
      BY <2>3, <2>4, <2>5 DEF Levels
    <2> QED
      BY <1>3, <2>6
  <1> QED
    BY <1>4, <1>5

\* The equation that defines Nested has a solution, so Nested solves it.
LEMMA NestedIs ==
    ASSUME NEW nums, NEW strs
    PROVE  /\ Nested(nums, strs)[0] = Flat(nums, strs)
           /\ \A n \in Nat : Nested(nums, strs)[n + 1] = Over(nums, strs, Nested(nums, strs)[n])
  <1> DEFINE Body(h, n) ==
                ({"word"} \X Words) \cup ({"num"} \X nums) \cup ({"str"} \X strs)
                    \cup IF n = 0 THEN {}
                         ELSE ({"arr"} \X Seq(h[n - 1])) \cup ({"obj"} \X Seq(strs \X h[n - 1]))
             Is(h) == h = [n \in Nat |-> Body(h, n)]
             V == CHOOSE h : Is(h)
             H(m) == CHOOSE h : Levels(h, m, nums, strs)
             f == [m \in Nat |-> H(m)[m]]
  <1>1. Nested(nums, strs) = V
    BY DEF Nested
  <1>2. \A h : \A n \in Nat : Body(h, n) = IF n = 0 THEN Flat(nums, strs) ELSE Over(nums, strs, h[n - 1])
    BY DEF Flat, Over
  <1> HIDE DEF Body
  <1>3. \A m \in Nat : Levels(H(m), m, nums, strs)
    BY LevelsSome
  <1> HIDE DEF H
  <1>4. \A m \in Nat : f[m] = H(m)[m]
    OBVIOUS
  <1>5. Is(f)
    <2>0. f = [m \in Nat |-> f[m]]
      OBVIOUS
    <2> HIDE DEF f
    <2>1. f[0] = Flat(nums, strs)
      BY <1>3, <1>4 DEF Levels
    <2>2. ASSUME NEW k \in Nat PROVE f[k + 1] = Over(nums, strs, f[k])
      <3>1. k + 1 \in Nat /\ k <= k + 1 /\ k \in 0 .. k /\ k \in 0 .. (k + 1) - 1
        OBVIOUS
      <3>2. Levels(H(k), k, nums, strs) /\ Levels(H(k + 1), k + 1, nums, strs)
        BY <1>3, <3>1
      <3>3. \A i \in 0 .. k : H(k)[i] = H(k + 1)[i]
        BY <3>2, <3>1, LevelsSame
      <3>4. H(k + 1)[k] = H(k)[k]
        BY <3>3, <3>1
      <3>5. H(k + 1)[k + 1] = Over(nums, strs, H(k + 1)[k])
        BY <3>1, <3>2 DEF Levels
      <3> QED
        BY <1>4, <3>1, <3>4, <3>5
    <2>3. ASSUME NEW n \in Nat PROVE f[n] = Body(f, n)
      <3>1. CASE n = 0
        BY <1>2, <2>1, <3>1
      <3>2. CASE n # 0
        <4>1. n - 1 \in Nat /\ (n - 1) + 1 = n
          BY <3>2
        <4>2. f[n] = Over(nums, strs, f[n - 1])
          BY <2>2, <4>1
        <4> QED
          BY <1>2, <3>2, <4>2
      <3> QED
        BY <3>1, <3>2
    <2> DEFINE r == [n \in Nat |-> Body(f, n)]
    <2>4. \A n \in Nat : r[n] = f[n]
      BY <2>3
    <2>5. r = [n \in Nat |-> r[n]]
      OBVIOUS
    <2> HIDE DEF r
    <2>6. f = r
      BY <2>0, <2>4, <2>5
    <2> QED
      BY <2>6 DEF r
  <1> HIDE DEF f
  <1>6. Is(V)
    <2> HIDE DEF Is
    <2> QED
      BY <1>5
  <1> DEFINE e == [n \in Nat |-> Body(V, n)]
  <1>7. V = e
    BY <1>6
  <1>8. \A n \in Nat : e[n] = Body(V, n)
    OBVIOUS
  <1> HIDE DEF e, V, Is
  <1>9. V[0] = Flat(nums, strs)
    BY <1>2, <1>7, <1>8
  <1>10. ASSUME NEW n \in Nat PROVE V[n + 1] = Over(nums, strs, V[n])
    <2>1. n + 1 \in Nat /\ n + 1 # 0 /\ (n + 1) - 1 = n
      OBVIOUS
    <2>2. V[n + 1] = Body(V, n + 1)
      BY <1>7, <1>8, <2>1
    <2>3. Body(V, n + 1) = Over(nums, strs, V[(n + 1) - 1])
      BY <1>2, <2>1
    <2> QED
      BY <2>1, <2>2, <2>3
  <1> QED
    BY <1>1, <1>9, <1>10

\* The kinds of a value, told apart.
LEMMA FlatKinds ==
    ASSUME NEW nums, NEW strs, NEW v
    PROVE  v \in Flat(nums, strs) <=>
                 (\E w \in Words : v = Word(w)) \/ (\E t \in nums : v = Num(t)) \/ (\E t \in strs : v = Quoted(t))
  <1>1. \A T, k : v \in {k} \X T <=> \E t \in T : v = <<k, t>>
    OBVIOUS
  <1>2. v \in {"num"} \X nums <=> \E t \in nums : v = Num(t)
    BY <1>1 DEF Num
  <1>3. v \in {"str"} \X strs <=> \E t \in strs : v = Quoted(t)
    BY <1>1 DEF Quoted
  <1>4. v \in {"word"} \X Words <=> \E w \in Words : v = Word(w)
    BY <1>1 DEF Word
  <1>5. v \in Flat(nums, strs) <=>
           v \in {"word"} \X Words \/ v \in {"num"} \X nums \/ v \in {"str"} \X strs
    BY DEF Flat
  <1> QED
    BY <1>2, <1>3, <1>4, <1>5

Structured(strs, S, v) ==
    \/ \E vs \in Seq(S) : v = Arr(vs)
    \/ \E ps \in Seq(strs \X S) : v = Obj(ps)

LEMMA OverKinds ==
    ASSUME NEW nums, NEW strs, NEW S, NEW v
    PROVE  v \in Over(nums, strs, S) <=> v \in Flat(nums, strs) \/ Structured(strs, S, v)
  <1>1. \A T, k : v \in {k} \X T <=> \E t \in T : v = <<k, t>>
    OBVIOUS
  <1>2. v \in {"arr"} \X Seq(S) <=> \E vs \in Seq(S) : v = Arr(vs)
    BY <1>1 DEF Arr
  <1>3. v \in {"obj"} \X Seq(strs \X S) <=> \E ps \in Seq(strs \X S) : v = Obj(ps)
    BY <1>1 DEF Obj
  <1>4. v \in Over(nums, strs, S) <=>
           v \in Flat(nums, strs) \/ v \in {"arr"} \X Seq(S) \/ v \in {"obj"} \X Seq(strs \X S)
    BY DEF Over
  <1> QED
    BY <1>2, <1>3, <1>4 DEF Structured

LEMMA OverMonotonic ==
    ASSUME NEW nums, NEW strs, NEW S, NEW U, S \subseteq U
    PROVE  Over(nums, strs, S) \subseteq Over(nums, strs, U)
  <1> SUFFICES ASSUME NEW v \in Over(nums, strs, S) PROVE v \in Over(nums, strs, U)
    OBVIOUS
  <1>1. Seq(S) \subseteq Seq(U)
    BY SeqMonotonic
  <1>2. strs \X S \subseteq strs \X U
    OBVIOUS
  <1>3. Seq(strs \X S) \subseteq Seq(strs \X U)
    BY <1>2, SeqMonotonic
  <1>4. Structured(strs, S, v) => Structured(strs, U, v)
    BY <1>1, <1>3 DEF Structured
  <1> QED
    BY <1>4, OverKinds

LEMMA NestedGrows ==
    ASSUME NEW nums, NEW strs, NEW n \in Nat
    PROVE  Nested(nums, strs)[n] \subseteq Nested(nums, strs)[n + 1]
  <1> DEFINE V == Nested(nums, strs)
             T == {k \in Nat : ~ (V[k] \subseteq V[k + 1])}
  <1> SUFFICES ASSUME T # {} PROVE FALSE
    OBVIOUS
  <1>1. T \subseteq Nat
    OBVIOUS
  <1>2. PICK k \in T : \A j \in T : k <= j
    <2> HIDE DEF T
    <2> QED
      BY <1>1, Least
  <1>3. k \in Nat /\ ~ (V[k] \subseteq V[k + 1])
    OBVIOUS
  <1>4. V[0] = Flat(nums, strs) /\ \A m \in Nat : V[m + 1] = Over(nums, strs, V[m])
    BY NestedIs
  <1>5. k # 0
    <2>1. V[0 + 1] = Over(nums, strs, V[0])
      BY <1>4
    <2> HIDE DEF V
    <2>2. V[0] \subseteq V[0 + 1]
      BY <1>4, <2>1 DEF Over
    <2> QED
      BY <1>3, <2>2
  <1>6. k - 1 \in Nat /\ (k - 1) + 1 = k /\ ~ (k <= k - 1)
    BY <1>3, <1>5
  <1>7. V[k - 1] \subseteq V[k]
    BY <1>2, <1>6
  <1> HIDE DEF T, V
  <1>8. V[k] = Over(nums, strs, V[k - 1]) /\ V[k + 1] = Over(nums, strs, V[k])
    BY <1>3, <1>4, <1>6
  <1> QED
    BY <1>3, <1>7, <1>8, OverMonotonic

-----------------------------------------------------------------------------
(* What is written of a value.                                             *)

LEMMA SpellWord ==
    ASSUME NEW num, NEW w, NEW t
    PROVE  Spell(num, w, Word(t)) = t
  BY DEF Spell, Word

LEMMA SpellNum ==
    ASSUME NEW num, NEW w, NEW t
    PROVE  Spell(num, w, Num(t)) = num[t]
  BY DEF Spell, Num

LEMMA SpellQuoted ==
    ASSUME NEW num, NEW w, NEW t
    PROVE  Spell(num, w, Quoted(t)) = InQuotes(t)
  BY DEF Spell, Quoted

LEMMA SpellArr ==
    ASSUME NEW num, NEW w, NEW vs
    PROVE  Spell(num, w, Arr(vs)) = <<"[">> \o Join(Items(w, vs)) \o <<"]">>
  BY DEF Spell, Arr

LEMMA SpellObj ==
    ASSUME NEW num, NEW w, NEW ps
    PROVE  Spell(num, w, Obj(ps)) = <<"{">> \o Join(Properties(w, ps)) \o <<"}">>
  BY DEF Spell, Obj

LEMMA ConcatChars ==
    ASSUME NEW s \in Chars, NEW t \in Chars
    PROVE  s \o t \in Chars /\ Len(s \o t) = Len(s) + Len(t)
  BY ConcatProperties DEF Chars

LEMMA Marks ==
    /\ {"d", "-", ".", "q", " ", "[", "]", "{", "}", ",", ":", "x", "FF"} \cup Letters \subseteq Alphabet
    /\ <<"q">> \in Chars /\ <<":">> \in Chars
    /\ <<"[">> \in Chars /\ <<"]">> \in Chars /\ <<"{">> \in Chars /\ <<"}">> \in Chars
  <1>1. {"d", "-", ".", "q", " ", "[", "]", "{", "}", ",", ":", "x", "FF"} \cup Letters \subseteq Alphabet
    BY DEF Alphabet
  <1> QED
    BY <1>1, OneChar

LEMMA InQuotesChars ==
    ASSUME NEW t \in Chars
    PROVE  InQuotes(t) \in Chars
  BY Marks, ConcatChars DEF InQuotes

LEMMA JoinChars ==
    ASSUME NEW ss \in Seq(Chars)
    PROVE  Join(ss) \in Chars
  BY JoinAppend, NoChars

LEMMA ItemsChars ==
    ASSUME NEW S, NEW w \in [S -> Chars], NEW vs \in Seq(S)
    PROVE  /\ Items(w, vs) \in Seq(Chars) /\ Len(Items(w, vs)) = Len(vs) /\ Len(vs) \in Nat
           /\ \A k \in 1 .. Len(vs) : vs[k] \in S /\ Items(w, vs)[k] = w[vs[k]]
  <1>1. Len(vs) \in Nat /\ DOMAIN vs = 1 .. Len(vs) /\ \A k \in 1 .. Len(vs) : vs[k] \in S
    BY LenProperties, ElementOfSeq
  <1>2. Items(w, vs) = [k \in 1 .. Len(vs) |-> w[vs[k]]]
    BY <1>1 DEF Items
  <1>3. \A k \in 1 .. Len(vs) : w[vs[k]] \in Chars
    BY <1>1
  <1>4. Items(w, vs) \in [1 .. Len(vs) -> Chars]
    BY <1>2, <1>3
  <1> QED
    BY <1>1, <1>2, <1>4

LEMMA PropertyChars ==
    ASSUME NEW S, NEW w \in [S -> Chars], NEW p \in Chars \X S
    PROVE  p[1] \in Chars /\ p[2] \in S /\ w[p[2]] \in Chars /\ Property(w, p) \in Chars
  <1>1. p[1] \in Chars /\ p[2] \in S
    OBVIOUS
  <1>2. w[p[2]] \in Chars
    BY <1>1
  <1> QED
    BY <1>1, <1>2, Marks, ConcatChars, InQuotesChars DEF Property

LEMMA PropertiesChars ==
    ASSUME NEW S, NEW w \in [S -> Chars], NEW ps \in Seq(Chars \X S)
    PROVE  /\ Properties(w, ps) \in Seq(Chars) /\ Len(Properties(w, ps)) = Len(ps) /\ Len(ps) \in Nat
           /\ \A k \in 1 .. Len(ps) : /\ ps[k] \in Chars \X S
                                      /\ Properties(w, ps)[k] = Property(w, ps[k])
  <1>1. Len(ps) \in Nat /\ DOMAIN ps = 1 .. Len(ps) /\ \A k \in 1 .. Len(ps) : ps[k] \in Chars \X S
    BY LenProperties, ElementOfSeq
  <1>2. Properties(w, ps) = [k \in 1 .. Len(ps) |-> Property(w, ps[k])]
    BY <1>1 DEF Properties
  <1>3. \A k \in 1 .. Len(ps) : Property(w, ps[k]) \in Chars
    BY <1>1, PropertyChars
  <1>4. Properties(w, ps) \in [1 .. Len(ps) -> Chars]
    BY <1>2, <1>3
  <1> QED
    BY <1>1, <1>2, <1>4

\* num says how numbers are put out; Kinds(num) are the values it serves.
Puts(num)  == DOMAIN num \subseteq Chars /\ num \in [DOMAIN num -> Chars]
Kinds(num) == Nested(DOMAIN num, Chars)

LEMMA KindsAre ==
    ASSUME NEW num
    PROVE  /\ Kinds(num)[0] = Flat(DOMAIN num, Chars)
           /\ \A n \in Nat : Kinds(num)[n + 1] = Over(DOMAIN num, Chars, Kinds(num)[n])
  BY NestedIs DEF Kinds

LEMMA SpellFlat ==
    ASSUME NEW num, Puts(num), NEW w, NEW v \in Flat(DOMAIN num, Chars)
    PROVE  Spell(num, w, v) \in Chars /\ \A x : Spell(num, x, v) = Spell(num, w, v)
  <1>1. \/ \E t \in Words : v = Word(t)
        \/ \E t \in DOMAIN num : v = Num(t)
        \/ \E t \in Chars : v = Quoted(t)
    BY FlatKinds
  <1>2. ASSUME NEW t \in Words, v = Word(t)
        PROVE  Spell(num, w, v) \in Chars /\ \A x : Spell(num, x, v) = Spell(num, w, v)
    <2>1. \A x : Spell(num, x, Word(t)) = t
      BY SpellWord
    <2> QED
      BY <1>2, <2>1, WordsAre
  <1>3. ASSUME NEW t \in DOMAIN num, v = Num(t)
        PROVE  Spell(num, w, v) \in Chars /\ \A x : Spell(num, x, v) = Spell(num, w, v)
    <2>1. \A x : Spell(num, x, Num(t)) = num[t]
      BY SpellNum
    <2>2. num[t] \in Chars
      BY DEF Puts
    <2> QED
      BY <1>3, <2>1, <2>2
  <1>4. ASSUME NEW t \in Chars, v = Quoted(t)
        PROVE  Spell(num, w, v) \in Chars /\ \A x : Spell(num, x, v) = Spell(num, w, v)
    <2>1. \A x : Spell(num, x, Quoted(t)) = InQuotes(t)
      BY SpellQuoted
    <2> QED
      BY <1>4, <2>1, InQuotesChars
  <1> QED
    BY <1>1, <1>2, <1>3, <1>4

LEMMA SpellChars ==
    ASSUME NEW num, Puts(num), NEW n \in Nat, NEW w \in [Kinds(num)[n] -> Chars],
           NEW v \in Kinds(num)[n + 1]
    PROVE  Spell(num, w, v) \in Chars
  <1> DEFINE S == Kinds(num)[n]
  <1>1. v \in Over(DOMAIN num, Chars, S)
    BY KindsAre
  <1>0. w \in [S -> Chars]
    OBVIOUS
  <1> HIDE DEF S
  <1>2. CASE v \in Flat(DOMAIN num, Chars)
    BY <1>2, SpellFlat
  <1>3. ASSUME NEW vs \in Seq(S), v = Arr(vs) PROVE Spell(num, w, v) \in Chars
    <2>1. Join(Items(w, vs)) \in Chars
      BY <1>0, ItemsChars, JoinChars
    <2>2. <<"[">> \o Join(Items(w, vs)) \o <<"]">> \in Chars
      BY <2>1, Marks, ConcatChars
    <2> QED
      BY <1>3, <2>2, SpellArr
  <1>4. ASSUME NEW ps \in Seq(Chars \X S), v = Obj(ps) PROVE Spell(num, w, v) \in Chars
    <2>1. Join(Properties(w, ps)) \in Chars
      BY <1>0, PropertiesChars, JoinChars
    <2>2. <<"{">> \o Join(Properties(w, ps)) \o <<"}">> \in Chars
      BY <2>1, Marks, ConcatChars
    <2> QED
      BY <1>4, <2>2, SpellObj
  <1>5. v \in Flat(DOMAIN num, Chars) \/ Structured(Chars, S, v)
    BY <1>1, OverKinds
  <1> QED
    BY <1>2, <1>3, <1>4, <1>5 DEF Structured

LEMMA SpellingIs ==
    ASSUME NEW num, Puts(num)
    PROVE
    /\ \A v \in Kinds(num)[0] : \A w : Spelling(num)[0][v] = Spell(num, w, v)
    /\ \A n \in Nat : /\ Spelling(num)[n] \in [Kinds(num)[n] -> Chars]
                      /\ \A v \in Kinds(num)[n + 1] : Spelling(num)[n + 1][v] = Spell(num, Spelling(num)[n], v)
  <1> DEFINE Is(h) == h = [n \in Nat |-> [v \in Kinds(num)[n] |-> Spell(num, h[n - 1], v)]]
             Level(w, n) == [v \in Kinds(num)[n] |-> Spell(num, w, v)]
             Writers == UNION {[Kinds(num)[n] -> Chars] : n \in Nat}
             first == Level(<<>>, 0)
             step == [n \in Nat |-> [w \in Writers |->
                        IF w \in [Kinds(num)[n] -> Chars] THEN Level(w, n + 1) ELSE w]]
  <1>1. Spelling(num) = CHOOSE h : Is(h)
    BY DEF Spelling, Kinds
  <1>2. \A h : Is(h) <=> h = [n \in Nat |-> Level(h[n - 1], n)]
    OBVIOUS
  <1>3. \A n \in Nat : \A w \in [Kinds(num)[n] -> Chars] : Level(w, n + 1) \in [Kinds(num)[n + 1] -> Chars]
    BY SpellChars
  <1>4. first \in [Kinds(num)[0] -> Chars] /\ \A w : Level(w, 0) = first
    <2>1. \A v \in Kinds(num)[0] : \A w : Spell(num, w, v) \in Chars /\ Spell(num, w, v) = Spell(num, <<>>, v)
      BY SpellFlat, KindsAre
    <2> QED
      BY <2>1
  <1>5. \A n \in Nat : \A w : w \in [Kinds(num)[n] -> Chars] => w \in Writers
    OBVIOUS
  <1>6. step \in Stepping(Writers)
    <2>1. ASSUME NEW n \in Nat, NEW w \in Writers
          PROVE  (IF w \in [Kinds(num)[n] -> Chars] THEN Level(w, n + 1) ELSE w) \in Writers
      <3>1. n + 1 \in Nat
        OBVIOUS
      <3> HIDE DEF Level, Writers
      <3> QED
        BY <1>3, <1>5, <3>1
    <2> HIDE DEF Level, Writers
    <2> QED
      BY <2>1 DEF Stepping
  <1>7. \A n \in Nat : \A w \in [Kinds(num)[n] -> Chars] : step[n][w] = Level(w, n + 1)
    BY <1>5
  <1>8. first \in Writers
    BY <1>4, <1>5
  <1> HIDE DEF step, Writers, first, Is
  <1>9. PICK f : Iterated(f, first, step, Writers)
    BY <1>6, <1>8, Iterates
  <1>10. \A n \in Nat : f[n] \in [Kinds(num)[n] -> Chars]
    <2> DEFINE T == {n \in Nat : f[n] \notin [Kinds(num)[n] -> Chars]}
    <2> SUFFICES ASSUME T # {} PROVE FALSE
      OBVIOUS
    <2>1. T \subseteq Nat
      OBVIOUS
    <2>2. PICK k \in T : \A j \in T : k <= j
      <3> HIDE DEF T
      <3> QED
        BY <2>1, Least
    <2>3. k \in Nat /\ f[k] \notin [Kinds(num)[k] -> Chars]
      OBVIOUS
    <2>4. k # 0
      BY <1>4, <1>9, <2>3 DEF Iterated
    <2>5. k - 1 \in Nat /\ (k - 1) + 1 = k /\ ~ (k <= k - 1)
      BY <2>3, <2>4
    <2>6. f[k - 1] \in [Kinds(num)[k - 1] -> Chars]
      BY <2>2, <2>5
    <2> HIDE DEF T, Level
    <2>7. f[k] = step[k - 1][f[k - 1]]
      BY <1>9, <2>5 DEF Iterated
    <2>8. f[k] = Level(f[k - 1], k)
      BY <1>7, <2>5, <2>6, <2>7
    <2> QED
      BY <1>3, <2>3, <2>5, <2>6, <2>8
  <1> HIDE DEF Level
  <1>11. ASSUME NEW n \in Nat PROVE f[n] = Level(f[n - 1], n)
    <2>1. CASE n = 0
      BY <1>4, <1>9, <2>1 DEF Iterated
    <2>2. CASE n # 0
      <3>1. n - 1 \in Nat /\ (n - 1) + 1 = n
        BY <2>2
      <3>2. f[n] = step[n - 1][f[n - 1]]
        BY <1>9, <3>1 DEF Iterated
      <3>3. f[n] = Level(f[n - 1], n)
        BY <1>7, <1>10, <3>1, <3>2
      <3> QED
        BY <3>3
    <2> QED
      BY <2>1, <2>2
  <1>12. Is(f)
    <2> DEFINE r == [n \in Nat |-> Level(f[n - 1], n)]
    <2>1. \A n \in Nat : r[n] = f[n]
      BY <1>11
    <2>2. r = [n \in Nat |-> r[n]] /\ f = [n \in Nat |-> f[n]]
      BY <1>9 DEF Iterated
    <2> HIDE DEF r
    <2>3. f = r
      BY <2>1, <2>2
    <2> QED
      BY <1>2, <2>3 DEF r
  <1>13. Is(Spelling(num))
    BY <1>1, <1>12
  <1> DEFINE e == [n \in Nat |-> Level(Spelling(num)[n - 1], n)]
  <1>14. Spelling(num) = e
    BY <1>2, <1>13
  <1>15. \A n \in Nat : e[n] = Level(Spelling(num)[n - 1], n)
    OBVIOUS
  <1> HIDE DEF e
  <1>16. \A n \in Nat : Spelling(num)[n] = Level(Spelling(num)[n - 1], n)
    BY <1>14, <1>15
  <1>17. Spelling(num)[0] = first
    BY <1>4, <1>16
  <1>18. \A n \in Nat : Spelling(num)[n + 1] = Level(Spelling(num)[n], n + 1)
    <2> TAKE n \in Nat
    <2>1. n + 1 \in Nat /\ (n + 1) - 1 = n
      OBVIOUS
    <2>2. Spelling(num)[n + 1] = Level(Spelling(num)[(n + 1) - 1], n + 1)
      BY <1>16, <2>1
    <2> QED
      BY <2>1, <2>2
  <1>19. \A n \in Nat : Spelling(num)[n] \in [Kinds(num)[n] -> Chars]
    <2> DEFINE T == {n \in Nat : Spelling(num)[n] \notin [Kinds(num)[n] -> Chars]}
    <2> SUFFICES ASSUME T # {} PROVE FALSE
      OBVIOUS
    <2>1. T \subseteq Nat
      OBVIOUS
    <2>2. PICK k \in T : \A j \in T : k <= j
      <3> HIDE DEF T
      <3> QED
        BY <2>1, Least
    <2>3. k \in Nat /\ Spelling(num)[k] \notin [Kinds(num)[k] -> Chars]
      OBVIOUS
    <2>4. k # 0
      BY <1>4, <1>17, <2>3
    <2>5. k - 1 \in Nat /\ (k - 1) + 1 = k /\ ~ (k <= k - 1)
      BY <2>3, <2>4
    <2>6. Spelling(num)[k - 1] \in [Kinds(num)[k - 1] -> Chars]
      BY <2>2, <2>5
    <2> HIDE DEF T
    <2>7. Spelling(num)[k] = Level(Spelling(num)[k - 1], k)
      BY <1>16, <2>3
    <2> QED
      BY <1>3, <2>3, <2>5, <2>6, <2>7
  <1>20. ASSUME NEW v \in Kinds(num)[0], NEW w PROVE Spelling(num)[0][v] = Spell(num, w, v)
    <2>1. Spelling(num)[0] = Level(w, 0)
      BY <1>4, <1>17
    <2> QED
      BY <2>1 DEF Level
  <1>21. ASSUME NEW n \in Nat, NEW v \in Kinds(num)[n + 1] PROVE Spelling(num)[n + 1][v] = Spell(num, Spelling(num)[n], v)
    <2>1. Spelling(num)[n + 1] = Level(Spelling(num)[n], n + 1)
      BY <1>18
    <2> QED
      BY <2>1 DEF Level
  <1> QED
    BY <1>19, <1>20, <1>21

\* What deepens does not change the writing.
LEMMA SpellingGrows ==
    ASSUME NEW num, Puts(num), NEW n \in Nat, NEW v \in Kinds(num)[n]
    PROVE  v \in Kinds(num)[n + 1] /\ Spelling(num)[n + 1][v] = Spelling(num)[n][v]
  <1> DEFINE Same(k) == \A u \in Kinds(num)[k] : Spelling(num)[k + 1][u] = Spelling(num)[k][u]
             T == {k \in Nat : ~ Same(k)}
  <1>0. \A k \in Nat : Kinds(num)[k] \subseteq Kinds(num)[k + 1]
    BY NestedGrows DEF Kinds
  <1> SUFFICES ASSUME T # {} PROVE FALSE
    BY <1>0
  <1>1. T \subseteq Nat
    OBVIOUS
  <1>2. PICK k \in T : \A j \in T : k <= j
    <2> HIDE DEF T
    <2> QED
      BY <1>1, Least
  <1>3. k \in Nat /\ ~ Same(k)
    OBVIOUS
  <1>4. PICK u \in Kinds(num)[k] : Spelling(num)[k + 1][u] # Spelling(num)[k][u]
    BY <1>3
  <1>5. u \in Kinds(num)[k + 1] /\ Spelling(num)[k + 1][u] = Spell(num, Spelling(num)[k], u)
    BY <1>0, <1>3, SpellingIs
  <1>6. u \notin Flat(DOMAIN num, Chars)
    <2> SUFFICES ASSUME u \in Flat(DOMAIN num, Chars) PROVE FALSE
      OBVIOUS
    <2>1. CASE k = 0
      <3>1. Spelling(num)[0][u] = Spell(num, Spelling(num)[0], u)
        BY <2>1, SpellingIs
      <3> QED
        BY <1>4, <1>5, <2>1, <3>1
    <2>2. CASE k # 0
      <3>1. k - 1 \in Nat /\ (k - 1) + 1 = k
        BY <1>3, <2>2
      <3>2. Spelling(num)[k][u] = Spell(num, Spelling(num)[k - 1], u)
        BY <3>1, SpellingIs
      <3>3. \A x : Spell(num, x, u) = Spell(num, Spelling(num)[k], u)
        BY SpellFlat
      <3> QED
        BY <1>4, <1>5, <3>2, <3>3
    <2> QED
      BY <2>1, <2>2
  <1>7. k # 0
    BY <1>4, <1>6, KindsAre
  <1>8. k - 1 \in Nat /\ (k - 1) + 1 = k /\ ~ (k <= k - 1)
    BY <1>3, <1>7
  <1>9. Same(k - 1)
    <2>1. k - 1 \notin T
      BY <1>2, <1>8
    <2> QED
      BY <1>8, <2>1
  <1> HIDE DEF T
  <1>10. /\ Spelling(num)[k][u] = Spell(num, Spelling(num)[k - 1], u) /\ u \in Over(DOMAIN num, Chars, Kinds(num)[k - 1])
         /\ Spelling(num)[k - 1] \in [Kinds(num)[k - 1] -> Chars] /\ Kinds(num)[k - 1] \subseteq Kinds(num)[k]
    <2>1. \A m \in Nat : m + 1 = k => /\ Kinds(num)[k] = Over(DOMAIN num, Chars, Kinds(num)[m])
                                      /\ Spelling(num)[k][u] = Spell(num, Spelling(num)[m], u)
                                      /\ Spelling(num)[m] \in [Kinds(num)[m] -> Chars]
                                      /\ Kinds(num)[m] \subseteq Kinds(num)[k]
      BY <1>0, SpellingIs, KindsAre
    <2> QED
      BY <1>8, <2>1
  <1>11. \A x \in Kinds(num)[k - 1] : Spelling(num)[k][x] = Spelling(num)[k - 1][x]
    <2>1. \A m : m + 1 = k /\ Same(m) => \A x \in Kinds(num)[m] : Spelling(num)[k][x] = Spelling(num)[m][x]
      OBVIOUS
    <2> HIDE DEF Same
    <2> QED
      BY <1>8, <1>9, <2>1
  <1> HIDE DEF Same
  <1>12. Structured(Chars, Kinds(num)[k - 1], u)
    BY <1>6, <1>10, OverKinds
  <1>13. ASSUME NEW vs \in Seq(Kinds(num)[k - 1]), u = Arr(vs) PROVE FALSE
    <2>1. DOMAIN vs = 1 .. Len(vs) /\ \A i \in 1 .. Len(vs) : vs[i] \in Kinds(num)[k - 1]
      BY LenProperties, ElementOfSeq
    <2>2. Items(Spelling(num)[k], vs) = Items(Spelling(num)[k - 1], vs)
      BY <1>11, <2>1 DEF Items
    <2>3. Spell(num, Spelling(num)[k], u) = Spell(num, Spelling(num)[k - 1], u)
      <3>1. PICK w, x : w = Spelling(num)[k] /\ x = Spelling(num)[k - 1]
        OBVIOUS
      <3>2. Items(w, vs) = Items(x, vs)
        BY <3>1, <2>2
      <3>3. Spell(num, w, Arr(vs)) = Spell(num, x, Arr(vs))
        <4>1. \A y : Spell(num, y, Arr(vs)) = <<"[">> \o Join(Items(y, vs)) \o <<"]">>
          BY SpellArr
        <4> QED
          BY <3>2, <4>1, Zenon
      <3> QED
        BY <3>1, <3>3, <1>13, Zenon
    <2> QED
      BY <1>4, <1>5, <1>10, <2>3
  <1>14. ASSUME NEW ps \in Seq(Chars \X Kinds(num)[k - 1]), u = Obj(ps) PROVE FALSE
    <2>1. DOMAIN ps = 1 .. Len(ps) /\ \A i \in 1 .. Len(ps) : ps[i] \in Chars \X Kinds(num)[k - 1]
      BY LenProperties, ElementOfSeq
    <2>2. \A i \in 1 .. Len(ps) : Property(Spelling(num)[k], ps[i]) = Property(Spelling(num)[k - 1], ps[i])
      BY <1>11, <2>1 DEF Property
    <2>3. Properties(Spelling(num)[k], ps) = Properties(Spelling(num)[k - 1], ps)
      BY <2>1, <2>2 DEF Properties
    <2>4. Spell(num, Spelling(num)[k], u) = Spell(num, Spelling(num)[k - 1], u)
      <3>1. PICK w, x : w = Spelling(num)[k] /\ x = Spelling(num)[k - 1]
        OBVIOUS
      <3>2. Properties(w, ps) = Properties(x, ps)
        BY <3>1, <2>3
      <3>3. Spell(num, w, Obj(ps)) = Spell(num, x, Obj(ps))
        <4>1. \A y : Spell(num, y, Obj(ps)) = <<"{">> \o Join(Properties(y, ps)) \o <<"}">>
          BY SpellObj
        <4> QED
          BY <3>2, <4>1, Zenon
      <3> QED
        BY <3>1, <3>3, <1>14, Zenon
    <2> QED
      BY <1>4, <1>5, <1>10, <2>4
  <1> QED
    BY <1>12, <1>13, <1>14 DEF Structured

LEMMA NestedUpTo ==
    ASSUME NEW nums, NEW strs, NEW m \in Nat, NEW n \in Nat, m <= n
    PROVE  Nested(nums, strs)[m] \subseteq Nested(nums, strs)[n]
  <1> DEFINE V == Nested(nums, strs)
             T == {k \in Nat : m <= k /\ ~ (V[m] \subseteq V[k])}
  <1> SUFFICES ASSUME T # {} PROVE FALSE
    OBVIOUS
  <1>1. T \subseteq Nat
    OBVIOUS
  <1>2. PICK k \in T : \A j \in T : k <= j
    <2> HIDE DEF T
    <2> QED
      BY <1>1, Least
  <1>3. k \in Nat /\ m <= k /\ ~ (V[m] \subseteq V[k])
    OBVIOUS
  <1>4. k # m
    BY <1>3
  <1>5. k - 1 \in Nat /\ (k - 1) + 1 = k /\ ~ (k <= k - 1) /\ m <= k - 1
    BY <1>3, <1>4
  <1>6. V[m] \subseteq V[k - 1]
    BY <1>2, <1>5
  <1> HIDE DEF T, V
  <1>7. V[k - 1] \subseteq V[k]
    <2>1. \A i \in Nat : V[i] \subseteq V[i + 1]
      BY NestedGrows DEF V
    <2> QED
      BY <1>5, <2>1
  <1> QED
    BY <1>3, <1>6, <1>7

LEMMA KindsUpTo ==
    ASSUME NEW num, NEW m \in Nat, NEW n \in Nat, m <= n
    PROVE  Kinds(num)[m] \subseteq Kinds(num)[n]
  BY NestedUpTo DEF Kinds

\* The values that parsing makes, one level up.
LEMMA KindsMade ==
    ASSUME NEW num, Puts(num), NEW n \in Nat
    PROVE  /\ \A t \in Words : Word(t) \in Kinds(num)[n]
           /\ \A t \in DOMAIN num : Num(t) \in Kinds(num)[n]
           /\ \A t \in Chars : Quoted(t) \in Kinds(num)[n]
           /\ \A vs \in Seq(Kinds(num)[n]) : Arr(vs) \in Kinds(num)[n + 1]
           /\ \A ps \in Seq(Chars \X Kinds(num)[n]) : Obj(ps) \in Kinds(num)[n + 1]
  <1>1. Kinds(num)[0] \subseteq Kinds(num)[n] /\ Kinds(num)[0] = Flat(DOMAIN num, Chars)
    BY KindsUpTo, KindsAre
  <1>2. \A t \in Words : Word(t) \in Flat(DOMAIN num, Chars)
    BY FlatKinds
  <1>3. \A t \in DOMAIN num : Num(t) \in Flat(DOMAIN num, Chars)
    BY FlatKinds
  <1>4. \A t \in Chars : Quoted(t) \in Flat(DOMAIN num, Chars)
    BY FlatKinds
  <1>5. Kinds(num)[n + 1] = Over(DOMAIN num, Chars, Kinds(num)[n])
    BY KindsAre
  <1>6. ASSUME NEW vs \in Seq(Kinds(num)[n]) PROVE Arr(vs) \in Kinds(num)[n + 1]
    <2>1. Structured(Chars, Kinds(num)[n], Arr(vs))
      BY DEF Structured
    <2> QED
      BY <1>5, <2>1, OverKinds
  <1>7. ASSUME NEW ps \in Seq(Chars \X Kinds(num)[n]) PROVE Obj(ps) \in Kinds(num)[n + 1]
    <2>1. Structured(Chars, Kinds(num)[n], Obj(ps))
      BY DEF Structured
    <2> QED
      BY <1>5, <2>1, OverKinds
  <1> QED
    BY <1>1, <1>2, <1>3, <1>4, <1>6, <1>7

\* What is written of each.
Spells(num, S, w) ==
    /\ w \in [S -> Chars]
    /\ \A t \in Words : w[Word(t)] = t
    /\ \A t \in DOMAIN num : w[Num(t)] = num[t]
    /\ \A t \in Chars : w[Quoted(t)] = InQuotes(t)
    /\ \A vs \in Seq(S) : Arr(vs) \in S => w[Arr(vs)] = <<"[">> \o Join(Items(w, vs)) \o <<"]">>
    /\ \A ps \in Seq(Chars \X S) : Obj(ps) \in S =>
          w[Obj(ps)] = <<"{">> \o Join(Properties(w, ps)) \o <<"}">>

LEMMA SpellingOf ==
    ASSUME NEW num, Puts(num), NEW n \in Nat
    PROVE  Spells(num, Kinds(num)[n], Spelling(num)[n])
  <1>1. PICK w : w = Spelling(num)[n]
    OBVIOUS
  <1>2. PICK S : S = Kinds(num)[n]
    OBVIOUS
  <1>3. \A v \in S : w[v] = Spell(num, w, v)
    BY <1>1, <1>2, SpellingGrows, SpellingIs
  <1>4. /\ \A t \in Words : Word(t) \in S
        /\ \A t \in DOMAIN num : Num(t) \in S
        /\ \A t \in Chars : Quoted(t) \in S
    BY <1>2, KindsMade
  <1>5. w \in [S -> Chars]
    BY <1>1, <1>2, SpellingIs
  <1>6. \A t \in Words : w[Word(t)] = t
    BY <1>3, <1>4, SpellWord
  <1>7. \A t \in DOMAIN num : w[Num(t)] = num[t]
    BY <1>3, <1>4, SpellNum
  <1>8. \A t \in Chars : w[Quoted(t)] = InQuotes(t)
    BY <1>3, <1>4, SpellQuoted
  <1>9. \A vs \in Seq(S) : Arr(vs) \in S => w[Arr(vs)] = <<"[">> \o Join(Items(w, vs)) \o <<"]">>
    BY <1>3, SpellArr
  <1>10. \A ps \in Seq(Chars \X S) : Obj(ps) \in S =>
             w[Obj(ps)] = <<"{">> \o Join(Properties(w, ps)) \o <<"}">>
    BY <1>3, SpellObj
  <1> QED
    BY <1>1, <1>2, <1>5, <1>6, <1>7, <1>8, <1>9, <1>10, Zenon DEF Spells

\* What is recited, and what is written.
AsRead == [t \in Chars |-> t]

LEMMA Reciting == Puts(AsRead) /\ Kinds(AsRead) = JSONs /\ Spelling(AsRead) = Recite
                  /\ DOMAIN AsRead = Chars /\ \A t \in Chars : AsRead[t] = t
  <1>1. DOMAIN AsRead = Chars /\ AsRead \in [Chars -> Chars] /\ \A t \in Chars : AsRead[t] = t
    BY DEF AsRead
  <1>2. Puts(AsRead)
    BY <1>1 DEF Puts
  <1>3. Kinds(AsRead) = JSONs
    BY <1>1 DEF Kinds, JSONs
  <1>4. Spelling(AsRead) = Recite
    BY Zenon DEF Recite, AsRead
  <1> QED
    BY <1>1, <1>2, <1>3, <1>4

LEMMA Printing == Puts(Printed) /\ Spelling(Printed) = Write
  BY PrintedAssumption DEF Puts, Write

LEMMA JSONsUpTo ==
    ASSUME NEW m \in Nat, NEW n \in Nat, m <= n
    PROVE  JSONs[m] \subseteq JSONs[n]
  BY NestedUpTo DEF JSONs

LEMMA JSONsMade ==
    ASSUME NEW n \in Nat
    PROVE  /\ \A t \in Words : Word(t) \in JSONs[n]
           /\ \A t \in Chars : Num(t) \in JSONs[n] /\ Quoted(t) \in JSONs[n]
           /\ \A vs \in Seq(JSONs[n]) : Arr(vs) \in JSONs[n + 1]
           /\ \A ps \in Seq(Chars \X JSONs[n]) : Obj(ps) \in JSONs[n + 1]
  <1>1. PICK num : num = AsRead
    OBVIOUS
  <1>2. Puts(num) /\ Kinds(num) = JSONs /\ DOMAIN num = Chars
    BY <1>1, Reciting
  <1> QED
    BY <1>2, KindsMade

LEMMA Recital ==
    ASSUME NEW n \in Nat
    PROVE  /\ Recite[n] \in [JSONs[n] -> Chars]
           /\ \A t \in Words : Recite[n][Word(t)] = t
           /\ \A t \in Chars : Recite[n][Num(t)] = t /\ Recite[n][Quoted(t)] = InQuotes(t)
           /\ \A vs \in Seq(JSONs[n]) : Arr(vs) \in JSONs[n] =>
                 Recite[n][Arr(vs)] = <<"[">> \o Join(Items(Recite[n], vs)) \o <<"]">>
           /\ \A ps \in Seq(Chars \X JSONs[n]) : Obj(ps) \in JSONs[n] =>
                 Recite[n][Obj(ps)] = <<"{">> \o Join(Properties(Recite[n], ps)) \o <<"}">>
  <1>1. PICK num : num = AsRead
    OBVIOUS
  <1>2. Puts(num) /\ Kinds(num) = JSONs /\ DOMAIN num = Chars /\ Spelling(num) = Recite
        /\ \A t \in Chars : num[t] = t
    BY <1>1, Reciting
  <1>3. Spells(num, JSONs[n], Recite[n])
    BY <1>2, SpellingOf, Zenon
  <1>4. \A t \in Chars : Recite[n][Num(t)] = t
    BY <1>2, <1>3, Zenon DEF Spells
  <1> QED
    BY <1>3, <1>4, Zenon DEF Spells

-----------------------------------------------------------------------------
(* The essence of a part of a text.                                        *)

\* The essence of t from p up to but without q.
Between(t, p, q) == Essence(SubSeq(t, p, q - 1))

LEMMA SubSeqChars ==
    ASSUME NEW t \in Chars, NEW p \in 1 .. Len(t) + 1, NEW q \in p .. Len(t) + 1
    PROVE  /\ SubSeq(t, p, q - 1) \in Chars /\ Len(SubSeq(t, p, q - 1)) = q - p
           /\ \A i \in 1 .. q - p : SubSeq(t, p, q - 1)[i] = t[p + i - 1]
  <1>1. /\ t \in Seq(Alphabet) /\ Len(t) \in Nat
        /\ \A k \in 1 .. Len(t) : t[k] \in Alphabet
    BY CharsAre
  <1>2. p \in Int /\ q - 1 \in Int /\ p .. q - 1 \subseteq 1 .. Len(t)
    BY <1>1
  <1>3. \A i \in p .. q - 1 : t[i] \in Alphabet
    BY <1>1, <1>2
  <1>4. /\ SubSeq(t, p, q - 1) \in Seq(Alphabet)
        /\ Len(SubSeq(t, p, q - 1)) = IF p <= q - 1 THEN (q - 1) - p + 1 ELSE 0
        /\ \A i \in 1 .. (q - 1) - p + 1 : SubSeq(t, p, q - 1)[i] = t[p + i - 1]
    BY <1>2, <1>3, SubSeqProperties
  <1>5. (q - 1) - p + 1 = q - p /\ (IF p <= q - 1 THEN (q - 1) - p + 1 ELSE 0) = q - p
    BY <1>1
  <1> QED
    BY <1>4, <1>5 DEF Chars

LEMMA SubSeqSplit ==
    ASSUME NEW t \in Chars, NEW p \in 1 .. Len(t) + 1, NEW q \in p .. Len(t) + 1,
           NEW r \in q .. Len(t) + 1
    PROVE  SubSeq(t, p, r - 1) = SubSeq(t, p, q - 1) \o SubSeq(t, q, r - 1)
  <1>1. t \in Seq(Alphabet) /\ Len(t) \in Nat
    BY CharsAre
  <1>2. q - 1 \in p - 1 .. Len(t) /\ r - 1 \in q - 1 .. Len(t) /\ (q - 1) + 1 = q
    BY <1>1
  <1> QED
    BY <1>1, <1>2, ConcatAdjacentSubSeq

LEMMA BetweenConcat ==
    ASSUME NEW t \in Chars, NEW p \in 1 .. Len(t) + 1, NEW q \in p .. Len(t) + 1,
           NEW r \in q .. Len(t) + 1
    PROVE  /\ Between(t, p, q) \in Chars /\ Between(t, q, r) \in Chars
           /\ Between(t, p, r) = Between(t, p, q) \o Between(t, q, r)
  <1>1. q \in 1 .. Len(t) + 1
    BY CharsAre
  <1>2. SubSeq(t, p, q - 1) \in Chars /\ SubSeq(t, q, r - 1) \in Chars
    BY <1>1, SubSeqChars
  <1>3. SubSeq(t, p, r - 1) = SubSeq(t, p, q - 1) \o SubSeq(t, q, r - 1)
    BY SubSeqSplit
  <1> QED
    BY <1>2, <1>3, EssenceConcat, EssenceChars DEF Between

BlankIn(t, p, q) == \A r \in p .. q - 1 : t[r] \in {" ", ","}

LEMMA BetweenBlank ==
    ASSUME NEW t \in Chars, NEW p \in 1 .. Len(t) + 1, NEW q \in p .. Len(t) + 1, BlankIn(t, p, q)
    PROVE  Between(t, p, q) = <<>>
  <1> DEFINE s == SubSeq(t, p, q - 1)
  <1>1. s \in Chars /\ Len(s) = q - p /\ \A i \in 1 .. q - p : s[i] = t[p + i - 1]
    BY SubSeqChars
  <1>2. Len(t) \in Nat /\ p \in Nat /\ q \in Nat
    BY CharsAre
  <1>3. Blank(s)
    <2> HIDE DEF s
    <2>1. ASSUME NEW i \in 1 .. Len(s) PROVE s[i] \in {" ", ","}
      <3>1. i \in 1 .. q - p /\ p + i - 1 \in p .. q - 1
        BY <1>1, <1>2
      <3> QED
        BY <1>1, <3>1 DEF BlankIn
    <2> QED
      BY <2>1 DEF Blank
  <1> HIDE DEF s
  <1>4. Essence(s) = <<>>
    BY <1>1, <1>3, EssenceBlank
  <1> QED
    BY <1>4 DEF Between, s

LEMMA AppendFirst == \A c : Append(<<>>, c) = <<c>>
  OBVIOUS

LEMMA EssenceOne ==
    ASSUME NEW c \in Alphabet, c # " ", c # ","
    PROVE  Essence(<<c>>) = <<c>>
  <1>1. Append(<<>>, c) = <<c>>
    BY AppendFirst
  <1>2. Essence(Append(<<>>, c)) = Append(Essence(<<>>), c)
    BY EssenceAppend, NoChars
  <1> QED
    BY <1>1, <1>2, EssenceEmpty

LEMMA SubSeqOne ==
    ASSUME NEW t \in Chars, NEW p \in 1 .. Len(t)
    PROVE  SubSeq(t, p, (p + 1) - 1) = <<t[p]>> /\ t[p] \in Alphabet
  <1>1. Len(t) \in Nat /\ t[p] \in Alphabet
    BY CharsAre
  <1>2. p \in 1 .. Len(t) + 1 /\ p + 1 \in p .. Len(t) + 1 /\ (p + 1) - p = 1 /\ p + 1 - 1 = p
    BY <1>1
  <1> DEFINE s == SubSeq(t, p, (p + 1) - 1)
  <1>3. s \in Chars /\ Len(s) = (p + 1) - p
        /\ \A i \in 1 .. (p + 1) - p : s[i] = t[p + i - 1]
    BY <1>2, SubSeqChars
  <1> HIDE DEF s
  <1>4. s \in Seq(Alphabet) /\ Len(s) = 1 /\ s[1] = t[p]
    BY <1>2, <1>3 DEF Chars
  <1>5. <<t[p]>> \in Seq(Alphabet) /\ Len(<<t[p]>>) = 1 /\ <<t[p]>>[1] = t[p]
    BY <1>1
  <1>6. s = <<t[p]>>
    BY <1>4, <1>5, SeqEqual
  <1> QED
    BY <1>1, <1>6 DEF s

LEMMA SepBlank == \A k : Essence(Sep(k)) = <<>>
  <1>1. <<",">> \in Chars /\ Len(<<",">>) = 1 /\ <<",">>[1] = ","
    BY Marks, OneChar
  <1>2. Blank(<<",">>)
    <2>1. PICK s : s = <<",">>
      OBVIOUS
    <2>2. Len(s) = 1 /\ s[1] = ","
      BY <1>1, <2>1
    <2>3. \A k \in 1 .. Len(s) : k = 1
      <3>1. PICK n : n = Len(s)
        OBVIOUS
      <3>2. n = 1
        BY <2>2, <3>1, Zenon
      <3>3. \A k \in 1 .. n : k = 1
        BY ONLY <3>2
      <3> QED
        BY ONLY <3>1, <3>3, Zenon
    <2>4. "," \in {" ", ","}
      OBVIOUS
    <2>5. \A k \in 1 .. Len(s) : s[k] \in {" ", ","}
      BY ONLY <2>2, <2>3, <2>4, Zenon
    <2> QED
      BY <2>1, <2>5 DEF Blank
  <1>3. Essence(<<",">>) = <<>>
    BY <1>1, <1>2, EssenceBlank
  <1> QED
    BY <1>3, EssenceEmpty DEF Sep

-----------------------------------------------------------------------------
(* Texts that are put together.  The provers take s \o t apart, down to its *)
(* characters; Cat is the same, and left whole.                            *)

Cat(s, t) == s \o t

LEMMA CatChars ==
    ASSUME NEW s \in Chars, NEW t \in Chars
    PROVE  Cat(s, t) \in Chars
  BY ConcatChars DEF Cat

\* A text of one character, whole as well.
Mark(c) == <<c>>

LEMMA MarkChars ==
    ASSUME NEW c \in Alphabet
    PROVE  Mark(c) \in Chars /\ (c # " " /\ c # "," => Essence(Mark(c)) = Mark(c))
  BY OneChar, EssenceOne DEF Mark

LEMMA BetweenOne ==
    ASSUME NEW t \in Chars, NEW p \in 1 .. Len(t), t[p] # " ", t[p] # ","
    PROVE  Between(t, p, p + 1) = Mark(t[p])
  BY SubSeqOne, EssenceOne DEF Between, Mark

LEMMA CatAssoc ==
    ASSUME NEW s \in Chars, NEW t \in Chars, NEW u \in Chars
    PROVE  Cat(Cat(s, t), u) = Cat(s, Cat(t, u))
  BY ConcatAssociative DEF Chars, Cat

LEMMA CatEmpty ==
    ASSUME NEW s \in Chars
    PROVE  Cat(s, <<>>) = s /\ Cat(<<>>, s) = s
  BY ConcatEmptySeq DEF Chars, Cat

LEMMA CatEssence ==
    ASSUME NEW s \in Chars, NEW t \in Chars
    PROVE  Essence(Cat(s, t)) = Cat(Essence(s), Essence(t))
  BY EssenceConcat DEF Cat

LEMMA BetweenCat ==
    ASSUME NEW t \in Chars, NEW p \in 1 .. Len(t) + 1, NEW q \in p .. Len(t) + 1,
           NEW r \in q .. Len(t) + 1
    PROVE  Between(t, p, r) = Cat(Between(t, p, q), Between(t, q, r))
  BY BetweenConcat DEF Cat

\* What a comma separates has the essence of both.
LEMMA JoinedEssence ==
    ASSUME NEW s \in Chars, NEW k, NEW t \in Chars
    PROVE  /\ Cat(Cat(s, Sep(k)), t) \in Chars
           /\ Essence(Cat(Cat(s, Sep(k)), t)) = Cat(Essence(s), Essence(t))
  <1>1. Sep(k) \in Chars /\ Essence(s) \in Chars
    BY SepChars, EssenceChars
  <1> QED
    BY <1>1, SepBlank, CatChars, CatEssence, CatEmpty

-----------------------------------------------------------------------------
(* What the calls under way have read, as they would write it.             *)

\* Properties whose values are in S, another thing left whole.
Pairs(S) == Chars \X S

Typed(f, S) == f.vals \in Seq(S) /\ f.props \in Seq(Pairs(S)) /\ f.key \in Chars

\* What write() would put out for f so far, for a text t; an object's call that
\* stands at label a has read a key unless it is about to.
Ink(t, f, a) ==
    LET w == Recite[Len(t)]
        vals == Join(Items(w, f.vals))
        props == Join(Properties(w, f.props))
    IN CASE f.fn = "array"  -> Cat(Mark("["), vals)
         [] f.fn = "object" -> IF a = "object" THEN Cat(Mark("{"), props)
                               ELSE Cat(Mark("{"), Cat(props, Cat(InQuotes(f.key), Cat(Mark(":"), vals))))
         [] OTHER           -> vals

LEMMA ItemsAppend ==
    ASSUME NEW S, NEW w \in [S -> Chars], NEW vs \in Seq(S), NEW v \in S
    PROVE  Items(w, Append(vs, v)) = Append(Items(w, vs), w[v])
  <1>1. /\ Append(vs, v) \in Seq(S) /\ Len(Append(vs, v)) = Len(vs) + 1
        /\ \A i \in 1 .. Len(vs) : Append(vs, v)[i] = vs[i]
        /\ Append(vs, v)[Len(vs) + 1] = v
    BY AppendProperties
  <1>2. /\ Items(w, vs) \in Seq(Chars) /\ Len(Items(w, vs)) = Len(vs) /\ Len(vs) \in Nat
        /\ \A k \in 1 .. Len(vs) : vs[k] \in S /\ Items(w, vs)[k] = w[vs[k]]
    BY ItemsChars
  <1>3. /\ Items(w, Append(vs, v)) \in Seq(Chars)
        /\ Len(Items(w, Append(vs, v))) = Len(Append(vs, v))
        /\ \A k \in 1 .. Len(Append(vs, v)) : Items(w, Append(vs, v))[k] = w[Append(vs, v)[k]]
    <2>1. PICK us : us = Append(vs, v)
      OBVIOUS
    <2>2. us \in Seq(S)
      BY <1>1, <2>1
    <2>3. /\ Items(w, us) \in Seq(Chars) /\ Len(Items(w, us)) = Len(us)
          /\ \A k \in 1 .. Len(us) : Items(w, us)[k] = w[us[k]]
      BY <2>2, ItemsChars
    <2> QED
      BY <2>1, <2>3
  <1>4. w[v] \in Chars
    OBVIOUS
  <1>5. /\ Append(Items(w, vs), w[v]) \in Seq(Chars)
        /\ Len(Append(Items(w, vs), w[v])) = Len(vs) + 1
        /\ \A i \in 1 .. Len(vs) : Append(Items(w, vs), w[v])[i] = Items(w, vs)[i]
        /\ Append(Items(w, vs), w[v])[Len(vs) + 1] = w[v]
    BY <1>2, <1>4, AppendProperties
  <1> QED
    <2> DEFINE x == Items(w, Append(vs, v))
               y == Append(Items(w, vs), w[v])
               n == Len(vs)
    <2>1. x \in Seq(Chars) /\ y \in Seq(Chars) /\ Len(x) = n + 1 /\ Len(y) = n + 1 /\ n \in Nat
      BY <1>1, <1>2, <1>3, <1>5
    <2>2. ASSUME NEW i \in 1 .. n PROVE x[i] = y[i]
      <3>1. i \in 1 .. Len(Append(vs, v)) /\ i \in 1 .. Len(vs)
        BY <1>1, <1>2
      <3> QED
        BY <1>1, <1>2, <1>3, <1>5, <3>1
    <2>3. x[n + 1] = y[n + 1]
      <3>1. n + 1 \in 1 .. Len(Append(vs, v))
        BY <1>1, <1>2
      <3> QED
        BY <1>1, <1>3, <1>5, <3>1
    <2> HIDE DEF x, y, n
    <2>4. \A i \in 1 .. Len(x) : x[i] = y[i]
      BY <2>1, <2>2, <2>3
    <2>5. x = y
      BY <2>1, <2>4, SeqEqual
    <2> QED
      BY <2>5 DEF x, y

LEMMA JoinItems ==
    ASSUME NEW S, NEW w \in [S -> Chars], NEW vs \in Seq(S), NEW v \in S
    PROVE  Join(Items(w, Append(vs, v))) = Join(Items(w, vs)) \o Sep(Len(vs) + 1) \o w[v]
  <1>1. PICK is, t : is = Items(w, vs) /\ t = w[v]
    OBVIOUS
  <1>2. is \in Seq(Chars) /\ t \in Chars /\ Len(is) = Len(vs)
    BY <1>1, ItemsChars
  <1>3. Items(w, Append(vs, v)) = Append(is, t)
    BY <1>1, ItemsAppend
  <1>4. Join(Append(is, t)) = Join(is) \o Sep(Len(is) + 1) \o t
    BY ONLY <1>2, JoinAppend
  <1> QED
    BY <1>1, <1>2, <1>3, <1>4, Zenon

\* us is vs and then v: said so, and not as Append, it stays whole as Cat does.
Grown(us, vs, v) == us = Append(vs, v)

LEMMA ItemsMore ==
    ASSUME NEW S, NEW w \in [S -> Chars], NEW vs \in Seq(S), NEW v \in S,
           NEW us, Grown(us, vs, v)
    PROVE  /\ us \in Seq(S) /\ w[v] \in Chars
           /\ Join(Items(w, vs)) \in Chars /\ Join(Items(w, us)) \in Chars
           /\ Join(Items(w, us)) = Cat(Cat(Join(Items(w, vs)), Sep(Len(vs) + 1)), w[v])
  <1>1. us \in Seq(S)
    BY AppendProperties DEF Grown
  <1>2. w[v] \in Chars
    OBVIOUS
  <1>3. Join(Items(w, vs)) \in Chars
    BY ItemsChars, JoinChars
  <1>4. Join(Items(w, us)) \in Chars
    BY <1>1, ItemsChars, JoinChars
  <1>5. Join(Items(w, us)) = Cat(Cat(Join(Items(w, vs)), Sep(Len(vs) + 1)), w[v])
    BY JoinItems DEF Cat, Grown
  <1> QED
    BY <1>1, <1>2, <1>3, <1>4, <1>5

LEMMA PropertiesMore ==
    ASSUME NEW S, NEW w \in [S -> Chars], NEW ps \in Seq(Pairs(S)), NEW p \in Pairs(S),
           NEW qs, Grown(qs, ps, p)
    PROVE  /\ qs \in Seq(Pairs(S)) /\ Property(w, p) \in Chars
           /\ Join(Properties(w, ps)) \in Chars /\ Join(Properties(w, qs)) \in Chars
           /\ Join(Properties(w, qs))
                 = Cat(Cat(Join(Properties(w, ps)), Sep(Len(ps) + 1)), Property(w, p))
  <1>1. PICK T : T = Pairs(S)
    OBVIOUS
  <1>2. PICK u : u = [q \in T |-> Property(w, q)]
    OBVIOUS
  <1>3. u \in [T -> Chars]
    BY <1>1, <1>2, PropertyChars DEF Pairs
  <1>4. \A rs \in Seq(T) : Properties(w, rs) = Items(u, rs)
    <2> TAKE rs \in Seq(T)
    <2>1. DOMAIN rs = 1 .. Len(rs) /\ \A k \in 1 .. Len(rs) : rs[k] \in T
      BY LenProperties, ElementOfSeq
    <2>2. \A k \in 1 .. Len(rs) : u[rs[k]] = Property(w, rs[k])
      BY <1>2, <2>1
    <2> QED
      BY <2>1, <2>2 DEF Properties, Items
  <1>5. ps \in Seq(T) /\ p \in T /\ u[p] = Property(w, p)
    BY <1>1, <1>2
  <1>6. /\ qs \in Seq(T) /\ u[p] \in Chars
        /\ Join(Items(u, ps)) \in Chars /\ Join(Items(u, qs)) \in Chars
        /\ Join(Items(u, qs)) = Cat(Cat(Join(Items(u, ps)), Sep(Len(ps) + 1)), u[p])
    BY <1>3, <1>5, ItemsMore
  <1>7. Properties(w, ps) = Items(u, ps) /\ Properties(w, qs) = Items(u, qs)
    BY <1>4, <1>5, <1>6
  <1> QED
    BY <1>1, <1>5, <1>6, <1>7

\* f as an object's call has it once the key k is read.
Keyed(f, k) == [fn |-> f.fn, vals |-> <<>>, props |-> f.props, key |-> k]

LEMMA MarkIn ==
    /\ Mark("[") \in Chars /\ Mark("]") \in Chars /\ Mark("{") \in Chars /\ Mark("}") \in Chars
    /\ Mark(":") \in Chars /\ Mark("q") \in Chars
  BY Marks DEF Mark

LEMMA MarkInked ==
    /\ Essence(Mark("[")) = Mark("[") /\ Essence(Mark("]")) = Mark("]")
    /\ Essence(Mark("{")) = Mark("{") /\ Essence(Mark("}")) = Mark("}")
    /\ Essence(Mark(":")) = Mark(":") /\ Essence(Mark("q")) = Mark("q")
  BY Marks, MarkChars

LEMMA Writer ==
    ASSUME NEW t \in Chars
    PROVE  Len(t) \in Nat /\ Recite[Len(t)] \in [JSONs[Len(t)] -> Chars]
  BY CharsAre, Recital

\* The parts that Ink is put together from.
LEMMA InkParts ==
    ASSUME NEW t \in Chars, NEW f, Typed(f, JSONs[Len(t)])
    PROVE  /\ Join(Items(Recite[Len(t)], f.vals)) \in Chars
           /\ Join(Properties(Recite[Len(t)], f.props)) \in Chars
           /\ InQuotes(f.key) \in Chars
  <1>1. PICK S, w : S = JSONs[Len(t)] /\ w = Recite[Len(t)]
    OBVIOUS
  <1>2. w \in [S -> Chars] /\ f.vals \in Seq(S) /\ f.props \in Seq(Pairs(S)) /\ f.key \in Chars
    BY <1>1, Writer DEF Typed
  <1>3. Join(Items(w, f.vals)) \in Chars
    BY <1>2, ItemsChars, JoinChars
  <1>4. Join(Properties(w, f.props)) \in Chars
    BY <1>2, PropertiesChars, JoinChars DEF Pairs
  <1> QED
    BY <1>1, <1>2, <1>3, <1>4, InQuotesChars

LEMMA InkArray ==
    ASSUME NEW t, NEW f, NEW a, f.fn = "array"
    PROVE  Ink(t, f, a) = Cat(Mark("["), Join(Items(Recite[Len(t)], f.vals)))
  BY DEF Ink

LEMMA InkTop ==
    ASSUME NEW t, NEW f, NEW a, f.fn = "top"
    PROVE  Ink(t, f, a) = Join(Items(Recite[Len(t)], f.vals))
  BY DEF Ink

LEMMA InkObjectNext ==
    ASSUME NEW t, NEW f, f.fn = "object"
    PROVE  Ink(t, f, "object") = Cat(Mark("{"), Join(Properties(Recite[Len(t)], f.props)))
  BY DEF Ink

LEMMA InkObject ==
    ASSUME NEW t, NEW f, NEW a, f.fn = "object", a # "object"
    PROVE  Ink(t, f, a) = Cat(Mark("{"), Cat(Join(Properties(Recite[Len(t)], f.props)),
               Cat(InQuotes(f.key), Cat(Mark(":"), Join(Items(Recite[Len(t)], f.vals))))))
  BY DEF Ink

LEMMA InkLabel ==
    ASSUME NEW t, NEW f, NEW a, NEW b, f.fn = "object" => a # "object" /\ b # "object"
    PROVE  Ink(t, f, a) = Ink(t, f, b)
  BY DEF Ink

\* The same text, and its essence, otherwise grouped.
LEMMA GroupFive ==
    ASSUME NEW a \in Chars, NEW b \in Chars, NEW c \in Chars, NEW d \in Chars, NEW e \in Chars
    PROVE  /\ Cat(a, Cat(b, Cat(c, Cat(d, e)))) = Cat(Cat(a, Cat(b, Cat(c, d))), e)
           /\ Cat(a, Cat(b, Cat(c, Cat(d, e)))) = Cat(a, Cat(b, Cat(Cat(c, d), e)))
           /\ Cat(a, Cat(b, Cat(c, d))) \in Chars
  <1>1. Cat(c, d) \in Chars /\ Cat(d, e) \in Chars /\ Cat(c, Cat(d, e)) = Cat(Cat(c, d), e)
    BY CatAssoc, CatChars
  <1>2. /\ Cat(b, Cat(c, d)) \in Chars
        /\ Cat(b, Cat(Cat(c, d), e)) = Cat(Cat(b, Cat(c, d)), e)
    BY <1>1, CatAssoc, CatChars
  <1>3. /\ Cat(a, Cat(b, Cat(c, d))) \in Chars
        /\ Cat(a, Cat(Cat(b, Cat(c, d)), e)) = Cat(Cat(a, Cat(b, Cat(c, d))), e)
    BY <1>2, CatAssoc, CatChars
  <1> QED
    BY <1>1, <1>2, <1>3

LEMMA GroupFour ==
    ASSUME NEW a \in Chars, NEW b \in Chars, NEW c \in Chars, NEW d \in Chars
    PROVE  /\ Cat(a, Cat(b, Cat(c, Cat(d, <<>>)))) = Cat(Cat(Cat(a, b), c), d)
           /\ Essence(Cat(Cat(Cat(a, b), c), d))
                 = Cat(Cat(Essence(Cat(a, b)), Essence(c)), Essence(d))
  <1>1. Cat(d, <<>>) = d
    BY CatEmpty
  <1>2. Cat(a, b) \in Chars /\ Cat(Cat(a, b), c) \in Chars
    BY CatChars
  <1>3. Cat(a, Cat(b, Cat(c, d))) = Cat(Cat(a, b), Cat(c, d))
    BY CatAssoc, CatChars
  <1>4. Cat(Cat(a, b), Cat(c, d)) = Cat(Cat(Cat(a, b), c), d)
    BY <1>2, CatAssoc
  <1>5. Essence(Cat(Cat(Cat(a, b), c), d)) = Cat(Essence(Cat(Cat(a, b), c)), Essence(d))
    BY <1>2, CatEssence
  <1>6. Essence(Cat(Cat(a, b), c)) = Cat(Essence(Cat(a, b)), Essence(c))
    BY <1>2, CatEssence
  <1> QED
    BY <1>1, <1>3, <1>4, <1>5, <1>6

LEMMA SameEssence ==
    ASSUME NEW a \in Chars, NEW b \in Chars, NEW c \in Chars, NEW d \in Chars,
           Essence(d) = Cat(Essence(b), Essence(c))
    PROVE  Essence(Cat(a, Cat(b, c))) = Essence(Cat(a, d))
  BY CatEssence, CatChars

LEMMA InkChars ==
    ASSUME NEW t \in Chars, NEW f, Typed(f, JSONs[Len(t)]),
           f.fn \in {"top", "array", "object"}, NEW a
    PROVE  Ink(t, f, a) \in Chars
  <1>1. PICK v, p, k : /\ v = Join(Items(Recite[Len(t)], f.vals))
                       /\ p = Join(Properties(Recite[Len(t)], f.props)) /\ k = InQuotes(f.key)
    OBVIOUS
  <1>2. v \in Chars /\ p \in Chars /\ k \in Chars
    BY <1>1, InkParts
  <1>3. PICK l, m, n : l = Mark("[") /\ m = Mark("{") /\ n = Mark(":")
    OBVIOUS
  <1>4. l \in Chars /\ m \in Chars /\ n \in Chars
    BY <1>3, MarkIn
  <1>5. CASE f.fn = "array"
    <2>1. Ink(t, f, a) = Cat(l, v)
      BY <1>1, <1>3, <1>5, InkArray
    <2> QED
      BY <1>2, <1>4, <2>1, CatChars
  <1>6. CASE f.fn = "top"
    BY <1>1, <1>2, <1>6, InkTop
  <1>7. CASE f.fn = "object" /\ a = "object"
    <2>1. Ink(t, f, a) = Cat(m, p)
      BY <1>1, <1>3, <1>7, InkObjectNext
    <2> QED
      BY <1>2, <1>4, <2>1, CatChars
  <1>8. CASE f.fn = "object" /\ a # "object"
    <2>1. Ink(t, f, a) = Cat(m, Cat(p, Cat(k, Cat(n, v))))
      BY <1>1, <1>3, <1>8, InkObject
    <2>2. Cat(n, v) \in Chars
      BY <1>2, <1>4, CatChars
    <2>3. Cat(k, Cat(n, v)) \in Chars
      BY <1>2, <2>2, CatChars
    <2>4. Cat(p, Cat(k, Cat(n, v))) \in Chars
      BY <1>2, <2>3, CatChars
    <2> QED
      BY <1>4, <2>1, <2>4, CatChars
  <1> QED
    BY <1>5, <1>6, <1>7, <1>8

LEMMA NoItems ==
    ASSUME NEW w
    PROVE  Join(Items(w, <<>>)) = <<>> /\ Join(Properties(w, <<>>)) = <<>>
  BY JoinEmpty DEF Items, Properties

LEMMA FirstItem ==
    ASSUME NEW S, NEW w \in [S -> Chars], NEW v \in S, NEW vs, vs = <<v>>
    PROVE  Join(Items(w, vs)) = w[v]
  <1>1. PICK no : no = <<>>
    OBVIOUS
  <1>2. no \in Seq(S) /\ Len(no) + 1 = 1
    BY <1>1
  <1>3. Grown(vs, no, v)
    BY <1>1, AppendFirst DEF Grown
  <1>4. Join(Items(w, vs)) = Cat(Cat(Join(Items(w, no)), Sep(1)), w[v]) /\ w[v] \in Chars
    BY <1>2, <1>3, ItemsMore
  <1>5. Join(Items(w, no)) = <<>> /\ Sep(1) = <<>> /\ <<>> \in Chars
    BY <1>1, NoItems, NoChars DEF Sep
  <1> QED
    BY <1>4, <1>5, CatEmpty

\* A value more, and what is read of it.
LEMMA InkAppend ==
    ASSUME NEW t \in Chars, NEW f, Typed(f, JSONs[Len(t)]),
           f.fn \in {"top", "array", "object"}, NEW v \in JSONs[Len(t)],
           NEW g, g.fn = f.fn, Grown(g.vals, f.vals, v), g.props = f.props, g.key = f.key
    PROVE  Essence(Ink(t, g, "after")) = Cat(Essence(Ink(t, f, "after")), Essence(Recite[Len(t)][v]))
  <1>1. PICK S, w : S = JSONs[Len(t)] /\ w = Recite[Len(t)]
    OBVIOUS
  <1>2. w \in [S -> Chars] /\ f.vals \in Seq(S) /\ v \in S
    BY <1>1, Writer DEF Typed
  <1>3. PICK old, new, x : /\ old = Join(Items(w, f.vals)) /\ new = Join(Items(w, g.vals))
                           /\ x = w[v]
    OBVIOUS
  <1>4. old \in Chars /\ x \in Chars /\ new \in Chars /\ new = Cat(Cat(old, Sep(Len(f.vals) + 1)), x)
    BY <1>2, <1>3, ItemsMore
  <1>5. Essence(new) = Cat(Essence(old), Essence(x))
    BY <1>4, JoinedEssence
  <1>6. Essence(old) \in Chars /\ Essence(x) \in Chars
    BY <1>4, EssenceChars
  <1>7. ASSUME NEW h \in Chars
        PROVE  Essence(Cat(h, new)) = Cat(Essence(Cat(h, old)), Essence(x))
    BY <1>4, <1>5, <1>6, CatEssence, CatAssoc, EssenceChars
  <1>8. CASE f.fn = "array"
    <2>1. Ink(t, f, "after") = Cat(Mark("["), old)
      BY <1>1, <1>3, <1>8, InkArray
    <2>2. Ink(t, g, "after") = Cat(Mark("["), new)
      BY <1>1, <1>3, <1>8, InkArray
    <2>3. Mark("[") \in Chars
      BY MarkIn
    <2>4. Essence(Cat(Mark("["), new)) = Cat(Essence(Cat(Mark("["), old)), Essence(x))
      BY <1>7, <2>3
    <2> QED
      BY <1>1, <1>3, <2>1, <2>2, <2>4
  <1>9. CASE f.fn = "top"
    BY <1>1, <1>3, <1>5, <1>9, InkTop
  <1>10. CASE f.fn = "object"
    <2>1. PICK m, p, k, n : /\ m = Mark("{") /\ p = Join(Properties(Recite[Len(t)], f.props))
                            /\ k = InQuotes(f.key) /\ n = Mark(":")
      OBVIOUS
    <2>2. m \in Chars /\ p \in Chars /\ k \in Chars /\ n \in Chars
      BY <2>1, InkParts, MarkIn
    <2>3. Ink(t, f, "after") = Cat(m, Cat(p, Cat(k, Cat(n, old))))
      BY <1>1, <1>3, <1>10, <2>1, InkObject
    <2>4. Ink(t, g, "after") = Cat(m, Cat(p, Cat(k, Cat(n, new))))
      <3>1. /\ g.fn = "object" /\ p = Join(Properties(Recite[Len(t)], g.props))
            /\ k = InQuotes(g.key) /\ new = Join(Items(Recite[Len(t)], g.vals))
        BY <1>1, <1>3, <1>10, <2>1
      <3>2. Ink(t, g, "after") = Cat(Mark("{"), Cat(Join(Properties(Recite[Len(t)], g.props)),
               Cat(InQuotes(g.key), Cat(Mark(":"), Join(Items(Recite[Len(t)], g.vals))))))
        BY <3>1, InkObject
      <3> QED
        BY <2>1, <3>1, <3>2
    <2>5. PICK h : h = Cat(m, Cat(p, Cat(k, n)))
      OBVIOUS
    <2>6. h \in Chars
      BY <1>4, <2>2, <2>5, GroupFive
    <2>7. Cat(m, Cat(p, Cat(k, Cat(n, old)))) = Cat(h, old)
      BY <1>4, <2>2, <2>5, GroupFive
    <2>8. Cat(m, Cat(p, Cat(k, Cat(n, new)))) = Cat(h, new)
      BY <1>4, <2>2, <2>5, GroupFive
    <2> QED
      BY <1>1, <1>3, <1>7, <2>3, <2>4, <2>6, <2>7, <2>8
  <1> QED
    BY <1>8, <1>9, <1>10

\* An array or an object that is closed.
LEMMA InkArr ==
    ASSUME NEW t \in Chars, NEW f, f.fn = "array", Typed(f, JSONs[Len(t)]), NEW a,
           Arr(f.vals) \in JSONs[Len(t)]
    PROVE  Essence(Recite[Len(t)][Arr(f.vals)]) = Cat(Essence(Ink(t, f, a)), Mark("]"))
  <1>1. Recite[Len(t)][Arr(f.vals)] = <<"[">> \o Join(Items(Recite[Len(t)], f.vals)) \o <<"]">>
    BY Writer, Recital DEF Typed
  <1>2. Recite[Len(t)][Arr(f.vals)] = Cat(Ink(t, f, a), Mark("]"))
    BY <1>1, InkArray DEF Cat, Mark
  <1>3. Ink(t, f, a) \in Chars
    BY InkChars
  <1> QED
    BY <1>2, <1>3, CatEssence, MarkIn, MarkInked

LEMMA InkObj ==
    ASSUME NEW t \in Chars, NEW ps \in Seq(Pairs(JSONs[Len(t)])), Obj(ps) \in JSONs[Len(t)]
    PROVE  /\ Cat(Mark("{"), Join(Properties(Recite[Len(t)], ps))) \in Chars
           /\ Essence(Recite[Len(t)][Obj(ps)])
                 = Cat(Essence(Cat(Mark("{"), Join(Properties(Recite[Len(t)], ps)))), Mark("}"))
  <1>1. PICK S, w, p : S = JSONs[Len(t)] /\ w = Recite[Len(t)] /\ p = Join(Properties(w, ps))
    OBVIOUS
  <1>2. w \in [S -> Chars] /\ ps \in Seq(Pairs(S))
    BY <1>1, Writer
  <1>3. p \in Chars
    BY <1>1, <1>2, PropertiesChars, JoinChars DEF Pairs
  <1>4. w[Obj(ps)] = <<"{">> \o p \o <<"}">>
    BY <1>1, Writer, Recital DEF Pairs
  <1>5. w[Obj(ps)] = Cat(Cat(Mark("{"), p), Mark("}"))
    BY <1>4 DEF Cat, Mark
  <1>6. Cat(Mark("{"), p) \in Chars
    BY <1>3, CatChars, MarkIn
  <1>7. Essence(w[Obj(ps)]) = Cat(Essence(Cat(Mark("{"), p)), Mark("}"))
    BY <1>5, <1>6, CatEssence, MarkIn, MarkInked
  <1> QED
    BY <1>1, <1>6, <1>7

\* A key that is read.
LEMMA InkKey ==
    ASSUME NEW t \in Chars, NEW f, f.fn = "object", Typed(f, JSONs[Len(t)]), NEW k \in Chars
    PROVE  /\ Typed(Keyed(f, k), JSONs[Len(t)])
           /\ Essence(Ink(t, Keyed(f, k), "parse"))
                 = Cat(Cat(Essence(Ink(t, f, "object")), Essence(InQuotes(k))), Mark(":"))
  <1>1. PICK g : g = Keyed(f, k)
    OBVIOUS
  <1>2. g.fn = f.fn /\ g.vals = <<>> /\ g.props = f.props /\ g.key = k
    BY <1>1 DEF Keyed
  <1>3. Typed(g, JSONs[Len(t)])
    BY <1>2 DEF Typed
  <1>4. PICK m, p, q, n : /\ m = Mark("{") /\ p = Join(Properties(Recite[Len(t)], f.props))
                          /\ q = InQuotes(k) /\ n = Mark(":")
    OBVIOUS
  <1>5. m \in Chars /\ p \in Chars /\ q \in Chars /\ n \in Chars /\ Essence(n) = n
    BY <1>4, InkParts, InQuotesChars, MarkIn, MarkInked
  <1>6. Ink(t, g, "parse") = Cat(m, Cat(p, Cat(q, Cat(n, <<>>))))
    <2>1. <<>> = Join(Items(Recite[Len(t)], g.vals))
      BY <1>2, NoItems
    <2>2. g.fn = "object" /\ p = Join(Properties(Recite[Len(t)], g.props)) /\ q = InQuotes(g.key)
      BY <1>2, <1>4
    <2>3. Ink(t, g, "parse") = Cat(Mark("{"), Cat(Join(Properties(Recite[Len(t)], g.props)),
             Cat(InQuotes(g.key), Cat(Mark(":"), Join(Items(Recite[Len(t)], g.vals))))))
      BY <2>2, InkObject
    <2> QED
      BY <1>4, <2>1, <2>2, <2>3
  <1>7. Ink(t, f, "object") = Cat(m, p)
    BY <1>4, InkObjectNext
  <1>8. Ink(t, g, "parse") = Cat(Cat(Cat(m, p), q), n)
    BY <1>5, <1>6, GroupFour
  <1>9. Essence(Cat(Cat(Cat(m, p), q), n)) = Cat(Cat(Essence(Cat(m, p)), Essence(q)), Essence(n))
    BY <1>5, GroupFour
  <1> QED
    BY <1>1, <1>3, <1>4, <1>5, <1>7, <1>8, <1>9

LEMMA JoinProperties ==
    ASSUME NEW S, NEW w \in [S -> Chars], NEW ps \in Seq(Pairs(S)), NEW p \in Pairs(S),
           NEW qs, Grown(qs, ps, p)
    PROVE  Join(Properties(w, qs)) = Cat(Cat(Join(Properties(w, ps)), Sep(Len(ps) + 1)), Property(w, p))
  BY PropertiesMore

\* A property whose value is read.
LEMMA InkProperty ==
    ASSUME NEW t \in Chars, NEW f, f.fn = "object", Typed(f, JSONs[Len(t)]),
           NEW v, f.vals = <<v>>, NEW x, x = <<f.key, v>>, NEW ps, Grown(ps, f.props, x)
    PROVE  /\ v \in JSONs[Len(t)] /\ ps \in Seq(Pairs(JSONs[Len(t)]))
           /\ Essence(Cat(Mark("{"), Join(Properties(Recite[Len(t)], ps)))) = Essence(Ink(t, f, "after"))
  <1>1. PICK S, w : S = JSONs[Len(t)] /\ w = Recite[Len(t)]
    OBVIOUS
  <1>2. PICK key, props : key = f.key /\ props = f.props
    OBVIOUS
  <1>3. w \in [S -> Chars] /\ <<v>> \in Seq(S) /\ props \in Seq(Pairs(S)) /\ key \in Chars
    BY <1>1, <1>2, Writer DEF Typed
  <1>4. v \in S
    BY <1>3
  <1>5. x = <<key, v>>
    BY <1>2
  <1>6. x \in Pairs(S) /\ x[1] = key /\ x[2] = v
    BY <1>3, <1>4, <1>5 DEF Pairs
  <1>7. PICK p, q, y, z, all : /\ p = Join(Properties(w, props)) /\ q = InQuotes(key) /\ y = w[v]
                               /\ z = Property(w, x) /\ all = Join(Properties(w, ps))
    OBVIOUS
  <1>8. Grown(ps, props, x)
    BY <1>2
  <1>9. ps \in Seq(Pairs(S)) /\ p \in Chars /\ z \in Chars
    BY <1>3, <1>6, <1>7, <1>8, PropertiesMore
  <1>10. all = Cat(Cat(p, Sep(Len(props) + 1)), z)
    <2>1. Join(Properties(w, ps))
             = Cat(Cat(Join(Properties(w, props)), Sep(Len(props) + 1)), Property(w, x))
      BY <1>3, <1>6, <1>8, JoinProperties
    <2> QED
      BY <1>7, <2>1
  <1>11. PICK m, n : m = Mark("{") /\ n = Mark(":")
    OBVIOUS
  <1>12. q \in Chars /\ y \in Chars /\ m \in Chars /\ n \in Chars
    BY <1>3, <1>4, <1>7, <1>11, InQuotesChars, MarkIn
  <1>13. z = Cat(Cat(q, n), y)
    BY <1>6, <1>7, <1>11 DEF Property, Cat, Mark
  <1>14. all \in Chars /\ Essence(all) = Cat(Essence(p), Essence(z))
    BY <1>9, <1>10, JoinedEssence
  <1>15. Join(Items(w, f.vals)) = y
    BY <1>3, <1>4, <1>7, FirstItem
  <1>16. Ink(t, f, "after") = Cat(m, Cat(p, Cat(q, Cat(n, y))))
    <2>1. /\ p = Join(Properties(Recite[Len(t)], f.props)) /\ q = InQuotes(f.key)
          /\ y = Join(Items(Recite[Len(t)], f.vals))
      BY <1>1, <1>2, <1>7, <1>15
    <2> QED
      BY <1>11, <2>1, InkObject
  <1>17. Ink(t, f, "after") = Cat(m, Cat(p, z))
    BY <1>9, <1>12, <1>13, <1>16, GroupFive
  <1>18. Essence(Cat(m, Cat(p, z))) = Essence(Cat(m, all))
    BY <1>9, <1>12, <1>14, SameEssence
  <1> QED
    BY <1>1, <1>4, <1>7, <1>9, <1>11, <1>17, <1>18

-----------------------------------------------------------------------------
(* The account of the calls under way: from where to where each has read.  *)

\* The call with frame f at label a has read t from p up to q.
Fits(t, f, a, p, q) == p <= q /\ Essence(Ink(t, f, a)) = Between(t, p, q)

Marked(t, st, a, p, c) ==
    /\ c \in [1 .. Len(st) -> 1 .. Len(t) + 1] /\ c[1] = 1
    /\ \A k \in 1 .. Len(st) - 1 : Fits(t, st[k], "after", c[k], c[k + 1])
    /\ Fits(t, st[Len(st)], a, c[Len(st)], p)

Account(t, st, a, p) == \E c : Marked(t, st, a, p, c)

Places(t) == 1 .. Len(t) + 1

AllTyped(st, S) ==
    \A k \in 1 .. Len(st) : Typed(st[k], S) /\ st[k].fn \in {"top", "array", "object"}

LEMMA MarkedSet ==
    ASSUME NEW t, NEW st, IsSeq(st), Len(st) >= 1, NEW a, NEW p, NEW c, Marked(t, st, a, p, c),
           NEW f, NEW b, NEW q, Fits(t, f, b, c[Len(st)], q)
    PROVE  Marked(t, [st EXCEPT ![Len(st)] = f], b, q, c)
  <1>1. Len(st) \in Nat /\ Len(st) \in 1 .. Len(st)
    BY LenNat
  <1>2. PICK s : s = [st EXCEPT ![Len(st)] = f]
    OBVIOUS
  <1>3. Len(s) = Len(st) /\ s[Len(st)] = f /\ \A k \in 1 .. Len(st) : k # Len(st) => s[k] = st[k]
    BY <1>1, <1>2, ExceptAny
  <1>4. \A k \in 1 .. Len(st) - 1 : s[k] = st[k]
    BY <1>1, <1>3
  <1>5. Marked(t, s, b, q, c)
    BY <1>3, <1>4 DEF Marked
  <1> QED
    BY <1>2, <1>5

LEMMA MarkedPush ==
    ASSUME NEW t, NEW st, IsSeq(st), Len(st) >= 1, NEW a, NEW p, NEW c, Marked(t, st, a, p, c),
           NEW r \in Places(t), Fits(t, st[Len(st)], "after", c[Len(st)], r),
           NEW f, NEW b, NEW q, Fits(t, f, b, r, q)
    PROVE  Account(t, Append(st, f), b, q)
  <1>1. PICK n : n = Len(st)
    OBVIOUS
  <1>2. n \in Nat /\ n >= 1
    BY <1>1, LenNat
  <1>3. PICK s : s = Append(st, f)
    OBVIOUS
  <1>4. Len(s) = n + 1 /\ s[n + 1] = f /\ \A k \in 1 .. n : s[k] = st[k]
    BY <1>1, <1>3, AppendAny
  <1>5. PICK d : d = [k \in 1 .. n + 1 |-> IF k = n + 1 THEN r ELSE c[k]]
    OBVIOUS
  <1>6. /\ c \in [1 .. n -> Places(t)] /\ c[1] = 1
        /\ \A k \in 1 .. n - 1 : Fits(t, st[k], "after", c[k], c[k + 1])
        /\ Fits(t, st[n], "after", c[n], r)
    BY <1>1 DEF Marked, Places
  <1>7. d \in [1 .. n + 1 -> Places(t)] /\ d[n + 1] = r /\ \A k \in 1 .. n : d[k] = c[k]
    BY <1>2, <1>5, <1>6
  <1>8. ASSUME NEW k \in 1 .. n PROVE Fits(t, s[k], "after", d[k], d[k + 1])
    <2>1. CASE k = n
      BY <1>2, <1>4, <1>6, <1>7, <2>1
    <2>2. CASE k # n
      <3>1. k \in 1 .. n - 1 /\ k + 1 \in 1 .. n
        BY <1>2, <2>2
      <3> QED
        BY <1>4, <1>6, <1>7, <3>1
    <2> QED
      BY <2>1, <2>2
  <1>9. Fits(t, s[n + 1], b, d[n + 1], q)
    BY <1>4, <1>7
  <1>10. d[1] = 1
    BY <1>2, <1>6, <1>7
  <1>11. (n + 1) - 1 = n
    BY <1>2
  <1>12. Marked(t, s, b, q, d)
    BY <1>4, <1>7, <1>8, <1>9, <1>10, <1>11 DEF Marked, Places
  <1> QED
    BY <1>3, <1>12 DEF Account

LEMMA MarkedPop ==
    ASSUME NEW t, NEW st, IsSeq(st), Len(st) > 1, NEW a, NEW p, NEW c, Marked(t, st, a, p, c)
    PROVE  Account(t, Front(st), "after", c[Len(st)])
  <1>1. PICK n : n = Len(st)
    OBVIOUS
  <1>2. n \in Nat /\ n > 1
    BY <1>1, LenNat
  <1>3. PICK s : s = Front(st)
    OBVIOUS
  <1>4. Len(s) = n - 1 /\ \A k \in 1 .. n - 1 : s[k] = st[k]
    BY <1>1, <1>3, FrontAny
  <1>5. PICK d : d = [k \in 1 .. n - 1 |-> c[k]]
    OBVIOUS
  <1>6. /\ c \in [1 .. n -> Places(t)] /\ c[1] = 1
        /\ \A k \in 1 .. n - 1 : Fits(t, st[k], "after", c[k], c[k + 1])
    BY <1>1 DEF Marked, Places
  <1>7. d \in [1 .. n - 1 -> Places(t)] /\ \A k \in 1 .. n - 1 : d[k] = c[k]
    BY <1>2, <1>5, <1>6
  <1>8. ASSUME NEW k \in 1 .. (n - 1) - 1 PROVE Fits(t, s[k], "after", d[k], d[k + 1])
    <2>1. k \in 1 .. n - 1 /\ k + 1 \in 1 .. n - 1
      BY <1>2
    <2> QED
      BY <1>4, <1>6, <1>7, <2>1
  <1>9. Fits(t, s[n - 1], "after", d[n - 1], c[n])
    <2>1. n - 1 \in 1 .. n - 1 /\ (n - 1) + 1 = n
      BY <1>2
    <2> QED
      BY <1>4, <1>6, <1>7, <2>1
  <1>10. d[1] = 1
    BY <1>2, <1>6, <1>7
  <1>11. Marked(t, s, "after", c[n], d)
    BY <1>4, <1>7, <1>8, <1>9, <1>10 DEF Marked, Places
  <1> QED
    BY <1>1, <1>3, <1>11 DEF Account

LEMMA MarkedTop ==
    ASSUME NEW t, NEW st, IsSeq(st), Len(st) >= 1, NEW a, NEW p, NEW c, Marked(t, st, a, p, c)
    PROVE  /\ c[Len(st)] \in Places(t) /\ c[Len(st)] <= p
           /\ Essence(Ink(t, st[Len(st)], a)) = Between(t, c[Len(st)], p)
           /\ Len(st) \in Nat
  <1>1. Len(st) \in Nat /\ Len(st) \in 1 .. Len(st)
    BY LenNat
  <1> QED
    BY <1>1 DEF Marked, Fits, Places

\* The innermost call reads on, from p to q.
LEMMA FitsMore ==
    ASSUME NEW t \in Chars, NEW x \in Places(t), NEW p \in Places(t), NEW q \in Places(t),
           x <= p, p <= q, NEW f, NEW a, NEW g, NEW b,
           Essence(Ink(t, f, a)) = Between(t, x, p),
           Essence(Ink(t, g, b)) = Cat(Essence(Ink(t, f, a)), Between(t, p, q))
    PROVE  Fits(t, g, b, x, q)
  <1>1. Len(t) \in Nat
    BY CharsAre
  <1>2. x \in 1 .. Len(t) + 1 /\ p \in x .. Len(t) + 1 /\ q \in p .. Len(t) + 1 /\ x <= q
    BY <1>1 DEF Places
  <1>3. Between(t, x, q) = Cat(Between(t, x, p), Between(t, p, q))
    BY <1>2, BetweenCat
  <1> QED
    BY <1>2, <1>3 DEF Fits

LEMMA AccountSet ==
    ASSUME NEW t \in Chars, NEW st, IsSeq(st), Len(st) >= 1, NEW a, NEW p \in Places(t),
           NEW q \in Places(t), p <= q, Account(t, st, a, p), NEW f, NEW b,
           Essence(Ink(t, f, b)) = Cat(Essence(Ink(t, st[Len(st)], a)), Between(t, p, q))
    PROVE  Account(t, [st EXCEPT ![Len(st)] = f], b, q)
  <1>1. PICK c : Marked(t, st, a, p, c)
    BY DEF Account
  <1>2. PICK x, g : x = c[Len(st)] /\ g = st[Len(st)]
    OBVIOUS
  <1>3. x \in Places(t) /\ x <= p /\ Essence(Ink(t, g, a)) = Between(t, x, p)
    BY <1>1, <1>2, MarkedTop
  <1>4. Fits(t, f, b, x, q)
    BY <1>2, <1>3, FitsMore
  <1>5. Marked(t, [st EXCEPT ![Len(st)] = f], b, q, c)
    BY <1>1, <1>2, <1>4, MarkedSet
  <1> QED
    BY <1>5 DEF Account

\* Nothing but space and commas is read.
LEMMA AccountGoto ==
    ASSUME NEW t \in Chars, NEW st, IsSeq(st), Len(st) >= 1, NEW a, NEW p \in Places(t),
           NEW q \in Places(t), p <= q, Account(t, st, a, p), Between(t, p, q) = <<>>, NEW b,
           Ink(t, st[Len(st)], b) = Ink(t, st[Len(st)], a), Ink(t, st[Len(st)], a) \in Chars
    PROVE  Account(t, st, b, q)
  <1>1. PICK c : Marked(t, st, a, p, c)
    BY DEF Account
  <1>2. PICK x, g : x = c[Len(st)] /\ g = st[Len(st)]
    OBVIOUS
  <1>3. x \in Places(t) /\ x <= p /\ Essence(Ink(t, g, a)) = Between(t, x, p)
    BY <1>1, <1>2, MarkedTop
  <1>4. Essence(Ink(t, g, b)) = Cat(Essence(Ink(t, g, a)), Between(t, p, q))
    BY <1>2, CatEmpty, EssenceChars
  <1>5. Fits(t, g, b, x, q)
    BY <1>3, <1>4, FitsMore
  <1>6. Marked(t, st, b, q, c)
    BY <1>1, <1>2, <1>5 DEF Marked
  <1> QED
    BY <1>6 DEF Account

\* A call begins, which has read its bracket.
LEMMA AccountPush ==
    ASSUME NEW t \in Chars, NEW st, IsSeq(st), Len(st) >= 1, NEW p \in Places(t),
           NEW q \in Places(t), p <= q, Account(t, st, "after", p), NEW f, NEW b,
           Essence(Ink(t, f, b)) = Between(t, p, q)
    PROVE  Account(t, Append(st, f), b, q)
  <1>1. PICK c : Marked(t, st, "after", p, c)
    BY DEF Account
  <1>2. Fits(t, st[Len(st)], "after", c[Len(st)], p)
    BY <1>1 DEF Marked
  <1>3. Fits(t, f, b, p, q)
    BY DEF Fits
  <1> QED
    BY <1>1, <1>2, <1>3, MarkedPush

\* The calls st have read up to a place from which s is what t says up to q.
Awaits(t, st, s, q) ==
    \E x \in Places(t) : /\ x <= q /\ Account(t, st, "after", x)
                         /\ Essence(s) = Between(t, x, q)

\* A call ends, and its caller takes what it has read.
LEMMA AccountPop ==
    ASSUME NEW t \in Chars, NEW st, IsSeq(st), Len(st) > 1, NEW a, NEW p \in Places(t),
           NEW q \in Places(t), p <= q, Account(t, st, a, p), NEW s \in Chars,
           Essence(s) = Cat(Essence(Ink(t, st[Len(st)], a)), Between(t, p, q))
    PROVE  Awaits(t, Front(st), s, q)
  <1>1. PICK c : Marked(t, st, a, p, c)
    BY DEF Account
  <1>2. PICK x, g : x = c[Len(st)] /\ g = st[Len(st)]
    OBVIOUS
  <1>3. Len(st) >= 1
    BY LenNat
  <1>4. x \in Places(t) /\ x <= p /\ Essence(Ink(t, g, a)) = Between(t, x, p)
    BY <1>1, <1>2, <1>3, MarkedTop
  <1>5. Len(t) \in Nat
    BY CharsAre
  <1>6. x \in 1 .. Len(t) + 1 /\ p \in x .. Len(t) + 1 /\ q \in p .. Len(t) + 1 /\ x <= q
    BY <1>4, <1>5 DEF Places
  <1>7. Between(t, x, q) = Cat(Between(t, x, p), Between(t, p, q))
    BY <1>6, BetweenCat
  <1>8. Account(t, Front(st), "after", x)
    BY <1>1, <1>2, MarkedPop
  <1> QED
    BY <1>2, <1>4, <1>6, <1>7, <1>8 DEF Awaits

-----------------------------------------------------------------------------
(* What the parser has read and what it has made of it.                    *)

LEMMA InPlaces == ASSUME NEW p, InText(p) PROVE p \in Places(text)
  BY DEF InText, Places

LEMMA CharAt ==
    ASSUME TextOK, NEW p, InText(p), Ch(p) \in Symbols
    PROVE  /\ p \in 1 .. Len(text) /\ p + 1 \in Places(text) /\ p \in Places(text)
           /\ text[p] = Ch(p) /\ text \in Chars /\ Len(text) \in Nat
  BY StepOver DEF Places, TextOK

LEMMA SpaceSkipped ==
    ASSUME TextOK, NEW p, InText(p), NEW q, q = SkipSpace(p)
    PROVE  p <= q /\ InText(q) /\ Between(text, p, q) = <<>>
  <1>1. PICK n : n = Len(text)
    OBVIOUS
  <1>2. q \in p .. n + 1 /\ \A r \in p .. q - 1 : Ch(r) \in {" "}
    BY <1>1, PastIs DEF SkipSpace, NUL, kEOF
  <1>3. InText(q)
    BY SkipSpaceInText
  <1>4. text \in Chars /\ n \in Nat
    BY <1>1 DEF TextOK
  <1>5. p \in 1 .. n + 1 /\ q \in 1 .. n + 1
    BY <1>1, <1>3 DEF InText
  <1>6. (end # Nowhere => q <= end /\ end \in 1 .. n + 1)
    BY <1>1, <1>3 DEF InText, TextOK
  <1>7. ASSUME NEW r \in p .. q - 1 PROVE text[r] = " "
    <2>1. Ch(r) = " "
      BY <1>2
    <2>2. r \in 1 .. n + 1 /\ r <= q
      BY <1>4, <1>5
    <2>3. end # Nowhere => r <= end
      BY <1>4, <1>5, <1>6, <2>2
    <2>4. InText(r)
      BY <1>1, <2>2, <2>3 DEF InText
    <2> QED
      BY <2>1, <2>4, StepOver DEF Symbols
  <1>8. BlankIn(text, p, q)
    BY <1>7 DEF BlankIn
  <1>9. q \in p .. n + 1
    BY <1>2
  <1>10. p <= q
    BY <1>4, <1>5, <1>9
  <1> QED
    BY <1>1, <1>10, <1>9, <1>3, <1>4, <1>5, <1>8, <1>9, BetweenBlank

LEMMA NumberRead ==
    ASSUME TextOK, NEW p, InText(p), Ch(p) \in {"d", "-"}, NEW q, q = NumberEnd(p)
    PROVE  p <= q /\ InText(q)
  <1> DEFINE s == IF Ch(p) = "-" THEN p + 1 ELSE p
             i == Past({"d"}, s)
  <1>1. InText(s) /\ p <= s
    <2>1. p \in Int
      BY DEF InText
    <2>2. InText(p + 1)
      BY StepOver DEF Symbols
    <2> QED
      BY <2>1, <2>2
  <1>2. InText(i) /\ s <= i
    <2> HIDE DEF s
    <2>1. InText(i)
      BY <1>1, PastInText DEF NUL, kEOF
    <2>2. i \in s .. Len(text) + 1
      BY <1>1, PastIs DEF NUL, kEOF
    <2> QED
      BY <1>1, <2>1, <2>2 DEF InText
  <1> HIDE DEF i
  <1>3. Ch(i) = "." => InText(i + 1)
    BY <1>2, StepOver DEF Symbols
  <1>4. Ch(i) = "." => Past({"d"}, i + 1) \in i + 1 .. Len(text) + 1
    BY <1>3, PastIs DEF NUL, kEOF
  <1>5. q = IF Ch(i) = "." THEN Past({"d"}, i + 1) ELSE i
    BY DEF NumberEnd, i
  <1>6. InText(q)
    BY NumberEndInText
  <1>7. p \in Int /\ s \in Int /\ i \in Int
    BY <1>1, <1>2 DEF InText
  <1> HIDE DEF s
  <1> QED
    BY <1>1, <1>2, <1>4, <1>5, <1>6, <1>7

LEMMA SpanInked ==
    ASSUME TextOK, NEW p, InText(p), NEW q, InText(q), p <= q,
           NEW t, t = SubSeq(text, p, q - 1)
    PROVE  t \in Chars /\ Essence(t) = Between(text, p, q)
  <1>1. text \in Chars /\ p \in 1 .. Len(text) + 1 /\ q \in p .. Len(text) + 1
    BY DEF TextOK, InText
  <1> QED
    BY <1>1, SubSeqChars DEF Between

\* A string that is closed, with its quotes.
LEMMA StringInked ==
    ASSUME TextOK, NEW p, InText(p), Ch(p) = "q", Closed(p),
           NEW t, t = StringText(p), NEW q, q = StringEnd(p) + 1
    PROVE  /\ p < q /\ InText(q) /\ t \in Chars
           /\ Essence(InQuotes(t)) = Between(text, p, q)
  <1>1. PICK e : e = StringEnd(p)
    OBVIOUS
  <1>2. e # 0 /\ Ch(e) = "q" /\ InText(e) /\ e >= p + 1
    BY <1>1, StringEndInText DEF Closed
  <1>3. InText(q)
    BY <1>1, ClosedInText
  <1>4. /\ p \in 1 .. Len(text) /\ text[p] = "q" /\ text \in Chars /\ Len(text) \in Nat
        /\ e \in 1 .. Len(text) /\ text[e] = "q"
    BY <1>2, CharAt DEF Symbols
  <1>5. t = SubSeq(text, p + 1, e - 1) /\ q = e + 1
    BY <1>1 DEF StringText
  <1>6. /\ p + 1 \in 1 .. Len(text) + 1 /\ e \in p + 1 .. Len(text) + 1 /\ q \in e .. Len(text) + 1
        /\ p + 1 \in p .. Len(text) + 1 /\ q \in p + 1 .. Len(text) + 1
        /\ p \in 1 .. Len(text) + 1 /\ e \in 1 .. Len(text) + 1
    BY <1>2, <1>4, <1>5
  <1>7. t \in Chars /\ Essence(t) = Between(text, p + 1, e)
    BY <1>4, <1>5, <1>6, SubSeqChars DEF Between
  <1>8. Between(text, p, p + 1) = Mark("q") /\ Between(text, e, q) = Mark("q")
    BY <1>4, <1>5, BetweenOne
  <1>9. PICK m, u : m = Mark("q") /\ u = Essence(t)
    OBVIOUS
  <1>10. m \in Chars /\ Essence(m) = m /\ u \in Chars
    BY <1>7, <1>9, MarkIn, MarkInked, EssenceChars
  <1>11. Between(text, p + 1, q) = Cat(u, m)
    <2>1. Between(text, p + 1, q) = Cat(Between(text, p + 1, e), Between(text, e, q))
      BY <1>4, <1>6, BetweenCat
    <2> QED
      BY <1>7, <1>8, <1>9, <2>1
  <1>12. Between(text, p, q) = Cat(m, Cat(u, m))
    <2>1. Between(text, p, q) = Cat(Between(text, p, p + 1), Between(text, p + 1, q))
      BY <1>4, <1>6, BetweenCat
    <2> QED
      BY <1>8, <1>9, <1>11, <2>1
  <1>13. InQuotes(t) = Cat(Cat(m, t), m)
    BY <1>9 DEF InQuotes, Cat, Mark
  <1>14. Essence(InQuotes(t)) = Cat(Cat(m, u), m)
    BY <1>7, <1>9, <1>10, <1>13, CatEssence, CatChars
  <1>15. p < q
    BY <1>2, <1>4, <1>5
  <1> QED
    BY <1>3, <1>7, <1>10, <1>12, <1>14, <1>15, CatAssoc

-----------------------------------------------------------------------------
(* Depth: a value nests no deeper than what has been read for it.          *)

LEMMA SeqGrows ==
    ASSUME NEW S, NEW T, S \subseteq T
    PROVE  Seq(S) \subseteq Seq(T) /\ Seq(Pairs(S)) \subseteq Seq(Pairs(T))
  BY SeqMonotonic DEF Pairs

LEMMA TypedGrows ==
    ASSUME NEW S, NEW T, S \subseteq T, NEW st, AllTyped(st, S)
    PROVE  AllTyped(st, T)
  BY SeqGrows DEF AllTyped, Typed

LEMMA TypedPush ==
    ASSUME NEW S, NEW st, IsSeq(st), AllTyped(st, S), NEW f, Typed(f, S),
           f.fn \in {"top", "array", "object"}
    PROVE  AllTyped(Append(st, f), S)
  <1>1. PICK s : s = Append(st, f)
    OBVIOUS
  <1>2. /\ Len(s) = Len(st) + 1 /\ Len(st) \in Nat /\ s[Len(st) + 1] = f
        /\ \A k \in 1 .. Len(st) : s[k] = st[k]
    BY <1>1, AppendAny
  <1>3. \A k \in 1 .. Len(s) : k = Len(st) + 1 \/ k \in 1 .. Len(st)
    BY <1>2
  <1> QED
    BY <1>1, <1>2, <1>3 DEF AllTyped

LEMMA TypedPop ==
    ASSUME NEW S, NEW st, IsSeq(st), Len(st) > 1, AllTyped(st, S)
    PROVE  AllTyped(Front(st), S)
  <1>1. PICK s : s = Front(st)
    OBVIOUS
  <1>2. Len(s) = Len(st) - 1 /\ Len(st) \in Nat /\ \A k \in 1 .. Len(st) - 1 : s[k] = st[k]
    BY <1>1, FrontAny
  <1>3. \A k \in 1 .. Len(s) : k \in 1 .. Len(st) /\ k \in 1 .. Len(st) - 1
    BY <1>2
  <1> QED
    BY <1>1, <1>2, <1>3 DEF AllTyped

LEMMA TypedSet ==
    ASSUME NEW S, NEW st, IsSeq(st), Len(st) >= 1, AllTyped(st, S), NEW f, Typed(f, S),
           f.fn \in {"top", "array", "object"}
    PROVE  AllTyped([st EXCEPT ![Len(st)] = f], S)
  <1>1. PICK s : s = [st EXCEPT ![Len(st)] = f]
    OBVIOUS
  <1>2. Len(st) \in 1 .. Len(st)
    BY LenNat
  <1>3. /\ Len(s) = Len(st) /\ s[Len(st)] = f
        /\ \A k \in 1 .. Len(st) : k # Len(st) => s[k] = st[k]
    BY <1>1, <1>2, ExceptAny
  <1> QED
    BY <1>1, <1>3 DEF AllTyped

LEMMA TypedTop ==
    ASSUME NEW S, NEW st, IsSeq(st), Len(st) >= 1, AllTyped(st, S)
    PROVE  Typed(st[Len(st)], S) /\ st[Len(st)].fn \in {"top", "array", "object"}
  <1>1. Len(st) \in 1 .. Len(st)
    BY LenNat
  <1> QED
    BY <1>1 DEF AllTyped

LEMMA TypedFrame ==
    ASSUME NEW S, NEW fn
    PROVE  /\ Typed(Frame(fn), S) /\ Frame(fn).fn = fn
           /\ Frame(fn).vals = <<>> /\ Frame(fn).props = <<>>
  BY NoChars DEF Typed, Frame

\* p - 1 characters have been read, of all of text.
LEMMA Deep ==
    ASSUME NEW t \in Chars, NEW p \in Places(t), NEW q \in Places(t), p <= q
    PROVE  /\ p - 1 \in Nat /\ q - 1 \in Nat
           /\ JSONs[p - 1] \subseteq JSONs[q - 1] /\ JSONs[q - 1] \subseteq JSONs[Len(t)]
  <1>1. Len(t) \in Nat
    BY CharsAre
  <1>2. p - 1 \in Nat /\ q - 1 \in Nat /\ p - 1 <= q - 1 /\ q - 1 <= Len(t)
    BY <1>1 DEF Places
  <1> QED
    BY <1>1, <1>2, JSONsUpTo

-----------------------------------------------------------------------------
(* The invariant behind NothingInvented.                                   *)

ReadSoFar ==
    at # "done" =>
        /\ AllTyped(stack, JSONs[pos - 1]) /\ Account(text, stack, at, pos)
        /\ at \in {"array", "object"} => Top.fn = at

LEMMA MadeFails ==
    ASSUME at' = "done", result' = <<"error">> \/ result' = <<"undefined">>
    PROVE  (ReadSoFar /\ NothingInvented)'
  BY DEF ReadSoFar, NothingInvented, Failed

LEMMA MadeGoesOn ==
    ASSUME UNCHANGED Input, NEW st, NEW a, a # "done", NEW p,
           AllTyped(st, JSONs[p - 1]), Account(text, st, a, p),
           a \in {"array", "object"} => st[Len(st)].fn = a,
           stack' = st, at' = a, pos' = p
    PROVE  (ReadSoFar /\ NothingInvented)'
  BY DEF ReadSoFar, NothingInvented, Input, Top

\* Where the innermost call stands, once space is skipped.
LEMMA Arrived ==
    ASSUME IInv, ReadSoFar, at # "done", NEW p, p = Here
    PROVE  /\ InText(p) /\ p \in Places(text) /\ pos \in Places(text) /\ pos <= p
           /\ TextOK /\ text \in Chars /\ IsSeq(stack) /\ Len(stack) >= 1 /\ Frames(stack)
           /\ AllTyped(stack, JSONs[p - 1]) /\ AllTyped(stack, JSONs[pos - 1])
           /\ Account(text, stack, at, p) /\ Account(text, stack, at, pos)
  <1>1. /\ InText(pos) /\ TextOK /\ text \in Chars
        /\ IsSeq(stack) /\ Len(stack) >= 1 /\ Frames(stack)
    BY DEF IInv, TextOK, Frames
  <1>2. pos <= p /\ InText(p) /\ Between(text, pos, p) = <<>>
    BY <1>1, SpaceSkipped DEF Here
  <1>3. p \in Places(text) /\ pos \in Places(text)
    BY <1>1, <1>2, InPlaces
  <1>4. AllTyped(stack, JSONs[pos - 1]) /\ Account(text, stack, at, pos)
    BY DEF ReadSoFar
  <1>5. /\ JSONs[pos - 1] \subseteq JSONs[p - 1] /\ JSONs[p - 1] \subseteq JSONs[Len(text)]
    BY <1>1, <1>2, <1>3, Deep
  <1>6. AllTyped(stack, JSONs[p - 1]) /\ AllTyped(stack, JSONs[Len(text)])
    BY <1>4, <1>5, TypedGrows
  <1>7. Typed(stack[Len(stack)], JSONs[Len(text)])
        /\ stack[Len(stack)].fn \in {"top", "array", "object"}
    BY <1>1, <1>6, TypedTop
  <1>8. Ink(text, stack[Len(stack)], at) \in Chars
    BY <1>1, <1>7, InkChars
  <1>9. Account(text, stack, at, p)
    BY <1>1, <1>2, <1>3, <1>4, <1>8, AccountGoto
  <1> QED
    BY <1>1, <1>2, <1>3, <1>4, <1>6, <1>9

\* What is said of the innermost call at one label, at another.
LEMMA Relabel ==
    ASSUME NEW t, NEW st, NEW a, NEW p, Account(t, st, a, p), NEW b,
           st[Len(st)].fn = "object" => a # "object" /\ b # "object"
    PROVE  Account(t, st, b, p)
  <1>1. Ink(t, st[Len(st)], a) = Ink(t, st[Len(st)], b)
    BY InkLabel
  <1> QED
    BY <1>1 DEF Account, Marked, Fits

LEMMA NextPlace ==
    ASSUME NEW n \in Nat, NEW p \in 1 .. n
    PROVE  /\ p \in 1 .. n + 1 /\ p + 1 \in 1 .. n + 1 /\ p + 1 \in p .. n + 1
           /\ p <= p + 1 /\ (p + 1) - 1 = p /\ \A r \in p .. (p + 1) - 1 : r = p
  OBVIOUS

\* A comma is read.
LEMMA CommaRead ==
    ASSUME NEW t \in Chars, NEW p \in 1 .. Len(t), t[p] = ",",
           NEW st, IsSeq(st), Len(st) >= 1, AllTyped(st, JSONs[p - 1]), NEW a, Account(t, st, a, p)
    PROVE  AllTyped(st, JSONs[(p + 1) - 1]) /\ Account(t, st, a, p + 1)
  <1>1. Len(t) \in Nat
    BY CharsAre
  <1>2. /\ p \in Places(t) /\ p + 1 \in Places(t) /\ p <= p + 1
        /\ p \in 1 .. Len(t) + 1 /\ p + 1 \in p .. Len(t) + 1
    BY <1>1, NextPlace DEF Places
  <1>3. BlankIn(t, p, p + 1)
    <2>1. \A r \in p .. (p + 1) - 1 : r = p
      BY <1>1, NextPlace
    <2> QED
      BY <2>1 DEF BlankIn
  <1>4. Between(t, p, p + 1) = <<>>
    BY <1>2, <1>3, BetweenBlank
  <1>5. JSONs[p - 1] \subseteq JSONs[(p + 1) - 1] /\ JSONs[p - 1] \subseteq JSONs[Len(t)]
    BY <1>2, Deep
  <1>6. AllTyped(st, JSONs[(p + 1) - 1]) /\ AllTyped(st, JSONs[Len(t)])
    BY <1>5, TypedGrows
  <1>7. Typed(st[Len(st)], JSONs[Len(t)]) /\ st[Len(st)].fn \in {"top", "array", "object"}
    BY <1>6, TypedTop
  <1>8. Ink(t, st[Len(st)], a) \in Chars
    BY <1>7, InkChars
  <1> QED
    BY <1>2, <1>4, <1>6, <1>8, AccountGoto

\* The value v, read from x up to q, goes to the innermost call of st.
LEMMA MadeDeliver ==
    ASSUME UNCHANGED Input, text \in Chars, NEW st, Frames(st),
           NEW q \in Places(text), AllTyped(st, JSONs[q - 1]),
           NEW x \in Places(text), x <= q, Account(text, st, "after", x),
           NEW v \in JSONs[q - 1], Essence(Recite[Len(text)][v]) = Between(text, x, q),
           Deliver(v, q, st)
    PROVE  (ReadSoFar /\ NothingInvented)'
  <1>1. IsSeq(st) /\ Len(st) >= 1 /\ Len(st) \in Nat /\ Len(st) \in 1 .. Len(st)
    BY LenNat DEF Frames
  <1>2. PICK f : f = st[Len(st)]
    OBVIOUS
  <1>3. IsFrame(f) /\ Typed(f, JSONs[q - 1]) /\ f.fn \in {"top", "array", "object"}
    BY <1>1, <1>2, TypedTop DEF Frames
  <1>4. PICK g : g = [f EXCEPT !.vals = Append(f.vals, v)]
    OBVIOUS
  <1>5. g.fn = f.fn /\ Grown(g.vals, f.vals, v) /\ g.props = f.props /\ g.key = f.key
    BY <1>3, <1>4 DEF IsFrame, Grown
  <1>6. Typed(g, JSONs[q - 1])
    <2>1. PICK S, us, vs : S = JSONs[q - 1] /\ us = g.vals /\ vs = f.vals
      OBVIOUS
    <2>2. us \in Seq(S)
      <3>1. vs \in Seq(S) /\ v \in S /\ us = Append(vs, v)
        BY <1>3, <1>5, <2>1 DEF Typed, Grown
      <3> QED
        BY <3>1, AppendProperties
    <2> QED
      BY <1>3, <1>5, <2>1, <2>2 DEF Typed
  <1>7. JSONs[q - 1] \subseteq JSONs[Len(text)]
    BY Deep
  <1>8. AllTyped(st, JSONs[Len(text)]) /\ v \in JSONs[Len(text)]
    BY <1>7, TypedGrows
  <1>9. Typed(f, JSONs[Len(text)])
    BY <1>1, <1>2, <1>8, TypedTop
  <1>10. Essence(Ink(text, g, "after")) = Cat(Essence(Ink(text, f, "after")), Between(text, x, q))
    BY <1>3, <1>5, <1>8, <1>9, InkAppend
  <1>11. PICK s : s = [st EXCEPT ![Len(st)] = g]
    OBVIOUS
  <1>12. Account(text, s, "after", q)
    BY <1>1, <1>2, <1>10, <1>11, AccountSet
  <1>13. AllTyped(s, JSONs[q - 1])
    BY <1>1, <1>3, <1>5, <1>6, <1>11, TypedSet
  <1>14. stack' = s /\ at' = "after" /\ pos' = q
    BY <1>2, <1>4, <1>11 DEF Deliver
  <1> QED
    BY <1>12, <1>13, <1>14, MadeGoesOn

\* The innermost call ends at p, where its bracket is, and returns v.
LEMMA MadeClose ==
    ASSUME UNCHANGED Input, IInv, Len(stack) > 1, NEW p, InText(p),
           NEW a, AllTyped(stack, JSONs[p - 1]), Account(text, stack, a, p),
           NEW c \in {"]", "}"}, Ch(p) = c, NEW v \in JSONs[p],
           Essence(Recite[Len(text)][v]) = Cat(Essence(Ink(text, Top, a)), Mark(c)),
           Close(v, p)
    PROVE  (ReadSoFar /\ NothingInvented)'
  <1>1. /\ p \in 1 .. Len(text) /\ p + 1 \in Places(text) /\ p \in Places(text)
        /\ text[p] = c /\ text \in Chars /\ Len(text) \in Nat
    BY CharAt DEF IInv, Symbols
  <1>2. p <= p + 1 /\ (p + 1) - 1 = p
    BY <1>1, NextPlace
  <1>3. Between(text, p, p + 1) = Mark(c)
    BY <1>1, BetweenOne
  <1>4. v \in JSONs[(p + 1) - 1] /\ JSONs[p - 1] \subseteq JSONs[(p + 1) - 1]
        /\ JSONs[(p + 1) - 1] \subseteq JSONs[Len(text)]
    BY <1>1, <1>2, Deep
  <1>5. PICK s : s = Recite[Len(text)][v]
    OBVIOUS
  <1>6. s \in Chars
    BY <1>1, <1>4, <1>5, Writer
  <1>7. IsSeq(stack)
    BY DEF IInv, Frames
  <1>8. Essence(s) = Cat(Essence(Ink(text, stack[Len(stack)], a)), Between(text, p, p + 1))
    BY <1>3, <1>5 DEF Top
  <1>9. AllTyped(Front(stack), JSONs[(p + 1) - 1])
    BY <1>4, <1>7, TypedGrows, TypedPop
  <1>10. Frames(Front(stack))
    BY FramesPop DEF IInv
  <1>11. Deliver(v, p + 1, Front(stack))
    BY DEF Close
  <1>12. PICK x \in Places(text) : /\ x <= p + 1 /\ Account(text, Front(stack), "after", x)
                                   /\ Essence(s) = Between(text, x, p + 1)
    <2>1. PICK q : q = p + 1
      OBVIOUS
    <2>2. q \in Places(text) /\ p <= q
      BY <1>1, <1>2, <2>1
    <2>3. Essence(s) = Cat(Essence(Ink(text, stack[Len(stack)], a)), Between(text, p, q))
      BY <1>8, <2>1
    <2>4. Awaits(text, Front(stack), s, q)
      BY <1>1, <1>6, <1>7, <2>2, <2>3, AccountPop
    <2> QED
      BY <2>1, <2>4 DEF Awaits
  <1> QED
    BY <1>1, <1>4, <1>5, <1>9, <1>10, <1>11, <1>12, MadeDeliver

\* The innermost call goes on from p, and reads nothing.
LEMMA MadeGoto ==
    ASSUME UNCHANGED Input, NEW a, a # "done", NEW p,
           AllTyped(stack, JSONs[p - 1]), Account(text, stack, a, p),
           a \in {"array", "object"} => Top.fn = a, Goto(a, p)
    PROVE  (ReadSoFar /\ NothingInvented)'
  BY MadeGoesOn DEF Goto, Top

LEMMA MadeError ==
    ASSUME NEW p, Error(p) PROVE (ReadSoFar /\ NothingInvented)'
  BY MadeFails DEF Error

LEMMA MadeUnclosed ==
    ASSUME NEW p, Unclosed(p) PROVE (ReadSoFar /\ NothingInvented)'
  BY MadeFails DEF Error, Overrun, Unclosed

-----------------------------------------------------------------------------
(* Each step keeps the account.                                            *)

\* parse() returns a value that is read at once.
LEMMA MadeLeaf ==
    ASSUME IInv, ReadSoFar, at = "parse", UNCHANGED Input, NEW p, p = Here,
           NEW q, InText(q), p <= q, NEW v, v \in JSONs[q - 1],
           Essence(Recite[Len(text)][v]) = Between(text, p, q), Deliver(v, q, stack)
    PROVE  (ReadSoFar /\ NothingInvented)'
  <1>1. /\ p \in Places(text) /\ text \in Chars /\ Frames(stack)
        /\ AllTyped(stack, JSONs[p - 1]) /\ Account(text, stack, "parse", p)
    BY Arrived
  <1>2. Account(text, stack, "after", p)
    BY <1>1, Relabel
  <1>3. q \in Places(text)
    BY InPlaces
  <1>4. JSONs[p - 1] \subseteq JSONs[q - 1]
    BY <1>1, <1>3, Deep
  <1>5. AllTyped(stack, JSONs[q - 1])
    BY <1>1, <1>4, TypedGrows
  <1> QED
    BY <1>1, <1>2, <1>3, <1>5, MadeDeliver

\* The simple values are values at any depth, and their writing is known.
LEMMA Leaf ==
    ASSUME NEW t \in Chars, NEW q \in Places(t)
    PROVE  /\ \A w \in Words : Word(w) \in JSONs[q - 1] /\ Recite[Len(t)][Word(w)] = w
           /\ \A s \in Chars : /\ Num(s) \in JSONs[q - 1] /\ Recite[Len(t)][Num(s)] = s
                               /\ Quoted(s) \in JSONs[q - 1] /\ Recite[Len(t)][Quoted(s)] = InQuotes(s)
  <1>1. Len(t) \in Nat /\ q - 1 \in Nat
    BY Deep, Writer DEF Places
  <1> QED
    BY <1>1, JSONsMade, Recital DEF Mark

LEMMA WordRead ==
    ASSUME TextOK, InText(Here), NEW w \in Words, Agrees(w, Len(w)),
           NEW p, p = Here, NEW q, q = p + Len(w)
    PROVE  p <= q /\ InText(q) /\ SubSeq(text, p, q - 1) = w
  <1>1. w \in Seq(Letters) /\ Len(w) \in Nat /\ Len(w) \in 0 .. Len(w)
    BY WordsAre
  <1>2. InText(q) /\ \A i \in 1 .. Len(w) : text[p + i - 1] = w[i]
    BY <1>1, WordInText
  <1>3. text \in Seq(Alphabet) /\ p \in 1 .. Len(text) + 1 /\ q - 1 \in p - 1 .. Len(text)
        /\ p <= q
    BY <1>1, <1>2 DEF InText, TextOK, Chars
  <1> DEFINE s == SubSeq(text, p, q - 1)
  <1>4. /\ s \in Seq(Alphabet) /\ Len(s) = Len(w)
        /\ \A i \in 1 .. Len(w) : s[i] = text[p + i - 1]
    <2>1. p \in Nat /\ q - 1 \in Nat /\ p \in 1 .. Len(text) + 1 /\ q - 1 \in p - 1 .. Len(text)
          /\ (q - 1) - p + 1 = Len(w)
      BY <1>1, <1>3
    <2> QED
      BY <1>1, <1>3, <2>1, SubSeqProperties
  <1> HIDE DEF s
  <1>5. s = w
    <2>1. w \in Seq(Alphabet)
      BY WordsAre DEF Chars
    <2> QED
      BY <1>2, <1>4, <2>1, SeqEqual
  <1> QED
    BY <1>2, <1>3, <1>5 DEF s

LEMMA MadeWord ==
    ASSUME IInv, ReadSoFar, UNCHANGED Input, ParseWord
    PROVE  (ReadSoFar /\ NothingInvented)'
  <1>1. ASSUME NEW w \in Words, Agrees(w, Len(w)), Deliver(Word(w), Here + Len(w), stack)
        PROVE  (ReadSoFar /\ NothingInvented)'
    <2>1. PICK p, q : p = Here /\ q = p + Len(w)
      OBVIOUS
    <2>2. at = "parse" /\ Deliver(Word(w), q, stack)
      BY <1>1, <2>1 DEF ParseWord
    <2>3. InText(p) /\ TextOK /\ text \in Chars
      BY <2>1, <2>2, Arrived
    <2>4. p <= q /\ InText(q) /\ w = SubSeq(text, p, q - 1)
      BY <1>1, <2>1, <2>3, WordRead
    <2>5. Essence(w) = Between(text, p, q)
      BY <2>1, <2>3, <2>4, SpanInked
    <2>6. q \in Places(text)
      BY <2>4, InPlaces
    <2>7. Word(w) \in JSONs[q - 1] /\ Recite[Len(text)][Word(w)] = w
      BY <2>3, <2>6, Leaf
    <2> QED
      BY <2>1, <2>2, <2>4, <2>5, <2>7, MadeLeaf
  <1> QED
    BY <1>1, MadeError DEF ParseWord

LEMMA MadeNumber ==
    ASSUME IInv, ReadSoFar, UNCHANGED Input, ParseNumber
    PROVE  (ReadSoFar /\ NothingInvented)'
  <1>1. PICK p, q, t : p = Here /\ q = NumberEnd(p) /\ t = SubSeq(text, p, q - 1)
    OBVIOUS
  <1>2. at = "parse" /\ Ch(p) \in {"d", "-"} /\ Deliver(Num(t), q, stack)
    BY <1>1 DEF ParseNumber
  <1>3. InText(p) /\ TextOK /\ text \in Chars
    BY <1>1, <1>2, Arrived
  <1>4. p <= q /\ InText(q)
    BY <1>1, <1>2, <1>3, NumberRead
  <1>5. t \in Chars /\ Essence(t) = Between(text, p, q)
    BY <1>1, <1>3, <1>4, SpanInked
  <1>6. q \in Places(text)
    BY <1>4, InPlaces
  <1>7. Num(t) \in JSONs[q - 1] /\ Recite[Len(text)][Num(t)] = t
    BY <1>3, <1>5, <1>6, Leaf
  <1> QED
    BY <1>1, <1>2, <1>4, <1>5, <1>7, MadeLeaf

LEMMA MadeString ==
    ASSUME IInv, ReadSoFar, UNCHANGED Input, ParseString
    PROVE  (ReadSoFar /\ NothingInvented)'
  <1>1. CASE Closed(Here) /\ Deliver(Quoted(StringText(Here)), StringEnd(Here) + 1, stack)
    <2>1. PICK p, q, t : p = Here /\ q = StringEnd(p) + 1 /\ t = StringText(p)
      OBVIOUS
    <2>2. at = "parse" /\ Ch(p) = "q" /\ Closed(p) /\ Deliver(Quoted(t), q, stack)
      BY <1>1, <2>1 DEF ParseString
    <2>3. InText(p) /\ TextOK /\ text \in Chars
      BY <2>1, <2>2, Arrived
    <2>4. p < q /\ InText(q) /\ t \in Chars /\ Essence(InQuotes(t)) = Between(text, p, q)
      BY <2>1, <2>2, <2>3, StringInked
    <2>5. q \in Places(text) /\ p <= q
      BY <2>3, <2>4, InPlaces DEF InText
    <2>6. Quoted(t) \in JSONs[q - 1] /\ Recite[Len(text)][Quoted(t)] = InQuotes(t)
      BY <2>3, <2>4, <2>5, Leaf
    <2> QED
      BY <2>1, <2>2, <2>4, <2>5, <2>6, MadeLeaf
  <1>2. CASE Unclosed(Here)
    BY <1>2, MadeUnclosed
  <1> QED
    BY <1>1, <1>2 DEF ParseString

LEMMA MadeEnter ==
    ASSUME IInv, ReadSoFar, UNCHANGED Input, EnterArray \/ EnterObject
    PROVE  (ReadSoFar /\ NothingInvented)'
  <1>1. PICK p, q, fn, c : /\ p = Here /\ q = p + 1 /\ at = "parse" /\ Ch(p) = c /\ Enter(fn, p)
                           /\ ((fn = "array" /\ c = "[") \/ (fn = "object" /\ c = "{"))
    BY DEF EnterArray, EnterObject
  <1>2. /\ p \in Places(text) /\ text \in Chars /\ IsSeq(stack) /\ Len(stack) >= 1
        /\ AllTyped(stack, JSONs[p - 1]) /\ Account(text, stack, "parse", p)
        /\ InText(p) /\ TextOK
    BY <1>1, Arrived
  <1>3. p \in 1 .. Len(text) /\ text[p] = c /\ Len(text) \in Nat
    BY <1>1, <1>2, CharAt DEF Symbols
  <1>4. q \in Places(text) /\ p <= q
    BY <1>1, <1>3, NextPlace DEF Places
  <1>5. Account(text, stack, "after", p)
    BY <1>2, Relabel
  <1>6. PICK f : f = Frame(fn)
    OBVIOUS
  <1>7. Typed(f, JSONs[q - 1]) /\ f.fn = fn /\ f.vals = <<>> /\ f.props = <<>>
    BY <1>6, TypedFrame
  <1>8. Ink(text, f, fn) = Cat(Mark(c), <<>>)
    <2>1. CASE fn = "array"
      BY <1>1, <1>7, <2>1, InkArray, NoItems
    <2>2. CASE fn = "object"
      BY <1>1, <1>7, <2>2, InkObjectNext, NoItems
    <2> QED
      BY <1>1, <2>1, <2>2
  <1>9. Mark(c) \in Chars /\ Essence(Mark(c)) = Mark(c) /\ c # " " /\ c # ","
    BY <1>1, MarkIn, MarkInked
  <1>10. Between(text, p, q) = Mark(c)
    BY <1>1, <1>2, <1>3, <1>9, BetweenOne
  <1>11. Essence(Ink(text, f, fn)) = Between(text, p, q)
    BY <1>8, <1>9, <1>10, CatEmpty
  <1>12. PICK st : st = Append(stack, f)
    OBVIOUS
  <1>13. Account(text, st, fn, q)
    BY <1>2, <1>4, <1>5, <1>11, <1>12, AccountPush
  <1>14. JSONs[p - 1] \subseteq JSONs[q - 1]
    BY <1>2, <1>4, Deep
  <1>15. AllTyped(stack, JSONs[q - 1])
    BY <1>2, <1>14, TypedGrows
  <1>16. f.fn \in {"top", "array", "object"}
    BY <1>1, <1>7
  <1>17. AllTyped(st, JSONs[q - 1])
    BY <1>2, <1>7, <1>12, <1>15, <1>16, TypedPush
  <1>18. st[Len(st)] = f
    BY <1>2, <1>12, AppendAny
  <1>19. stack' = st /\ at' = fn /\ pos' = q /\ fn # "done"
    BY <1>1, <1>6, <1>12 DEF Enter
  <1> QED
    BY <1>7, <1>13, <1>17, <1>18, <1>19, MadeGoesOn

LEMMA MadeComma ==
    ASSUME IInv, ReadSoFar, UNCHANGED Input, ParseComma
    PROVE  (ReadSoFar /\ NothingInvented)'
  <1>1. CASE Depth = 0
    BY <1>1, MadeError DEF ParseComma
  <1>2. CASE Depth # 0
    <2>1. PICK p : p = Here
      OBVIOUS
    <2>2. at = "parse" /\ Ch(p) = "," /\ Goto("after", p + 1)
      BY <1>2, <2>1 DEF ParseComma
    <2>3. /\ text \in Chars /\ IsSeq(stack) /\ Len(stack) >= 1
          /\ AllTyped(stack, JSONs[p - 1]) /\ Account(text, stack, "parse", p)
          /\ InText(p) /\ TextOK
      BY <2>1, <2>2, Arrived
    <2>4. p \in 1 .. Len(text) /\ text[p] = ","
      BY <2>2, <2>3, CharAt DEF Symbols
    <2>5. Account(text, stack, "after", p)
      BY <2>3, Relabel
    <2>6. AllTyped(stack, JSONs[(p + 1) - 1]) /\ Account(text, stack, "after", p + 1)
      BY <2>3, <2>4, <2>5, CommaRead
    <2> QED
      BY <2>2, <2>6, MadeGoto
  <1> QED
    BY <1>1, <1>2

\* The frame of the innermost call.
LEMMA TopTyped ==
    ASSUME IInv, NEW p \in Places(text), AllTyped(stack, JSONs[p - 1])
    PROVE  /\ Typed(Top, JSONs[p - 1]) /\ Typed(Top, JSONs[Len(text)]) /\ text \in Chars
           /\ JSONs[p - 1] \subseteq JSONs[Len(text)]
           /\ IsFrame(Top) /\ Len(stack) \in 1 .. Len(stack) /\ Len(stack) >= 1 /\ IsSeq(stack)
  <1>1. IsSeq(stack) /\ Len(stack) >= 1 /\ text \in Chars /\ Len(stack) \in 1 .. Len(stack)
    BY LenNat DEF IInv, Frames, TextOK
  <1>2. JSONs[p - 1] \subseteq JSONs[Len(text)]
    BY <1>1, Deep DEF Places
  <1>3. AllTyped(stack, JSONs[Len(text)])
    BY <1>2, TypedGrows
  <1> QED
    BY <1>1, <1>2, <1>3, TypedTop DEF Top, IInv, Frames

LEMMA OneUp ==
    ASSUME NEW t \in Chars, NEW p \in 1 .. Len(t)
    PROVE  /\ p - 1 \in Nat /\ p \in Nat /\ (p - 1) + 1 = p /\ JSONs[p] \subseteq JSONs[Len(t)]
           /\ p \in Places(t) /\ p + 1 \in Places(t) /\ p <= p + 1 /\ (p + 1) - 1 = p
           /\ JSONs[p - 1] \subseteq JSONs[(p + 1) - 1]
  <1>1. PICK n : n = Len(t)
    OBVIOUS
  <1>2. n \in Nat
    BY <1>1, CharsAre
  <1>3. /\ p - 1 \in Nat /\ p \in Nat /\ (p - 1) + 1 = p /\ p <= n /\ p - 1 <= p
        /\ p \in 1 .. n + 1 /\ p + 1 \in 1 .. n + 1 /\ p <= p + 1 /\ (p + 1) - 1 = p
    BY <1>1, <1>2
  <1>4. JSONs[p] \subseteq JSONs[n] /\ JSONs[p - 1] \subseteq JSONs[p]
    BY <1>2, <1>3, JSONsUpTo
  <1> QED
    BY <1>1, <1>3, <1>4 DEF Places

LEMMA MadeCloseArray ==
    ASSUME IInv, UNCHANGED Input, Top.fn = "array", NEW a, NEW p, InText(p), Ch(p) = "]",
           AllTyped(stack, JSONs[p - 1]), Account(text, stack, a, p), Close(Arr(Top.vals), p)
    PROVE  (ReadSoFar /\ NothingInvented)'
  <1>1. p \in 1 .. Len(text) /\ text \in Chars
    BY CharAt DEF IInv, Symbols
  <1>2. p \in Places(text)
    BY InPlaces
  <1>3. Typed(Top, JSONs[p - 1]) /\ Typed(Top, JSONs[Len(text)])
    BY <1>2, TopTyped
  <1>4. PICK vs : vs = Top.vals
    OBVIOUS
  <1>5. vs \in Seq(JSONs[p - 1])
    BY <1>3, <1>4 DEF Typed
  <1>6. Arr(vs) \in JSONs[p] /\ Arr(vs) \in JSONs[Len(text)]
    BY <1>1, <1>5, OneUp, JSONsMade
  <1>7. Essence(Recite[Len(text)][Arr(vs)]) = Cat(Essence(Ink(text, Top, a)), Mark("]"))
    BY <1>1, <1>3, <1>4, <1>6, InkArr
  <1>8. Len(stack) > 1
    BY InACall
  <1>9. PICK v : v = Arr(vs)
    OBVIOUS
  <1>10. /\ v \in JSONs[p] /\ Close(v, p) /\ "]" \in {"]", "}"}
         /\ Essence(Recite[Len(text)][v]) = Cat(Essence(Ink(text, Top, a)), Mark("]"))
    BY <1>4, <1>6, <1>7, <1>9
  <1> QED
    BY <1>8, <1>10, MadeClose

LEMMA MadeCloseObject ==
    ASSUME IInv, UNCHANGED Input, Top.fn = "object", NEW a, NEW p, InText(p), Ch(p) = "}",
           AllTyped(stack, JSONs[p - 1]), Account(text, stack, a, p),
           NEW ps \in Seq(Pairs(JSONs[p - 1])), Close(Obj(ps), p),
           Essence(Cat(Mark("{"), Join(Properties(Recite[Len(text)], ps)))) = Essence(Ink(text, Top, a))
    PROVE  (ReadSoFar /\ NothingInvented)'
  <1>1. p \in 1 .. Len(text) /\ text \in Chars
    BY CharAt DEF IInv, Symbols
  <1>2. JSONs[p - 1] \subseteq JSONs[Len(text)]
    BY <1>1, OneUp, Deep
  <1>3. ps \in Seq(Pairs(JSONs[Len(text)]))
    BY <1>2, SeqGrows
  <1>4. Obj(ps) \in JSONs[p] /\ Obj(ps) \in JSONs[Len(text)]
    <2>1. /\ p - 1 \in Nat /\ (p - 1) + 1 = p /\ JSONs[p] \subseteq JSONs[Len(text)]
      BY <1>1, OneUp
    <2>2. ps \in Seq(Chars \X JSONs[p - 1])
      BY DEF Pairs
    <2>3. Obj(ps) \in JSONs[(p - 1) + 1]
      BY <2>1, <2>2, JSONsMade
    <2> QED
      BY <2>1, <2>3
  <1>5. Essence(Recite[Len(text)][Obj(ps)]) = Cat(Essence(Ink(text, Top, a)), Mark("}"))
    BY <1>1, <1>3, <1>4, InkObj
  <1>6. Len(stack) > 1
    BY InACall
  <1>7. PICK v : v = Obj(ps)
    OBVIOUS
  <1>8. /\ v \in JSONs[p] /\ Close(v, p) /\ "}" \in {"]", "}"}
        /\ Essence(Recite[Len(text)][v]) = Cat(Essence(Ink(text, Top, a)), Mark("}"))
    BY <1>4, <1>5, <1>7
  <1> QED
    BY <1>6, <1>8, MadeClose

LEMMA MadeArray ==
    ASSUME IInv, ReadSoFar, UNCHANGED Input, ArrayItems \/ ArrayAfter
    PROVE  (ReadSoFar /\ NothingInvented)'
  <1>1. PICK p : p = Here
    OBVIOUS
  <1>2. at # "done" /\ Top.fn = "array" /\ at \in {"array", "after"}
    BY DEF ArrayItems, ArrayAfter, ReadSoFar
  <1>3. /\ InText(p) /\ TextOK /\ text \in Chars /\ IsSeq(stack) /\ Len(stack) >= 1
        /\ AllTyped(stack, JSONs[p - 1]) /\ AllTyped(stack, JSONs[pos - 1])
        /\ Account(text, stack, at, p) /\ Account(text, stack, at, pos)
    BY <1>1, <1>2, Arrived
  <1>4. InText(pos)
    BY <1>2 DEF IInv
  <1>5. ASSUME ArrayItems PROVE (ReadSoFar /\ NothingInvented)'
    <2>1. CASE Ch(p) = "]"
      BY <1>1, <1>2, <1>3, <1>5, <2>1, MadeCloseArray DEF ArrayItems
    <2>2. CASE Ch(p) # "]"
      <3>1. Goto("parse", p)
        BY <1>1, <1>5, <2>2 DEF ArrayItems
      <3>2. Account(text, stack, "parse", p)
        BY <1>2, <1>3, Relabel DEF Top
      <3> QED
        BY <1>3, <3>1, <3>2, MadeGoto
    <2> QED
      BY <2>1, <2>2
  <1>6. ASSUME ArrayAfter PROVE (ReadSoFar /\ NothingInvented)'
    <2>1. CASE Ch(pos) = "]" /\ Close(Arr(Top.vals), pos)
      BY <1>2, <1>3, <1>4, <2>1, MadeCloseArray
    <2>2. CASE Ch(p) = "," /\ Goto("array", p + 1)
      <3>1. p \in 1 .. Len(text) /\ text[p] = ","
        BY <1>3, <2>2, CharAt DEF Symbols
      <3>2. Account(text, stack, "array", p)
        BY <1>2, <1>3, Relabel DEF Top
      <3>3. AllTyped(stack, JSONs[(p + 1) - 1]) /\ Account(text, stack, "array", p + 1)
        BY <1>3, <3>1, <3>2, CommaRead
      <3> QED
        BY <1>2, <2>2, <3>3, MadeGoto
    <2>3. CASE Error(p)
      BY <2>3, MadeError
    <2> QED
      BY <1>1, <1>6, <2>1, <2>2, <2>3 DEF ArrayAfter
  <1> QED
    BY <1>5, <1>6

LEMMA NothingBetween ==
    ASSUME NEW t \in Chars, NEW q \in Places(t)
    PROVE  Between(t, q, q) = <<>>
  <1>1. PICK n : n = Len(t)
    OBVIOUS
  <1>2. n \in Nat /\ q \in 1 .. n + 1
    BY <1>1, CharsAre DEF Places
  <1>3. q \in q .. n + 1 /\ q .. q - 1 = {}
    BY <1>2
  <1>4. BlankIn(t, q, q)
    BY <1>3 DEF BlankIn
  <1> QED
    BY <1>1, <1>2, <1>3, <1>4, BetweenBlank

LEMMA OneValue ==
    ASSUME NEW S, NEW vs \in Seq(S), Len(vs) = 1
    PROVE  vs = <<vs[1]>>
  OBVIOUS

LEMMA MadeObjectAfter ==
    ASSUME IInv, ReadSoFar, UNCHANGED Input, ObjectAfter
    PROVE  (ReadSoFar /\ NothingInvented)'
  <1>1. PICK p, f : p = Here /\ f = Top
    OBVIOUS
  <1>2. at = "after" /\ f.fn = "object"
    BY <1>1 DEF ObjectAfter
  <1>3. /\ InText(p) /\ TextOK /\ text \in Chars /\ IsSeq(stack) /\ Len(stack) >= 1
        /\ p \in Places(text) /\ AllTyped(stack, JSONs[p - 1]) /\ Account(text, stack, "after", p)
    BY <1>1, <1>2, Arrived
  <1>4. CASE Len(f.vals) # 1
    BY <1>1, <1>4, MadeError DEF ObjectAfter
  <1>5. CASE Len(f.vals) = 1
    <2>1. PICK v, x, ps : v = f.vals[1] /\ x = <<f.key, v>> /\ ps = Append(f.props, x)
      OBVIOUS
    <2>2. /\ Typed(f, JSONs[p - 1]) /\ Typed(f, JSONs[Len(text)]) /\ IsFrame(f)
          /\ JSONs[p - 1] \subseteq JSONs[Len(text)]
      BY <1>1, <1>3, TopTyped
    <2>3. f.vals = <<v>> /\ v \in JSONs[p - 1]
      <3>1. PICK S, vs : S = JSONs[p - 1] /\ vs = f.vals
        OBVIOUS
      <3>2. vs \in Seq(S) /\ Len(vs) = 1 /\ v = vs[1]
        BY <1>5, <2>1, <2>2, <3>1 DEF Typed
      <3>3. vs = <<v>> /\ v \in S
        BY <3>2, OneValue
      <3> QED
        BY <3>1, <3>3
    <2>4. Grown(ps, f.props, x)
      BY <2>1 DEF Grown
    <2>5. Essence(Cat(Mark("{"), Join(Properties(Recite[Len(text)], ps)))) = Essence(Ink(text, f, "after"))
      BY <1>2, <1>3, <2>1, <2>2, <2>3, <2>4, InkProperty
    <2>6. ps \in Seq(Pairs(JSONs[p - 1]))
      <3>1. PICK T : T = Pairs(JSONs[p - 1])
        OBVIOUS
      <3>2. x \in T
        BY <2>1, <2>2, <2>3, <3>1 DEF Typed, Pairs
      <3>3. f.props \in Seq(T)
        BY <2>2, <3>1 DEF Typed
      <3>4. ps \in Seq(T)
        BY <2>1, <3>2, <3>3, AppendProperties
      <3> QED
        BY <3>1, <3>4
    <2>7. CASE Ch(p) = "}" /\ Close(Obj(ps), p)
      BY <1>1, <1>2, <1>3, <2>5, <2>6, <2>7, MadeCloseObject
    <2>8. CASE /\ Ch(p) = "," /\ stack' = [stack EXCEPT ![Len(stack)].props = ps]
               /\ at' = "object" /\ pos' = p + 1
      <3>1. p \in 1 .. Len(text) /\ text[p] = ","
        BY <1>3, <2>8, CharAt DEF Symbols
      <3>2. AllTyped(stack, JSONs[(p + 1) - 1]) /\ Account(text, stack, "after", p + 1)
        BY <1>3, <3>1, CommaRead
      <3>3. PICK g, q : g = [f EXCEPT !.props = ps] /\ q = p + 1
        OBVIOUS
      <3>4. g.fn = f.fn /\ g.vals = f.vals /\ g.props = ps /\ g.key = f.key
        BY <2>2, <3>3 DEF IsFrame
      <3>5. q \in Places(text) /\ JSONs[p - 1] \subseteq JSONs[q - 1] /\ q <= q
        <4>1. q \in Places(text) /\ JSONs[p - 1] \subseteq JSONs[q - 1]
          BY <1>3, <3>1, <3>3, OneUp
        <4>2. q \in Int
          BY <4>1 DEF Places
        <4> QED
          BY <4>1, <4>2
      <3>6. Typed(g, JSONs[q - 1])
        <4>1. Typed(g, JSONs[p - 1])
          BY <2>2, <2>6, <3>4 DEF Typed
        <4> QED
          BY <3>5, <4>1, SeqGrows DEF Typed
      <3>7. PICK st : st = [stack EXCEPT ![Len(stack)] = g]
        OBVIOUS
      <3>8. AllTyped(st, JSONs[q - 1])
        BY <1>2, <1>3, <3>2, <3>3, <3>4, <3>6, <3>7, TypedSet
      <3>9. Ink(text, g, "object") = Cat(Mark("{"), Join(Properties(Recite[Len(text)], ps)))
        BY <1>2, <3>4, InkObjectNext
      <3>10. Ink(text, f, "after") \in Chars
        BY <1>2, <1>3, <2>2, InkChars
      <3>11. Between(text, q, q) = <<>>
        BY <1>3, <3>5, NothingBetween
      <3>12. Essence(Ink(text, g, "object"))
                = Cat(Essence(Ink(text, stack[Len(stack)], "after")), Between(text, q, q))
        BY <1>1, <2>5, <3>9, <3>10, <3>11, EssenceChars, CatEmpty DEF Top
      <3>13. Account(text, st, "object", q)
        BY <1>3, <3>2, <3>3, <3>5, <3>7, <3>12, AccountSet
      <3>14. stack' = st /\ at' = "object" /\ pos' = q
        BY <1>1, <2>8, <3>3, <3>7 DEF Top
      <3>15. st[Len(st)].fn = "object"
        <4>1. Len(stack) \in 1 .. Len(stack)
          BY <1>3, LenNat
        <4>2. st[Len(st)] = g
          BY <1>3, <3>7, <4>1, ExceptAny
        <4> QED
          BY <1>2, <3>4, <4>2
      <3> QED
        BY <3>8, <3>13, <3>14, <3>15, MadeGoesOn
    <2>9. CASE Error(p)
      BY <2>9, MadeError
    <2> QED
      BY <1>1, <1>5, <2>1, <2>7, <2>8, <2>9 DEF ObjectAfter
  <1> QED
    BY <1>4, <1>5

LEMMA MadeColon ==
    ASSUME IInv, ReadSoFar, UNCHANGED Input, at = "object", NEW h, h = Here, Ch(h) = "q", Closed(h),
           NEW t, t = StringText(h), NEW e, e = StringEnd(h) + 1, ObjectColon(t, e)
    PROVE  (ReadSoFar /\ NothingInvented)'
  <1>1. PICK c, f : c = SkipSpace(e) /\ f = Top
    OBVIOUS
  <1>2. CASE Ch(c) = ":"
    <2>1. /\ InText(h) /\ h \in Places(text) /\ TextOK /\ text \in Chars /\ IsSeq(stack)
          /\ Len(stack) >= 1 /\ AllTyped(stack, JSONs[h - 1]) /\ Account(text, stack, "object", h)
      BY Arrived
    <2>2. f.fn = "object"
      BY <1>1 DEF ReadSoFar
    <2>3. h < e /\ InText(e) /\ t \in Chars /\ Essence(InQuotes(t)) = Between(text, h, e)
      BY <2>1, StringInked
    <2>4. e <= c /\ InText(c) /\ Between(text, e, c) = <<>>
      BY <1>1, <2>1, <2>3, SpaceSkipped
    <2>5. PICK q : q = c + 1
      OBVIOUS
    <2>6. c \in 1 .. Len(text) /\ text[c] = ":" /\ q \in Places(text)
      BY <1>2, <2>1, <2>4, <2>5, CharAt DEF Symbols
    <2>7. Between(text, c, q) = Mark(":")
      BY <2>1, <2>5, <2>6, BetweenOne
    <2>8. PICK n : n = Len(text)
      OBVIOUS
    <2>9. n \in Nat /\ h \in 1 .. n + 1 /\ e \in 1 .. n + 1 /\ c \in 1 .. n /\ q = c + 1
          /\ h < e /\ e <= c
      BY <2>1, <2>3, <2>4, <2>5, <2>6, <2>8, CharsAre DEF Places, InText
    <2>10. /\ e \in h .. n + 1 /\ q \in e .. n + 1 /\ c \in e .. n + 1 /\ q \in c .. n + 1 /\ h <= q
           /\ h \in 1 .. n + 1 /\ e \in 1 .. n + 1
      BY <2>9
    <2>11. PICK k, m : k = Essence(InQuotes(t)) /\ m = Mark(":")
      OBVIOUS
    <2>12. k \in Chars /\ m \in Chars
      BY <2>3, <2>11, InQuotesChars, EssenceChars, MarkIn
    <2>13. Between(text, e, q) = m
      <3>1. Between(text, e, q) = Cat(Between(text, e, c), Between(text, c, q))
        BY <2>1, <2>8, <2>10, BetweenCat
      <3> QED
        BY <2>4, <2>7, <2>11, <2>12, <3>1, CatEmpty
    <2>14. Between(text, h, q) = Cat(k, m)
      <3>1. Between(text, h, q) = Cat(Between(text, h, e), Between(text, e, q))
        BY <2>1, <2>8, <2>10, BetweenCat
      <3> QED
        BY <2>3, <2>11, <2>13, <3>1
    <2>15. Typed(f, JSONs[h - 1]) /\ Typed(f, JSONs[Len(text)])
      BY <1>1, <2>1, TopTyped
    <2>16. PICK g : g = Keyed(f, t)
      OBVIOUS
    <2>17. Essence(Ink(text, g, "parse")) = Cat(Cat(Essence(Ink(text, f, "object")), k), m)
      BY <2>1, <2>2, <2>3, <2>11, <2>15, <2>16, InkKey
    <2>18. Essence(Ink(text, f, "object")) \in Chars
      BY <2>1, <2>2, <2>15, InkChars, EssenceChars
    <2>19. Essence(Ink(text, g, "parse"))
              = Cat(Essence(Ink(text, stack[Len(stack)], "object")), Between(text, h, q))
      BY <1>1, <2>12, <2>14, <2>17, <2>18, CatAssoc DEF Top
    <2>20. PICK st : st = [stack EXCEPT ![Len(stack)] = g]
      OBVIOUS
    <2>21. Account(text, st, "parse", q)
      BY <2>1, <2>6, <2>10, <2>19, <2>20, AccountSet
    <2>22. JSONs[h - 1] \subseteq JSONs[q - 1]
      BY <2>1, <2>6, <2>10, Deep
    <2>23. AllTyped(stack, JSONs[q - 1])
      BY <2>1, <2>22, TypedGrows
    <2>24. Typed(g, JSONs[q - 1]) /\ g.fn = "object"
      <3>1. Typed(f, JSONs[q - 1])
        BY <2>15, <2>22, SeqGrows DEF Typed
      <3>2. g.fn = "object" /\ g.vals = <<>> /\ g.props = f.props /\ g.key = t
        BY <2>2, <2>16 DEF Keyed
      <3> QED
        BY <2>3, <3>1, <3>2 DEF Typed
    <2>25. AllTyped(st, JSONs[q - 1])
      BY <2>1, <2>20, <2>23, <2>24, TypedSet
    <2>26. stack' = st /\ at' = "parse" /\ pos' = q
      BY <1>1, <1>2, <2>5, <2>16, <2>20 DEF ObjectColon, Keyed
    <2> QED
      BY <2>21, <2>25, <2>26, MadeGoesOn
  <1>3. CASE Ch(c) # ":"
    BY <1>1, <1>3, MadeError DEF ObjectColon
  <1> QED
    BY <1>2, <1>3

LEMMA MadeObjectProps ==
    ASSUME IInv, ReadSoFar, UNCHANGED Input, ObjectProps
    PROVE  (ReadSoFar /\ NothingInvented)'
  <1>1. PICK p : p = Here
    OBVIOUS
  <1>2. at = "object" /\ Top.fn = "object"
    BY DEF ObjectProps, ReadSoFar
  <1>3. CASE Ch(p) = "}" /\ Close(Obj(Top.props), p)
    <2>1. /\ InText(p) /\ p \in Places(text) /\ AllTyped(stack, JSONs[p - 1])
          /\ Account(text, stack, "object", p)
      BY <1>1, <1>2, Arrived
    <2>2. PICK ps : ps = Top.props
      OBVIOUS
    <2>3. ps \in Seq(Pairs(JSONs[p - 1]))
      BY <2>1, <2>2, TopTyped DEF Typed
    <2>4. Ink(text, Top, "object") = Cat(Mark("{"), Join(Properties(Recite[Len(text)], ps)))
      BY <1>2, <2>2, InkObjectNext
    <2> QED
      BY <1>2, <1>3, <2>1, <2>2, <2>3, <2>4, MadeCloseObject
  <1>4. CASE Ch(p) = "q" /\ Closed(p) /\ ObjectColon(StringText(p), StringEnd(p) + 1)
    BY <1>1, <1>2, <1>4, MadeColon
  <1>5. CASE Unclosed(p)
    BY <1>5, MadeUnclosed
  <1>6. CASE Error(p)
    BY <1>6, MadeError
  <1> QED
    BY <1>1, <1>3, <1>4, <1>5, <1>6 DEF ObjectProps

LEMMA MadeReturn ==
    ASSUME IInv, ReadSoFar, UNCHANGED Input, Return
    PROVE  (ReadSoFar /\ NothingInvented)'
  <1>1. at = "after" /\ Top.fn = "top" /\ Len(stack) = 1
    BY InNoCall DEF Return
  <1>2. PICK v : stack[1].vals = <<v>>
    BY <1>1 DEF IInv, Collected
  <1>3. /\ AllTyped(stack, JSONs[pos - 1]) /\ pos \in Places(text) /\ text \in Chars
        /\ Account(text, stack, "after", pos)
    BY <1>1, Arrived
  <1>4. /\ Typed(Top, JSONs[Len(text)]) /\ Top.vals = <<v>> /\ Top = stack[1]
    BY <1>1, <1>2, <1>3, TopTyped DEF Top
  <1>5. v \in JSONs[Len(text)]
    <2>1. PICK S, vs : S = JSONs[Len(text)] /\ vs = Top.vals
      OBVIOUS
    <2>2. vs \in Seq(S) /\ vs = <<v>>
      BY <1>4, <2>1 DEF Typed
    <2> QED
      BY <2>1, <2>2
  <1>6. Ink(text, Top, "after") = Recite[Len(text)][v]
    <2>1. Join(Items(Recite[Len(text)], Top.vals)) = Recite[Len(text)][v]
      BY <1>3, <1>4, <1>5, Writer, FirstItem
    <2> QED
      BY <1>1, <2>1, InkTop
  <1>7. Essence(Ink(text, Top, "after")) = Between(text, 1, pos)
    BY <1>1, <1>3, <1>4 DEF Account, Marked, Fits
  <1>8. result' = v /\ at' = "done" /\ pos' = pos /\ text' = text
    BY <1>4 DEF Return, Input
  <1> QED
    BY <1>5, <1>6, <1>7, <1>8 DEF ReadSoFar, NothingInvented, Between

-----------------------------------------------------------------------------
(* Where the parser starts: on a text, or on what was written of a value.  *)

LEMMA TripInitIInv == TripInit => IInv
  <1> SUFFICES ASSUME TripInit PROVE IInv
    OBVIOUS
  <1>1. CASE text \in Texts
    BY <1>1, TextsAssumption, BeginIInv DEF TripInit
  <1>2. CASE wanted \in Values /\ text = Write[Deepest][wanted]
    <2>1. text \in Chars
      <3>1. Puts(Printed) /\ wanted \in Kinds(Printed)[Deepest] /\ Deepest \in Nat
        BY <1>2, Printing, ValuesAssumption DEF Kinds
      <3>2. Write[Deepest] \in [Kinds(Printed)[Deepest] -> Chars]
        BY <3>1, Printing, SpellingOf, Zenon DEF Spells
      <3> QED
        BY <1>2, <3>1, <3>2
    <2> QED
      BY <2>1, BeginIInv DEF TripInit
  <1> QED
    BY <1>1, <1>2 DEF TripInit

LEMMA TripInvariant == TripSpec => []IInv
  <1>1. IInv /\ [TripNext]_<<vars, wanted>> => IInv'
    BY StepIInv DEF TripNext, vars
  <1> QED
    BY <1>1, TripInitIInv, PTL DEF TripSpec

-----------------------------------------------------------------------------
(* What follows from IInv alone, of either specification.                  *)

\* it_ stays within the text and its terminator, or one beyond after it ran
\* over, and only the outermost frame is that of JSON::parse.
THEOREM TypeCorrect == Spec \/ TripSpec => []TypeOK
  <1>1. IInv => TypeOK
    <2> SUFFICES ASSUME IInv PROVE TypeOK
      OBVIOUS
    <2>1. PICK F : stack \in Seq(F)
      BY DEF IInv, Frames, IsSeq
    <2>2. stack # <<>> /\ DOMAIN stack = 1 .. Len(stack)
      BY <2>1 DEF IInv, Frames
    <2> QED
      BY <2>2 DEF IInv, TextOK, Frames, TypeOK
  <1> QED
    BY <1>1, Invariant, TripInvariant, PTL

\* The assertion of JSON::parse (parse.h:94): one value, whatever was read.
THEOREM ReturnsOne == Spec \/ TripSpec => []OneResult
  <1>1. IInv => OneResult
    <2> SUFFICES ASSUME IInv, at = "after", Top.fn = "top" PROVE Len(Top.vals) = 1
      BY DEF OneResult
    <2>1. Len(stack) = 1
      BY InNoCall
    <2>2. PICK v : stack[1].vals = <<v>>
      BY <2>1 DEF IInv, Collected
    <2> QED
      BY <2>1, <2>2 DEF Top
  <1> QED
    BY <1>1, Invariant, TripInvariant, PTL

\* it_ leaves the text only behind a string that is opened and never closed,
\* and only when end_ is not there to stop it (parse.h:40-44, 198-207).
THEOREM OverrunsOnlyOpen == Spec \/ TripSpec => []OverrunNeedsOpen
  <1>1. Init => Paired
    BY TextsAssumption, BeginPaired DEF Init
  <1>2. TripInit => Paired
    BY TripInitIInv, BeginPaired DEF TripInit, IInv, TextOK
  <1>3. IInv /\ Paired /\ [Next]_vars => Paired'
    BY StepPaired
  <1>4. [TripNext]_<<vars, wanted>> => [Next]_vars
    BY DEF TripNext, vars
  <1>5. Paired => OverrunNeedsOpen
    BY DEF Paired
  <1>6. Spec => []OverrunNeedsOpen
    BY <1>1, <1>3, <1>5, Invariant, PTL DEF Spec
  <1>7. TripSpec => []OverrunNeedsOpen
    BY <1>2, <1>3, <1>4, <1>5, TripInvariant, PTL DEF TripSpec
  <1> QED
    BY <1>6, <1>7

-----------------------------------------------------------------------------
(* What follows from the account.                                          *)

LEMMA MadeBegin ==
    ASSUME text \in Chars, Begin
    PROVE  ReadSoFar /\ NothingInvented
  <1>1. PICK f : f = Frame("top")
    OBVIOUS
  <1>2. stack = <<f>> /\ at = "parse" /\ pos = 1
    BY <1>1 DEF Begin
  <1>3. Typed(f, JSONs[pos - 1]) /\ f.fn = "top" /\ f.vals = <<>>
    BY <1>1, TypedFrame
  <1>4. Len(stack) = 1 /\ stack[1] = f
    BY <1>2
  <1>5. AllTyped(stack, JSONs[pos - 1])
    <2>1. \A k \in 1 .. Len(stack) : k = 1
      BY <1>4
    <2> QED
      BY <1>3, <1>4, <2>1 DEF AllTyped
  <1>6. Len(text) \in Nat
    BY CharsAre
  <1>7. Ink(text, f, "parse") = <<>>
    BY <1>3, InkTop, NoItems
  <1>8. Between(text, 1, 1) = <<>>
    BY <1>6, NothingBetween DEF Places
  <1>9. Fits(text, f, "parse", 1, 1)
    BY <1>7, <1>8, EssenceEmpty DEF Fits
  <1>10. PICK c : c = [k \in 1 .. 1 |-> 1]
    OBVIOUS
  <1>11. c \in [1 .. 1 -> 1 .. Len(text) + 1] /\ c[1] = 1 /\ 1 .. 1 - 1 = {}
    BY <1>6, <1>10
  <1>12. Marked(text, stack, "parse", 1, c)
    BY <1>4, <1>9, <1>11 DEF Marked
  <1> QED
    BY <1>2, <1>5, <1>12 DEF Account, ReadSoFar, NothingInvented

LEMMA MadeStep == IInv /\ ReadSoFar /\ NothingInvented /\ [TripNext]_<<vars, wanted>>
                     => (ReadSoFar /\ NothingInvented)'
  <1> SUFFICES ASSUME IInv, ReadSoFar, NothingInvented, [TripNext]_<<vars, wanted>>
               PROVE  (ReadSoFar /\ NothingInvented)'
    OBVIOUS
  <1>1. CASE UNCHANGED vars
    BY <1>1 DEF vars, ReadSoFar, NothingInvented, Failed, Top
  <1>2. CASE Next
    <2>1. UNCHANGED Input
      BY <1>2 DEF Next
    <2>2. ASSUME ParseOther PROVE (ReadSoFar /\ NothingInvented)'
      BY <2>2, MadeError DEF ParseOther
    <2> QED
      BY <1>2, <2>1, <2>2, MadeWord, MadeNumber, MadeString, MadeComma, MadeEnter, MadeArray,
         MadeObjectProps, MadeObjectAfter, MadeReturn DEF Next
  <1> QED
    BY <1>1, <1>2 DEF TripNext

LEMMA TripInitMade == TripInit => ReadSoFar /\ NothingInvented
  BY TripInitIInv, MadeBegin DEF TripInit, IInv, TextOK

\* What a successful parse returns is made of the characters it read: all of
\* them but spaces and commas, in their order, and no others.
THEOREM MadeOfText == TripSpec => []NothingInvented
  BY TripInvariant, TripInitMade, MadeStep, PTL DEF TripSpec

-----------------------------------------------------------------------------
(* The values that are read back, and what is written of them.             *)

Numbers   == {t \in DOMAIN Printed : PlainNumber(t)}
Strings   == {t \in Chars : PlainString(t)}
Readable  == Plain[Deepest]
Writables == Kinds(Printed)[Deepest]
Written   == Write[Deepest]

\* What may be a property of an object that is read back.
Keyings == Strings \X Readable

LEMMA NestedWithin ==
    ASSUME NEW nums, NEW strs, NEW nums2, NEW strs2, nums \subseteq nums2, strs \subseteq strs2,
           NEW n \in Nat
    PROVE  Nested(nums, strs)[n] \subseteq Nested(nums2, strs2)[n]
  <1> DEFINE V == Nested(nums, strs)
             W == Nested(nums2, strs2)
             T == {k \in Nat : ~ (V[k] \subseteq W[k])}
  <1> SUFFICES ASSUME T # {} PROVE FALSE
    OBVIOUS
  <1>1. T \subseteq Nat
    OBVIOUS
  <1>2. PICK k \in T : \A j \in T : k <= j
    <2> HIDE DEF T
    <2> QED
      BY <1>1, Least
  <1>3. k \in Nat /\ ~ (V[k] \subseteq W[k])
    OBVIOUS
  <1>4. /\ V[0] = Flat(nums, strs) /\ \A m \in Nat : V[m + 1] = Over(nums, strs, V[m])
        /\ W[0] = Flat(nums2, strs2) /\ \A m \in Nat : W[m + 1] = Over(nums2, strs2, W[m])
    BY NestedIs
  <1>5. Flat(nums, strs) \subseteq Flat(nums2, strs2)
    <2> SUFFICES ASSUME NEW v \in Flat(nums, strs) PROVE v \in Flat(nums2, strs2)
      OBVIOUS
    <2>1. (\E w \in Words : v = Word(w)) \/ (\E t \in nums : v = Num(t)) \/ (\E t \in strs : v = Quoted(t))
      BY FlatKinds
    <2>2. (\E w \in Words : v = Word(w)) \/ (\E t \in nums2 : v = Num(t)) \/ (\E t \in strs2 : v = Quoted(t))
      BY <2>1
    <2> QED
      BY <2>2, FlatKinds
  <1>6. k # 0
    BY <1>3, <1>4, <1>5
  <1>7. k - 1 \in Nat /\ (k - 1) + 1 = k /\ ~ (k <= k - 1)
    BY <1>3, <1>6
  <1>8. PICK S, U : S = V[k - 1] /\ U = W[k - 1]
    OBVIOUS
  <1>9. S \subseteq U
    BY <1>2, <1>7, <1>8
  <1> HIDE DEF T, V, W
  <1>10. V[k] = Over(nums, strs, S) /\ W[k] = Over(nums2, strs2, U)
    BY <1>4, <1>7, <1>8
  <1>11. Over(nums, strs, S) \subseteq Over(nums2, strs2, U)
    <2> SUFFICES ASSUME NEW v \in Over(nums, strs, S) PROVE v \in Over(nums2, strs2, U)
      OBVIOUS
    <2>1. v \in Flat(nums, strs) \/ Structured(strs, S, v)
      BY OverKinds
    <2>2. strs \X S \subseteq strs2 \X U
      BY <1>9
    <2>3. Seq(S) \subseteq Seq(U) /\ Seq(strs \X S) \subseteq Seq(strs2 \X U)
      BY <1>9, <2>2, SeqMonotonic
    <2>4. Structured(strs, S, v) => Structured(strs2, U, v)
      BY <2>3 DEF Structured
    <2> QED
      BY <1>5, <2>1, <2>4, OverKinds
  <1> QED
    BY <1>3, <1>10, <1>11

LEMMA ReadableKinds ==
    /\ Readable \subseteq Writables /\ Deepest \in Nat
    /\ Numbers \subseteq Chars /\ Strings \subseteq Chars
    /\ Keyings \subseteq Pairs(Writables)
    /\ \A y \in Readable : \/ \E w \in Words : y = Word(w)
                           \/ \E t \in Numbers : y = Num(t)
                           \/ \E t \in Strings : y = Quoted(t)
                           \/ \E vs \in Seq(Readable) : y = Arr(vs)
                           \/ \E ps \in Seq(Keyings) : y = Obj(ps)
  <1>1. Deepest \in Nat
    BY ValuesAssumption
  <1>2. Numbers \subseteq Chars /\ Strings \subseteq Chars
    BY PrintedAssumption DEF Numbers, Strings
  <1>3. Plain = Nested(Numbers, Strings)
    BY DEF Plain, Numbers, Strings
  <1>4. Readable \subseteq Writables
    <2>1. Numbers \subseteq DOMAIN Printed
      BY DEF Numbers
    <2> QED
      BY <1>1, <1>2, <1>3, <2>1, NestedWithin DEF Readable, Writables, Kinds
  <1>5. Readable \subseteq Over(Numbers, Strings, Readable)
    BY <1>1, <1>3, NestedGrows, NestedIs DEF Readable
  <1>6. Keyings \subseteq Pairs(Writables)
    BY <1>2, <1>4 DEF Keyings, Pairs
  <1>7. ASSUME NEW y \in Readable
        PROVE  \/ \E w \in Words : y = Word(w)
               \/ \E t \in Numbers : y = Num(t)
               \/ \E t \in Strings : y = Quoted(t)
               \/ \E vs \in Seq(Readable) : y = Arr(vs)
               \/ \E ps \in Seq(Keyings) : y = Obj(ps)
    <2>1. y \in Flat(Numbers, Strings) \/ Structured(Strings, Readable, y)
      BY <1>5, OverKinds
    <2>2. CASE y \in Flat(Numbers, Strings)
      BY <2>2, FlatKinds
    <2>3. CASE Structured(Strings, Readable, y)
      BY <2>3 DEF Structured, Keyings
    <2> QED
      BY <2>1, <2>2, <2>3
  <1> QED
    BY <1>1, <1>2, <1>4, <1>6, <1>7

\* None is not a value.
LEMMA NoneUnreadable == None \notin Readable
  <1>1. \A t : None # Word(t) /\ None # Num(t) /\ None # Quoted(t) /\ None # Arr(t) /\ None # Obj(t)
    BY DEF None, Word, Num, Quoted, Arr, Obj
  <1> QED
    BY <1>1, ReadableKinds

\* What is written of a property.
KeyWriter == [q \in Pairs(Writables) |-> Property(Written, q)]

\* What comes behind an item, with the items vs still to come.
More(w, vs) == IF vs = <<>> THEN <<>> ELSE Cat(Mark(","), Join(Items(w, vs)))

\* What comes of a list whose items vs are to come and that closes with c, where
\* u comes behind it: at an item, and behind one.
Coming(w, vs, c, u) == Cat(Join(Items(w, vs)), Cat(Mark(c), u))
Ending(w, vs, c, u) == Cat(More(w, vs), Cat(Mark(c), u))

\* v and then vs.
Led(us, v, vs) == us = Cat(Mark(v), vs)

\* What is written of each kind of value.
LEMMA WrittenOf ==
    /\ Written \in [Writables -> Chars]
    /\ \A w \in Words : Written[Word(w)] = w
    /\ \A t \in Numbers : Written[Num(t)] = t
    /\ \A t \in Chars : Written[Quoted(t)] = InQuotes(t)
    /\ \A vs \in Seq(Writables) : Arr(vs) \in Writables =>
          Written[Arr(vs)] = <<"[">> \o Join(Items(Written, vs)) \o <<"]">>
    /\ \A ps \in Seq(Chars \X Writables) : Obj(ps) \in Writables =>
          Written[Obj(ps)] = <<"{">> \o Join(Properties(Written, ps)) \o <<"}">>
  <1>1. Deepest \in Nat
    BY ValuesAssumption
  <1>2. Spells(Printed, Writables, Written)
    BY <1>1, Printing, SpellingOf, Zenon DEF Writables, Written
  <1>3. \A t \in Numbers : t \in DOMAIN Printed /\ Printed[t] = t
    BY DEF Numbers, PlainNumber
  <1> QED
    BY <1>2, <1>3, Zenon DEF Spells

LEMMA WriterIs ==
    /\ Written \in [Writables -> Chars]
    /\ KeyWriter \in [Pairs(Writables) -> Chars]
    /\ \A q \in Pairs(Writables) : KeyWriter[q] = Property(Written, q)
  <1>1. Written \in [Writables -> Chars]
    BY WrittenOf
  <1>2. \A q \in Pairs(Writables) : Property(Written, q) \in Chars
    BY <1>1, PropertyChars DEF Pairs
  <1> QED
    BY <1>1, <1>2 DEF KeyWriter

LEMMA KeyItems ==
    ASSUME NEW ps \in Seq(Pairs(Writables))
    PROVE  Properties(Written, ps) = Items(KeyWriter, ps)
  <1>1. DOMAIN ps = 1 .. Len(ps) /\ \A k \in 1 .. Len(ps) : ps[k] \in Pairs(Writables)
    BY LenProperties, ElementOfSeq
  <1>2. \A k \in 1 .. Len(ps) : KeyWriter[ps[k]] = Property(Written, ps[k])
    BY <1>1, WriterIs
  <1> QED
    BY <1>1, <1>2 DEF Properties, Items

LEMMA ListChars ==
    ASSUME NEW S, NEW w \in [S -> Chars], NEW vs \in Seq(S)
    PROVE  Join(Items(w, vs)) \in Chars /\ More(w, vs) \in Chars
  <1>1. Join(Items(w, vs)) \in Chars
    BY ItemsChars, JoinChars
  <1>2. Mark(",") \in Chars
    BY Marks, MarkChars
  <1> QED
    BY <1>1, <1>2, CatChars, NoChars DEF More

LEMMA ListEnds ==
    ASSUME NEW S, NEW w \in [S -> Chars], NEW vs \in Seq(S), NEW c \in {"]", "}"}, NEW u \in Chars
    PROVE  /\ Cat(Mark(c), u) \in Chars
           /\ Coming(w, vs, c, u) \in Chars /\ Ending(w, vs, c, u) \in Chars
  <1>1. PICK j, m, e : j = Join(Items(w, vs)) /\ m = More(w, vs) /\ e = Cat(Mark(c), u)
    OBVIOUS
  <1>2. j \in Chars /\ m \in Chars
    BY <1>1, ListChars
  <1>3. e \in Chars
    BY <1>1, MarkIn, CatChars
  <1>4. Coming(w, vs, c, u) = Cat(j, e) /\ Ending(w, vs, c, u) = Cat(m, e)
    BY <1>1 DEF Coming, Ending
  <1> QED
    BY <1>1, <1>2, <1>3, <1>4, CatChars

\* Nothing is to come but the bracket.
LEMMA NoneComing ==
    ASSUME NEW w, NEW c, NEW u, Cat(Mark(c), u) \in Chars
    PROVE  Coming(w, <<>>, c, u) = Cat(Mark(c), u) /\ Ending(w, <<>>, c, u) = Cat(Mark(c), u)
  <1>1. Join(Items(w, <<>>)) = <<>> /\ More(w, <<>>) = <<>>
    BY NoItems DEF More
  <1> QED
    BY <1>1, CatEmpty DEF Coming, Ending

\* Behind an item, a comma comes before the next.
LEMMA SomeComing ==
    ASSUME NEW S, NEW w \in [S -> Chars], NEW vs \in Seq(S), vs # <<>>,
           NEW c, NEW u, Cat(Mark(c), u) \in Chars
    PROVE  Ending(w, vs, c, u) = Cat(Mark(","), Coming(w, vs, c, u))
  <1>1. PICK j, e, k : j = Join(Items(w, vs)) /\ e = Cat(Mark(c), u) /\ k = Mark(",")
    OBVIOUS
  <1>2. j \in Chars /\ e \in Chars
    BY <1>1, ListChars
  <1>3. k \in Chars
    BY <1>1, Marks, MarkChars
  <1>4. Ending(w, vs, c, u) = Cat(Cat(k, j), e) /\ Coming(w, vs, c, u) = Cat(j, e)
    BY <1>1 DEF Ending, Coming, More
  <1>5. Cat(Cat(k, j), e) = Cat(k, Cat(j, e))
    BY <1>2, <1>3, CatAssoc
  <1> QED
    BY <1>1, <1>4, <1>5, Zenon

\* The writing of a list by its last item.
LEMMA JoinLast ==
    ASSUME NEW S, NEW w \in [S -> Chars], NEW vs \in Seq(S), NEW v \in S, NEW us, Grown(us, vs, v)
    PROVE  /\ vs = <<>> => Join(Items(w, us)) = w[v]
           /\ vs # <<>> => Join(Items(w, us)) = Cat(Cat(Join(Items(w, vs)), Mark(",")), w[v])
  <1>1. PICK j, x, n, z : j = Join(Items(w, vs)) /\ x = w[v] /\ n = Len(vs) /\ z = Join(Items(w, us))
    OBVIOUS
  <1>2. x \in Chars
    BY <1>1
  <1>3. j \in Chars
    BY <1>1, ListChars
  <1>4. z = Cat(Cat(j, Sep(n + 1)), x)
    BY <1>1, ItemsMore
  <1>5. CASE vs = <<>>
    <2>1. n + 1 = 1 /\ j = <<>>
      BY <1>1, <1>5, NoItems
    <2>2. Sep(1) = <<>>
      BY DEF Sep
    <2>3. Cat(Cat(<<>>, <<>>), x) = x
      BY <1>2, CatEmpty, NoChars
    <2> QED
      BY <1>1, <1>4, <1>5, <2>1, <2>2, <2>3
  <1>6. CASE vs # <<>>
    <2>1. n \in Nat /\ n # 0
      BY <1>1, <1>6, EmptySeq, LenProperties
    <2>2. n + 1 # 1
      BY <2>1
    <2>3. Sep(n + 1) = Mark(",")
      BY <2>2 DEF Sep, Mark
    <2> QED
      BY <1>1, <1>4, <1>6, <2>3
  <1> QED
    BY <1>5, <1>6

-----------------------------------------------------------------------------
(* A list by its first item.                                               *)

LEMMA OneSeq ==
    ASSUME NEW S, NEW y \in S
    PROVE  <<y>> \in Seq(S) /\ Len(<<y>>) = 1
  OBVIOUS

LEMMA LedSeq ==
    ASSUME NEW S, NEW y \in S, NEW vs \in Seq(S), NEW us, Led(us, y, vs)
    PROVE  us \in Seq(S) /\ us # <<>>
  <1>1. us = <<y>> \o vs
    BY DEF Led, Cat, Mark
  <1>2. us \in Seq(S) /\ Len(us) = 1 + Len(vs) /\ Len(vs) \in Nat
    BY <1>1, OneSeq, ConcatProperties, LenProperties
  <1>3. Len(us) # 0
    BY <1>2
  <1> QED
    BY <1>2, <1>3, EmptySeq

LEMMA LedGrown ==
    ASSUME NEW S, NEW y \in S, NEW r \in Seq(S), NEW v \in S, NEW vs, Grown(vs, r, v),
           NEW q, Led(q, y, r), NEW us, Led(us, y, vs)
    PROVE  Grown(us, q, v)
  <1>1. <<y>> \in Seq(S) /\ <<v>> \in Seq(S)
    BY OneSeq
  <1>2. q = <<y>> \o r /\ us = <<y>> \o vs
    BY DEF Led, Cat, Mark
  <1>3. vs = r \o <<v>>
    BY AppendIsConcat DEF Grown
  <1>4. q \in Seq(S)
    BY LedSeq
  <1>5. Append(q, v) = q \o <<v>>
    BY <1>4, AppendIsConcat
  <1>6. (<<y>> \o r) \o <<v>> = <<y>> \o (r \o <<v>>)
    BY <1>1, ConcatAssociative
  <1>7. us = Append(q, v)
    BY <1>2, <1>3, <1>5, <1>6, Zenon
  <1> QED
    BY <1>7 DEF Grown

LEMMA SeqLed ==
    ASSUME NEW S, NEW us \in Seq(S), us # <<>>
    PROVE  \E y \in S : \E vs \in Seq(S) : Led(us, y, vs)
  <1>1. Head(us) \in S /\ Tail(us) \in Seq(S) /\ us = <<Head(us)>> \o Tail(us)
    BY HeadTailProperties
  <1>2. Led(us, Head(us), Tail(us))
    BY <1>1, Zenon DEF Led, Cat, Mark
  <1> QED
    BY <1>1, <1>2

\* An item goes from what is to come to what there is.
LEMMA LedPassed ==
    ASSUME NEW S, NEW vs \in Seq(S), NEW y \in S, NEW rest \in Seq(S),
           NEW todo, Led(todo, y, rest), NEW us, Grown(us, vs, y)
    PROVE  us \in Seq(S) /\ Cat(vs, todo) = Cat(us, rest)
  <1>1. <<y>> \in Seq(S)
    BY OneSeq
  <1>2. us = vs \o <<y>> /\ us \in Seq(S)
    BY AppendIsConcat, AppendProperties DEF Grown
  <1>3. todo = <<y>> \o rest
    BY DEF Led, Cat, Mark
  <1>4. vs \o (<<y>> \o rest) = (vs \o <<y>>) \o rest
    BY <1>1, ConcatAssociative
  <1> QED
    BY <1>2, <1>3, <1>4, Zenon DEF Cat

Heads(w, y, vs) == \A us : Led(us, y, vs) => Join(Items(w, us)) = Cat(w[y], More(w, vs))

LEMMA HeadAlone ==
    ASSUME NEW S, NEW w \in [S -> Chars], NEW y \in S
    PROVE  Heads(w, y, <<>>)
  <1> SUFFICES ASSUME NEW us, Led(us, y, <<>>) PROVE Join(Items(w, us)) = Cat(w[y], More(w, <<>>))
    BY DEF Heads
  <1>1. us = <<y>>
    <2>1. us = <<y>> \o <<>>
      BY DEF Led, Cat, Mark
    <2> QED
      BY <2>1, OneSeq, ConcatEmptySeq
  <1>2. Join(Items(w, us)) = w[y]
    BY <1>1, FirstItem
  <1>3. More(w, <<>>) = <<>> /\ w[y] \in Chars
    BY DEF More
  <1> QED
    BY <1>2, <1>3, CatEmpty

LEMMA HeadNext ==
    ASSUME NEW S, NEW w \in [S -> Chars], NEW y \in S, NEW r \in Seq(S), Heads(w, y, r),
           NEW v \in S, NEW vs, Grown(vs, r, v)
    PROVE  Heads(w, y, vs)
  <1> SUFFICES ASSUME NEW us, Led(us, y, vs) PROVE Join(Items(w, us)) = Cat(w[y], More(w, vs))
    BY DEF Heads
  <1>1. PICK q : Led(q, y, r)
    BY DEF Led
  <1>2. q \in Seq(S) /\ q # <<>> /\ Grown(us, q, v)
    BY <1>1, LedSeq, LedGrown
  <1>3. PICK a, m, j, x, k, z : /\ a = w[y] /\ m = More(w, r) /\ j = Join(Items(w, r)) /\ x = w[v]
                                /\ k = Mark(",") /\ z = Join(Items(w, vs))
    OBVIOUS
  <1>4. a \in Chars /\ x \in Chars
    BY <1>3
  <1>5. m \in Chars /\ j \in Chars
    BY <1>3, ListChars
  <1>6. k \in Chars
    BY <1>3, Marks, MarkChars
  <1>7. Join(Items(w, q)) = Cat(a, m)
    BY <1>1, <1>3 DEF Heads
  <1>8. Join(Items(w, us)) = Cat(Cat(Cat(a, m), k), x)
    <2>1. Join(Items(w, us)) = Cat(Cat(Join(Items(w, q)), Mark(",")), w[v])
      BY <1>2, JoinLast
    <2> QED
      BY <1>3, <1>7, <2>1
  <1>9. vs # <<>>
    BY AppendProperties DEF Grown
  <1>10. More(w, vs) = Cat(k, z)
    BY <1>3, <1>9 DEF More
  <1>11. CASE r = <<>>
    <2>1. m = <<>> /\ z = x
      BY <1>3, <1>11, JoinLast DEF More
    <2>2. Cat(Cat(Cat(a, <<>>), k), x) = Cat(a, Cat(k, x))
      BY <1>4, <1>6, CatEmpty, CatAssoc
    <2> QED
      BY <1>3, <1>8, <1>10, <2>1, <2>2
  <1>12. CASE r # <<>>
    <2>1. m = Cat(k, j)
      BY <1>3, <1>12 DEF More
    <2>2. z = Cat(Cat(j, k), x)
      BY <1>3, <1>12, JoinLast
    <2>3. Cat(j, k) \in Chars /\ Cat(k, j) \in Chars
      BY <1>5, <1>6, CatChars
    <2>4. Cat(k, Cat(Cat(j, k), x)) = Cat(Cat(k, Cat(j, k)), x)
      BY <1>4, <1>6, <2>3, CatAssoc
    <2>5. Cat(k, Cat(j, k)) = Cat(m, k) /\ Cat(m, k) \in Chars
      BY <1>5, <1>6, <2>1, CatAssoc, CatChars
    <2>6. Cat(Cat(a, m), k) = Cat(a, Cat(m, k))
      BY <1>4, <1>5, <1>6, CatAssoc
    <2>7. Cat(Cat(a, Cat(m, k)), x) = Cat(a, Cat(Cat(m, k), x))
      BY <1>4, <2>5, CatAssoc
    <2> QED
      BY <1>3, <1>8, <1>10, <2>2, <2>4, <2>5, <2>6, <2>7
  <1> QED
    BY <1>11, <1>12

\* The writing of a list by its first item.
LEMMA JoinHead ==
    ASSUME NEW S, NEW w \in [S -> Chars], NEW y \in S, NEW vs \in Seq(S)
    PROVE  Heads(w, y, vs)
  <1> DEFINE T == {n \in Nat : \E r \in Seq(S) : Len(r) = n /\ ~ Heads(w, y, r)}
  <1> SUFFICES ASSUME ~ Heads(w, y, vs) PROVE FALSE
    OBVIOUS
  <1>1. T \subseteq Nat /\ Len(vs) \in T
    BY LenProperties
  <1>2. PICK n \in T : \A j \in T : n <= j
    <2> HIDE DEF T
    <2> QED
      BY <1>1, Least
  <1>3. PICK r \in Seq(S) : Len(r) = n /\ ~ Heads(w, y, r)
    OBVIOUS
  <1>4. r # <<>>
    BY <1>3, HeadAlone
  <1>5. PICK q \in Seq(S), v \in S : r = Append(q, v)
    BY <1>4, SequenceEmptyOrAppend
  <1>6. Grown(r, q, v)
    BY <1>5 DEF Grown
  <1>7. Len(q) \in Nat /\ n = Len(q) + 1
    BY <1>3, <1>5, AppendProperties, LenProperties
  <1>8. ~ Heads(w, y, q)
    BY <1>3, <1>6, HeadNext
  <1>9. Len(q) \in T
    BY <1>7, <1>8
  <1> HIDE DEF T
  <1>10. n <= Len(q)
    BY <1>2, <1>9
  <1> QED
    BY <1>7, <1>10

\* The first of the items to come.
LEMMA ComingHead ==
    ASSUME NEW S, NEW w \in [S -> Chars], NEW y \in S, NEW vs \in Seq(S), NEW us, Led(us, y, vs),
           NEW c \in {"]", "}"}, NEW u \in Chars
    PROVE  Coming(w, us, c, u) = Cat(w[y], Ending(w, vs, c, u))
  <1>1. PICK a, m, e : a = w[y] /\ m = More(w, vs) /\ e = Cat(Mark(c), u)
    OBVIOUS
  <1>2. a \in Chars
    BY <1>1
  <1>3. m \in Chars
    BY <1>1, ListChars
  <1>4. e \in Chars
    BY <1>1, ListEnds
  <1>5. Join(Items(w, us)) = Cat(a, m)
    BY <1>1, JoinHead DEF Heads
  <1>6. Cat(Cat(a, m), e) = Cat(a, Cat(m, e))
    BY <1>2, <1>3, <1>4, CatAssoc
  <1> QED
    BY <1>1, <1>5, <1>6 DEF Coming, Ending

LEMMA CatFour ==
    ASSUME NEW a \in Chars, NEW b \in Chars, NEW c \in Chars, NEW u \in Chars
    PROVE  Cat(Cat(Cat(a, b), c), u) = Cat(a, Cat(b, Cat(c, u)))
  <1>1. Cat(c, u) \in Chars /\ Cat(a, b) \in Chars
    BY CatChars
  <1>2. Cat(Cat(Cat(a, b), c), u) = Cat(Cat(a, b), Cat(c, u))
    BY <1>1, CatAssoc
  <1>3. Cat(Cat(a, b), Cat(c, u)) = Cat(a, Cat(b, Cat(c, u)))
    BY <1>1, CatAssoc
  <1> QED
    BY <1>2, <1>3

LEMMA WrittenFlat ==
    /\ \A w \in Words : Written[Word(w)] = w
    /\ \A t \in Numbers : Written[Num(t)] = t
    /\ \A t \in Chars : Written[Quoted(t)] = Cat(Cat(Mark("q"), t), Mark("q"))
  BY WrittenOf DEF Mark, Cat, InQuotes

LEMMA WrittenArr ==
    ASSUME NEW vs \in Seq(Writables), Arr(vs) \in Writables, NEW u \in Chars
    PROVE  Cat(Written[Arr(vs)], u) = Cat(Mark("["), Coming(Written, vs, "]", u))
  <1>1. PICK a, j, e : a = Mark("[") /\ j = Join(Items(Written, vs)) /\ e = Mark("]")
    OBVIOUS
  <1>2. a \in Chars /\ e \in Chars
    BY <1>1, MarkIn
  <1>3. j \in Chars
    BY <1>1, WriterIs, ListChars
  <1>4. Written[Arr(vs)] = Cat(Cat(a, j), e)
    BY <1>1, WrittenOf DEF Cat, Mark
  <1>5. Cat(Cat(Cat(a, j), e), u) = Cat(a, Cat(j, Cat(e, u)))
    BY <1>2, <1>3, CatFour
  <1> QED
    BY <1>1, <1>4, <1>5 DEF Coming

LEMMA WrittenObj ==
    ASSUME NEW ps \in Seq(Pairs(Writables)), Obj(ps) \in Writables, NEW u \in Chars
    PROVE  Cat(Written[Obj(ps)], u) = Cat(Mark("{"), Coming(KeyWriter, ps, "}", u))
  <1>1. PICK a, j, e : a = Mark("{") /\ j = Join(Items(KeyWriter, ps)) /\ e = Mark("}")
    OBVIOUS
  <1>2. a \in Chars /\ e \in Chars
    BY <1>1, MarkIn
  <1>3. j \in Chars
    BY <1>1, WriterIs, ListChars
  <1>4. Written[Obj(ps)] = Cat(Cat(a, j), e)
    <2>1. Written[Obj(ps)] = <<"{">> \o Join(Properties(Written, ps)) \o <<"}">>
      BY WrittenOf DEF Pairs
    <2>2. Join(Properties(Written, ps)) = j
      BY <1>1, KeyItems
    <2> QED
      BY <1>1, <2>1, <2>2 DEF Cat, Mark
  <1>5. Cat(Cat(Cat(a, j), e), u) = Cat(a, Cat(j, Cat(e, u)))
    BY <1>2, <1>3, CatFour
  <1> QED
    BY <1>1, <1>4, <1>5 DEF Coming

\* A property, of which u comes behind the value.
LEMMA WrittenKey ==
    ASSUME NEW k \in Chars, NEW y \in Writables, NEW q, q = <<k, y>>, NEW u \in Chars
    PROVE  /\ q \in Pairs(Writables)
           /\ Cat(KeyWriter[q], u)
                 = Cat(Mark("q"), Cat(k, Cat(Mark("q"), Cat(Mark(":"), Cat(Written[y], u)))))
  <1>1. q \in Pairs(Writables) /\ q[1] = k /\ q[2] = y
    BY DEF Pairs
  <1>2. PICK a, b, x : a = Mark("q") /\ b = Mark(":") /\ x = Written[y]
    OBVIOUS
  <1>3. a \in Chars /\ b \in Chars
    BY <1>2, MarkIn
  <1>4. x \in Chars
    BY <1>2, WriterIs
  <1>5. KeyWriter[q] = Cat(Cat(Cat(Cat(a, k), a), b), x)
    BY <1>1, <1>2, WriterIs DEF Property, InQuotes, Cat, Mark
  <1>6. PICK h : h = Cat(Cat(a, k), a)
    OBVIOUS
  <1>7. h \in Chars /\ Cat(x, u) \in Chars /\ Cat(b, Cat(x, u)) \in Chars
    BY <1>3, <1>4, <1>6, CatChars
  <1>8. Cat(Cat(Cat(h, b), x), u) = Cat(h, Cat(b, Cat(x, u)))
    BY <1>3, <1>4, <1>7, CatFour
  <1>9. Cat(h, Cat(b, Cat(x, u))) = Cat(a, Cat(k, Cat(a, Cat(b, Cat(x, u)))))
    BY <1>3, <1>6, <1>7, CatFour
  <1> QED
    BY <1>1, <1>2, <1>5, <1>6, <1>8, <1>9

LEMMA CharsLed ==
    ASSUME NEW t \in Chars, t # <<>>
    PROVE  t[1] \in Alphabet /\ \E a \in Chars : t = Cat(Mark(t[1]), a)
  <1>1. t \in Seq(Alphabet)
    BY CharsAre
  <1>2. PICK c \in Alphabet, a \in Seq(Alphabet) : Led(t, c, a)
    BY <1>1, SeqLed
  <1>3. t = <<c>> \o a
    BY <1>2 DEF Led, Cat, Mark
  <1>4. t[1] = c
    BY <1>3, OneSeq, ConcatProperties
  <1>5. t = Cat(Mark(t[1]), a) /\ a \in Chars
    BY <1>2, <1>4, Zenon DEF Led, Chars
  <1> QED
    BY <1>4, <1>5

\* What a value that is read back begins with.
Openers == {"d", "-", "q", "[", "{"} \cup Letters

LEMMA WrittenOpens ==
    ASSUME NEW y \in Readable
    PROVE  \E c \in Openers : \E a \in Chars : Written[y] = Cat(Mark(c), a)
  <1> DEFINE Starts(c) == \E a \in Chars : Written[y] = Cat(Mark(c), a)
  <1> SUFFICES \E c \in Openers : Starts(c)
    OBVIOUS
  <1>1. y \in Writables
    BY ReadableKinds
  <1>0. {"d", "-", "q", "[", "{"} \subseteq Openers /\ Letters \subseteq Openers
    BY DEF Openers
  <1>2. ASSUME NEW w \in Words, y = Word(w) PROVE \E c \in Openers : Starts(c)
    <2>1. w \in Chars /\ w # <<>> /\ w[1] \in Letters
      <3>1. Len(w) \in 4 .. 5 /\ w \in Chars /\ \A i \in 1 .. Len(w) : w[i] \in Letters
        BY WordsAre
      <3>2. Len(w) # 0 /\ 1 \in 1 .. Len(w)
        BY <3>1
      <3> QED
        BY <3>1, <3>2, NoChars
    <2>2. Starts(w[1])
      BY <1>2, <2>1, WrittenFlat, CharsLed
    <2> QED
      BY <1>0, <2>1, <2>2
  <1>3. ASSUME NEW t \in Numbers, y = Num(t) PROVE \E c \in Openers : Starts(c)
    <2>1. t \in Chars /\ t # <<>> /\ t[1] \in {"d", "-"}
      BY ReadableKinds DEF Numbers, PlainNumber
    <2>2. Written[y] = t
      BY <1>3, <2>1, WrittenFlat
    <2>3. Starts(t[1])
      BY <2>1, <2>2, CharsLed
    <2> QED
      BY <1>0, <2>1, <2>3
  <1>4. ASSUME NEW t \in Strings, y = Quoted(t) PROVE \E c \in Openers : Starts(c)
    <2>1. t \in Chars
      BY DEF Strings
    <2>2. PICK m : m = Mark("q")
      OBVIOUS
    <2>3. m \in Chars
      BY <2>2, MarkIn
    <2>4. Cat(Cat(m, t), m) = Cat(m, Cat(t, m)) /\ Cat(t, m) \in Chars
      BY <2>1, <2>3, CatAssoc, CatChars
    <2>5. Written[y] = Cat(m, Cat(t, m))
      BY <1>4, <2>1, <2>2, <2>4, WrittenFlat
    <2>6. Starts("q")
      BY <2>2, <2>4, <2>5
    <2> QED
      BY <1>0, <2>6
  <1>5. ASSUME NEW vs \in Seq(Readable), y = Arr(vs) PROVE \E c \in Openers : Starts(c)
    <2>1. vs \in Seq(Writables)
      BY ReadableKinds, SeqMonotonic
    <2>2. Cat(Written[y], <<>>) = Cat(Mark("["), Coming(Written, vs, "]", <<>>))
      BY <1>1, <1>5, <2>1, WrittenArr, NoChars
    <2>3. Written[y] \in Chars
      BY <1>1, WriterIs
    <2>4. Coming(Written, vs, "]", <<>>) \in Chars
      BY <2>1, WriterIs, ListEnds, NoChars
    <2>5. Starts("[")
      BY <2>2, <2>3, <2>4, CatEmpty
    <2> QED
      BY <1>0, <2>5
  <1>6. ASSUME NEW ps \in Seq(Keyings), y = Obj(ps) PROVE \E c \in Openers : Starts(c)
    <2>1. ps \in Seq(Pairs(Writables))
      BY ReadableKinds, SeqMonotonic
    <2>2. Cat(Written[y], <<>>) = Cat(Mark("{"), Coming(KeyWriter, ps, "}", <<>>))
      BY <1>1, <1>6, <2>1, WrittenObj, NoChars
    <2>3. Written[y] \in Chars
      BY <1>1, WriterIs
    <2>4. Coming(KeyWriter, ps, "}", <<>>) \in Chars
      BY <2>1, WriterIs, ListEnds, NoChars
    <2>5. Starts("{")
      BY <2>2, <2>3, <2>4, CatEmpty
    <2> QED
      BY <1>0, <2>5
  <1> HIDE DEF Starts
  <1> QED
    BY <1>2, <1>3, <1>4, <1>5, <1>6, ReadableKinds

-----------------------------------------------------------------------------
(* What is left of the text, and what the parser reads of it.              *)

Rest(t, p) == SubSeq(t, p, Len(t))

LEMMA RestStart ==
    ASSUME NEW t \in Chars
    PROVE  Rest(t, 1) = t
  <1>1. t \in Seq(Alphabet) /\ Len(t) \in Nat
    BY CharsAre
  <1>2. PICK s, n : s = Rest(t, 1) /\ n = Len(t)
    OBVIOUS
  <1>3. n \in Nat /\ 1 \in 1 .. n + 1 /\ n + 1 \in 1 .. n + 1 /\ (n + 1) - 1 = n
    BY <1>1, <1>2
  <1>4. s \in Chars /\ Len(s) = n /\ \A i \in 1 .. n : s[i] = t[1 + i - 1]
    <2>1. /\ SubSeq(t, 1, (n + 1) - 1) \in Chars /\ Len(SubSeq(t, 1, (n + 1) - 1)) = (n + 1) - 1
          /\ \A i \in 1 .. (n + 1) - 1 : SubSeq(t, 1, (n + 1) - 1)[i] = t[1 + i - 1]
      BY <1>2, <1>3, SubSeqChars
    <2> QED
      BY <1>2, <1>3, <2>1 DEF Rest
  <1>5. \A i \in 1 .. n : 1 + i - 1 = i
    BY <1>3
  <1>6. s \in Seq(Alphabet) /\ \A i \in 1 .. Len(s) : s[i] = t[i]
    BY <1>4, <1>5, CharsAre
  <1> QED
    BY <1>1, <1>2, <1>4, <1>6, SeqEqual

LEMMA RestIs ==
    ASSUME NEW t \in Chars, NEW p \in Places(t), NEW n, n = Len(t)
    PROVE  /\ n \in Nat /\ p \in 1 .. n + 1
           /\ Rest(t, p) \in Chars /\ Len(Rest(t, p)) = n + 1 - p
           /\ \A i \in 1 .. n + 1 - p : Rest(t, p)[i] = t[p + i - 1]
  <1>1. n \in Nat /\ p \in 1 .. n + 1 /\ n + 1 \in p .. n + 1 /\ (n + 1) - 1 = n
    BY CharsAre DEF Places
  <1>2. /\ SubSeq(t, p, (n + 1) - 1) \in Chars /\ Len(SubSeq(t, p, (n + 1) - 1)) = (n + 1) - p
        /\ \A i \in 1 .. (n + 1) - p : SubSeq(t, p, (n + 1) - 1)[i] = t[p + i - 1]
    BY <1>1, SubSeqChars
  <1> QED
    BY <1>1, <1>2 DEF Rest

LEMMA CatParts ==
    ASSUME NEW a \in Chars, NEW b \in Chars
    PROVE  /\ Len(a) \in Nat /\ Len(b) \in Nat /\ Len(Cat(a, b)) = Len(a) + Len(b)
           /\ \A i \in 1 .. Len(a) : Cat(a, b)[i] = a[i]
           /\ \A i \in 1 .. Len(b) : Cat(a, b)[Len(a) + i] = b[i]
  <1>1. a \in Seq(Alphabet) /\ b \in Seq(Alphabet) /\ Len(a) \in Nat /\ Len(b) \in Nat
    BY CharsAre
  <1>2. /\ Len(a \o b) = Len(a) + Len(b)
        /\ \A i \in 1 .. Len(a) + Len(b) : (a \o b)[i] = IF i <= Len(a) THEN a[i] ELSE b[i - Len(a)]
    BY <1>1, ConcatProperties
  <1>3. PICK c, m, n : c = Cat(a, b) /\ m = Len(a) /\ n = Len(b)
    OBVIOUS
  <1>4. /\ Len(c) = m + n /\ m \in Nat /\ n \in Nat
        /\ \A i \in 1 .. m + n : c[i] = IF i <= m THEN a[i] ELSE b[i - m]
    BY <1>1, <1>2, <1>3 DEF Cat
  <1>5. \A i \in 1 .. m : c[i] = a[i]
    BY <1>4
  <1>6. ASSUME NEW i \in 1 .. n PROVE c[m + i] = b[i]
    <2>1. m + i \in 1 .. m + n /\ ~ (m + i <= m) /\ (m + i) - m = i
      BY <1>4
    <2> QED
      BY <1>4, <2>1
  <1> QED
    BY <1>3, <1>4, <1>5, <1>6

\* The text goes on with a, and then with b.
LEMMA RestCat ==
    ASSUME NEW t \in Chars, NEW p \in Places(t), NEW a \in Chars, NEW b \in Chars,
           Rest(t, p) = Cat(a, b)
    PROVE  /\ p + Len(a) \in Places(t) /\ p <= p + Len(a)
           /\ \A i \in 1 .. Len(a) : p + i - 1 \in 1 .. Len(t) /\ t[p + i - 1] = a[i]
           /\ SubSeq(t, p, (p + Len(a)) - 1) = a
           /\ Rest(t, p + Len(a)) = b
  <1>1. PICK n, m, l, q, s : /\ n = Len(t) /\ m = Len(a) /\ l = Len(b) /\ q = p + m
                             /\ s = Rest(t, p)
    OBVIOUS
  <1>2. /\ n \in Nat /\ p \in 1 .. n + 1 /\ Len(s) = n + 1 - p
        /\ \A i \in 1 .. n + 1 - p : s[i] = t[p + i - 1]
    <2>1. n = Len(t)
      BY <1>1
    <2>2. /\ n \in Nat /\ p \in 1 .. n + 1
          /\ Len(Rest(t, p)) = n + 1 - p
          /\ \A i \in 1 .. n + 1 - p : Rest(t, p)[i] = t[p + i - 1]
      BY <2>1, RestIs
    <2> QED
      BY <1>1, <2>2, Zenon
  <1>3. /\ m \in Nat /\ l \in Nat /\ Len(s) = m + l
        /\ \A i \in 1 .. m : s[i] = a[i]
        /\ \A i \in 1 .. l : s[m + i] = b[i]
    <2>1. /\ Len(a) \in Nat /\ Len(b) \in Nat /\ Len(Cat(a, b)) = Len(a) + Len(b)
          /\ \A i \in 1 .. Len(a) : Cat(a, b)[i] = a[i]
          /\ \A i \in 1 .. Len(b) : Cat(a, b)[Len(a) + i] = b[i]
      BY CatParts
    <2>2. s = Cat(a, b)
      BY <1>1
    <2> QED
      BY <1>1, <2>1, <2>2, Zenon
  <1>4. n + 1 = p + m + l
    <2>1. n \in Nat /\ p \in Nat /\ Len(s) = n + 1 - p
      BY <1>2
    <2>2. m \in Nat /\ l \in Nat /\ Len(s) = m + l
      BY <1>3
    <2> QED
      BY ONLY <2>1, <2>2
  <1>5. q \in 1 .. n + 1 /\ p <= q /\ q \in p .. n + 1
    BY <1>1, <1>2, <1>3, <1>4
  <1>6. ASSUME NEW i \in 1 .. m PROVE p + i - 1 \in 1 .. n /\ t[p + i - 1] = a[i]
    <2>1. i \in 1 .. n + 1 - p /\ p + i - 1 \in 1 .. n
      <3>1. i \in 1 .. m /\ m \in Nat /\ l \in Nat /\ n \in Nat /\ p \in 1 .. n + 1
        BY <1>2, <1>3
      <3> QED
        BY ONLY <1>4, <3>1
    <2>2. s[i] = t[p + i - 1]
      BY <1>2, <2>1
    <2>3. s[i] = a[i]
      BY <1>3
    <2> QED
      BY <2>1, <2>2, <2>3
  <1>7. SubSeq(t, p, q - 1) = a
    <2>1. PICK x : x = SubSeq(t, p, q - 1)
      OBVIOUS
    <2>2. x \in Chars /\ Len(x) = q - p /\ \A i \in 1 .. q - p : x[i] = t[p + i - 1]
      BY <1>1, <1>2, <1>5, <2>1, SubSeqChars
    <2>3. q - p = m
      BY <1>1, <1>2, <1>3
    <2>4. x \in Seq(Alphabet) /\ a \in Seq(Alphabet) /\ Len(x) = Len(a) /\ \A i \in 1 .. Len(x) : x[i] = a[i]
      BY <1>1, <1>6, <2>2, <2>3, CharsAre
    <2> QED
      BY <2>1, <2>4, SeqEqual
  <1>8. Rest(t, q) = b
    <2>1. PICK x : x = Rest(t, q)
      OBVIOUS
    <2>2. q \in Places(t)
      BY <1>1, <1>5 DEF Places
    <2>3. x \in Chars /\ Len(x) = n + 1 - q /\ \A i \in 1 .. n + 1 - q : x[i] = t[q + i - 1]
      <3>1. n = Len(t)
        BY <1>1
      <3>2. /\ Rest(t, q) \in Chars /\ Len(Rest(t, q)) = n + 1 - q
            /\ \A i \in 1 .. n + 1 - q : Rest(t, q)[i] = t[q + i - 1]
        BY <2>2, <3>1, RestIs
      <3> QED
        BY <2>1, <3>2, Zenon
    <2>4. n + 1 - q = l
      BY <1>1, <1>2, <1>3, <1>4
    <2>5. ASSUME NEW i \in 1 .. l PROVE x[i] = b[i]
      <3>1. m + i \in 1 .. n + 1 - p /\ p + (m + i) - 1 = q + i - 1
        BY <1>1, <1>2, <1>3, <1>4
      <3>2. s[m + i] = t[p + (m + i) - 1]
        BY <1>2, <3>1
      <3> QED
        BY <1>3, <2>3, <2>4, <3>1, <3>2
    <2>6. x \in Seq(Alphabet) /\ b \in Seq(Alphabet) /\ Len(x) = Len(b) /\ \A i \in 1 .. Len(x) : x[i] = b[i]
      BY <1>1, <2>3, <2>4, <2>5, CharsAre
    <2> QED
      BY <2>1, <2>6, SeqEqual
  <1> QED
    BY <1>1, <1>5, <1>6, <1>7, <1>8 DEF Places

LEMMA RestMark ==
    ASSUME NEW t \in Chars, NEW p \in Places(t), NEW c \in Alphabet, NEW b \in Chars,
           Rest(t, p) = Cat(Mark(c), b)
    PROVE  /\ p \in 1 .. Len(t) /\ t[p] = c /\ p + 1 \in Places(t) /\ p <= p + 1
           /\ Rest(t, p + 1) = b
  <1>1. PICK a : a = Mark(c)
    OBVIOUS
  <1>2. a \in Chars /\ Len(a) = 1 /\ a[1] = c
    BY <1>1, OneChar DEF Mark
  <1>3. Rest(t, p) = Cat(a, b)
    BY <1>1
  <1>4. /\ p + Len(a) \in Places(t) /\ p <= p + Len(a) /\ Rest(t, p + Len(a)) = b
        /\ \A i \in 1 .. Len(a) : p + i - 1 \in 1 .. Len(t) /\ t[p + i - 1] = a[i]
    <2>1. a \in Chars
      BY <1>2
    <2>2. p + Len(a) \in Places(t) /\ p <= p + Len(a)
      BY <1>3, <2>1, RestCat
    <2>3. Rest(t, p + Len(a)) = b
      BY <1>3, <2>1, RestCat
    <2>4. \A i \in 1 .. Len(a) : p + i - 1 \in 1 .. Len(t) /\ t[p + i - 1] = a[i]
      BY <1>3, <2>1, RestCat
    <2> QED
      BY <2>2, <2>3, <2>4
  <1>5. p + 1 - 1 \in 1 .. Len(t) /\ t[p + 1 - 1] = c
    BY <1>2, <1>4
  <1>6. p + 1 - 1 = p
    BY DEF Places
  <1> QED
    BY <1>2, <1>4, <1>5, <1>6

LEMMA RestEmpty ==
    ASSUME NEW t \in Chars, NEW p \in Places(t), Rest(t, p) = <<>>
    PROVE  p = Len(t) + 1
  <1>1. PICK n : n = Len(t)
    OBVIOUS
  <1>2. n \in Nat /\ p \in 1 .. n + 1 /\ Len(<<>>) = n + 1 - p
    BY <1>1, RestIs
  <1> QED
    BY <1>1, <1>2

-----------------------------------------------------------------------------

\* end_ does not lie inside the text.
EndOutside == TextOK /\ end \notin 1 .. Len(text)

LEMMA Outside ==
    ASSUME EndOutside
    PROVE  /\ TextOK /\ text \in Chars /\ Len(text) \in Nat
           /\ \A p \in 1 .. Len(text) : Ch(p) = text[p]
           /\ Ch(Len(text) + 1) \in {NUL, kEOF}
           /\ \A p \in Places(text) : InText(p)
  <1>1. TextOK /\ text \in Chars /\ Len(text) \in Nat
    BY CharsAre DEF EndOutside, TextOK
  <1>2. end = Nowhere \/ end = Len(text) + 1
    BY <1>1 DEF EndOutside, TextOK
  <1>3. \A p \in 1 .. Len(text) : Ch(p) = text[p]
    BY <1>1 DEF Ch, EndOutside
  <1>4. \A p \in Places(text) : InText(p)
    BY <1>1, <1>2 DEF Places, InText
  <1> QED
    BY <1>1, <1>3, <1>4, ChAtEnd

LEMMA CharNext ==
    ASSUME EndOutside, NEW p \in Places(text), NEW c \in Alphabet, NEW b \in Chars,
           Rest(text, p) = Cat(Mark(c), b)
    PROVE  /\ Ch(p) = c /\ InText(p) /\ p \in 1 .. Len(text)
           /\ p + 1 \in Places(text) /\ Rest(text, p + 1) = b
  BY Outside, RestMark

LEMMA PastUnique ==
    ASSUME EndOutside, NEW S, NUL \notin S, kEOF \notin S, NEW p \in Places(text),
           NEW q \in p .. Len(text) + 1, Ch(q) \notin S, \A r \in p .. q - 1 : Ch(r) \in S
    PROVE  Past(S, p) = q
  <1>1. InText(p) /\ TextOK
    BY Outside
  <1>2. PICK z, n : z = Past(S, p) /\ n = Len(text)
    OBVIOUS
  <1>3. z \in p .. n + 1 /\ Ch(z) \notin S /\ \A r \in p .. z - 1 : Ch(r) \in S
    BY <1>1, <1>2, PastIs
  <1>4. n \in Nat /\ p \in 1 .. n + 1 /\ q \in p .. n + 1
    BY <1>2, Outside DEF Places
  <1>5. ~ (z < q)
    <2> SUFFICES ASSUME z < q PROVE FALSE
      OBVIOUS
    <2>1. z \in p .. q - 1
      BY <1>3, <1>4
    <2> QED
      BY <1>3, <2>1
  <1>6. ~ (q < z)
    <2> SUFFICES ASSUME q < z PROVE FALSE
      OBVIOUS
    <2>1. q \in p .. z - 1
      BY <1>3, <1>4
    <2> QED
      BY <1>3, <2>1
  <1> QED
    BY <1>2, <1>3, <1>4, <1>5, <1>6

LEMMA NothingSkipped ==
    ASSUME EndOutside, NEW p \in Places(text), Ch(p) # " "
    PROVE  SkipSpace(p) = p
  <1>1. PICK n : n = Len(text)
    OBVIOUS
  <1>2. n \in Nat /\ p \in 1 .. n + 1
    BY <1>1, Outside DEF Places
  <1>3. p \in p .. n + 1 /\ p .. p - 1 = {}
    BY ONLY <1>2
  <1>4. Ch(p) \notin {" "} /\ \A r \in p .. p - 1 : Ch(r) \in {" "}
    BY <1>3
  <1>5. NUL \notin {" "} /\ kEOF \notin {" "}
    BY DEF NUL, kEOF
  <1> QED
    BY <1>1, <1>3, <1>4, <1>5, PastUnique DEF SkipSpace

\* What may come behind a value.
Stops(u) ==
    /\ u \in Chars
    /\ u = <<>> \/ \E c \in {",", "]", "}"} : \E b \in Chars : u = Cat(Mark(c), b)

LEMMA StopsNone == Stops(<<>>)
  BY NoChars DEF Stops

LEMMA StopsEnding ==
    ASSUME NEW S, NEW w \in [S -> Chars], NEW vs \in Seq(S), NEW c \in {"]", "}"}, NEW u \in Chars
    PROVE  Stops(Ending(w, vs, c, u))
  <1>1. PICK e, g : e = Ending(w, vs, c, u) /\ g = Coming(w, vs, c, u)
    OBVIOUS
  <1>2. e \in Chars /\ g \in Chars
    BY <1>1, ListEnds
  <1>3. e = Cat(Mark(c), u) \/ e = Cat(Mark(","), g)
    <2>1. Cat(Mark(c), u) \in Chars
      BY ListEnds
    <2>2. CASE vs = <<>>
      <3>1. Ending(w, <<>>, c, u) = Cat(Mark(c), u)
        BY <2>1, NoneComing
      <3> QED
        BY <1>1, <2>2, <3>1, Zenon
    <2>3. CASE vs # <<>>
      BY <1>1, <2>1, <2>3, SomeComing
    <2> QED
      BY <2>2, <2>3
  <1>4. Stops(e)
    BY <1>2, <1>3 DEF Stops
  <1> QED
    BY <1>1, <1>4

LEMMA StopSeen ==
    ASSUME EndOutside, NEW q \in Places(text), NEW u, u = Rest(text, q), Stops(u)
    PROVE  Ch(q) \notin {"d", ".", " "} /\ InText(q)
  <1>1. InText(q)
    BY Outside
  <1>2. CASE u = <<>>
    <2>1. q = Len(text) + 1
      BY <1>2, Outside, RestEmpty
    <2> QED
      BY <1>1, <2>1, Outside DEF NUL, kEOF
  <1>3. ASSUME NEW c \in {",", "]", "}"}, NEW b \in Chars, u = Cat(Mark(c), b)
        PROVE  Ch(q) \notin {"d", ".", " "} /\ InText(q)
    <2>1. c \in Alphabet
      BY Marks
    <2>2. Ch(q) = c
      BY <1>3, <2>1, CharNext
    <2> QED
      BY <1>1, <2>2
  <1> QED
    BY <1>2, <1>3 DEF Stops

\* A number that was written is read back to its end.
LEMMA NumberBack ==
    ASSUME EndOutside, NEW p \in Places(text), NEW t \in Numbers, NEW u, Stops(u),
           Rest(text, p) = Cat(t, u), NEW q, q = p + Len(t)
    PROVE  /\ Ch(p) \in {"d", "-"} /\ InText(p) /\ q \in Places(text)
           /\ NumberEnd(p) = q /\ SubSeq(text, p, q - 1) = t /\ Rest(text, q) = u
  <1>1. /\ t \in Chars /\ t # <<>> /\ t[1] \in {"d", "-"} /\ u \in Chars
        /\ text \in Chars /\ Len(text) \in Nat /\ InText(p)
    BY Outside, ReadableKinds DEF Numbers, PlainNumber, Stops
  <1>2. PICK n, m : n = Len(text) /\ m = Len(t)
    OBVIOUS
  <1>3. n \in Nat /\ p \in 1 .. n + 1
    BY <1>1, <1>2 DEF Places
  <1>4. m \in Nat /\ m # 0
    BY <1>1, <1>2, CharsAre, EmptySeq
  <1>5. q \in Places(text) /\ SubSeq(text, p, q - 1) = t /\ Rest(text, q) = u
    BY <1>1, RestCat
  <1>6. q = p + m /\ q \in 1 .. n + 1
    BY <1>2, <1>5 DEF Places
  <1>7. \A i \in 1 .. m : p + i - 1 \in 1 .. n /\ text[p + i - 1] = t[i]
    <2>1. \A i \in 1 .. Len(t) : p + i - 1 \in 1 .. Len(text) /\ text[p + i - 1] = t[i]
      BY <1>1, RestCat
    <2> QED
      BY <1>2, <2>1
  <1>8. \A i \in 1 .. m : Ch(p + i - 1) = t[i]
    BY <1>2, <1>7, Outside
  <1>9. Ch(q) \notin {"d", ".", " "}
    BY <1>5, StopSeen
  <1>10. PICK i \in 2 .. m + 1 : /\ \A k \in 2 .. i - 1 : t[k] = "d"
                                 /\ i <= m => t[i] = "." /\ \A k \in i + 1 .. m : t[k] = "d"
    BY <1>2 DEF Numbers, PlainNumber
  <1>11. PICK e : e = p + i - 1
    OBVIOUS
  <1>12. e \in p + 1 .. q /\ e \in Places(text)
    BY <1>2, <1>3, <1>4, <1>6, <1>11 DEF Places
  <1>13. ASSUME NEW r \in p + 1 .. e - 1 PROVE Ch(r) = "d"
    <2>1. r - p + 1 \in 1 .. m /\ p + (r - p + 1) - 1 = r /\ r - p + 1 \in 2 .. i - 1
      BY <1>3, <1>4, <1>6, <1>11, <1>12
    <2> QED
      BY <1>8, <1>10, <2>1
  <1>14. Ch(p) = t[1]
    <2>1. 1 \in 1 .. m /\ p + 1 - 1 = p
      BY <1>3, <1>4
    <2> QED
      BY <1>8, <2>1
  <1>15. Ch(e) # "d"
    <2>1. CASE i <= m
      <3>1. i \in 1 .. m
        BY <1>4, <2>1
      <3> QED
        BY <1>8, <1>10, <1>11, <2>1, <3>1
    <2>2. CASE ~ (i <= m)
      <3>1. e = q
        BY <1>3, <1>4, <1>6, <1>11, <2>2
      <3> QED
        BY <1>9, <3>1
    <2> QED
      BY <2>1, <2>2
  <1>16. PICK s : s = IF Ch(p) = "-" THEN p + 1 ELSE p
    OBVIOUS
  <1>17. s \in Places(text) /\ e \in s .. n + 1
    BY <1>2, <1>3, <1>6, <1>12, <1>16 DEF Places
  <1>18. \A r \in s .. e - 1 : Ch(r) = "d"
    <2>1. CASE Ch(p) = "-"
      BY <1>13, <1>16, <2>1
    <2>2. CASE Ch(p) = "d"
      <3>1. s = p /\ \A r \in p .. e - 1 : r = p \/ r \in p + 1 .. e - 1
        BY <1>3, <1>12, <1>16, <2>2
      <3> QED
        BY <1>13, <2>2, <3>1
    <2> QED
      BY <1>1, <1>14, <2>1, <2>2
  <1>19. NUL \notin {"d"} /\ kEOF \notin {"d"}
    BY DEF NUL, kEOF
  <1>20. Past({"d"}, s) = e
    <2>1. Ch(e) \notin {"d"} /\ \A r \in s .. e - 1 : Ch(r) \in {"d"}
      BY <1>15, <1>18
    <2> QED
      BY <1>2, <1>17, <1>19, <2>1, PastUnique
  <1>21. NumberEnd(p) = q
    <2>1. CASE i <= m
      <3>1. i \in 1 .. m
        BY <1>4, <2>1
      <3>2. Ch(e) = "."
        BY <1>8, <1>10, <1>11, <2>1, <3>1
      <3>3. e + 1 \in Places(text) /\ q \in e + 1 .. n + 1
        BY <1>2, <1>3, <1>6, <1>11, <2>1, <3>1 DEF Places
      <3>4. ASSUME NEW r \in e + 1 .. q - 1 PROVE Ch(r) \in {"d"}
        <4>1. r - p + 1 \in 1 .. m /\ p + (r - p + 1) - 1 = r /\ r - p + 1 \in i + 1 .. m
          BY <1>3, <1>4, <1>6, <1>11, <3>1
        <4> QED
          BY <1>8, <1>10, <2>1, <4>1
      <3>5. Ch(q) \notin {"d"}
        BY <1>9
      <3>6. Past({"d"}, e + 1) = q
        BY <1>2, <1>19, <3>3, <3>4, <3>5, PastUnique
      <3> QED
        BY <1>16, <1>20, <3>2, <3>6 DEF NumberEnd
    <2>2. CASE ~ (i <= m)
      <3>1. e = q
        BY <1>3, <1>4, <1>6, <1>11, <2>2
      <3>2. Ch(e) # "."
        BY <1>9, <3>1
      <3> QED
        BY <1>16, <1>20, <3>1, <3>2 DEF NumberEnd
    <2> QED
      BY <2>1, <2>2
  <1> QED
    BY <1>1, <1>5, <1>14, <1>21

\* A string that was written is read back to its closing quote.
LEMMA StringBack ==
    ASSUME EndOutside, NEW p \in Places(text), NEW t \in Strings, NEW b \in Chars,
           Rest(text, p) = Cat(Mark("q"), Cat(t, Cat(Mark("q"), b))), NEW e, e = StringEnd(p)
    PROVE  /\ Ch(p) = "q" /\ InText(p) /\ Closed(p) /\ StringText(p) = t
           /\ e + 1 \in Places(text) /\ Rest(text, e + 1) = b
  <1>1. t \in Chars /\ text \in Chars /\ Len(text) \in Nat
    BY Outside DEF Strings
  <1>2. PICK a, d : a = Cat(t, d) /\ d = Cat(Mark("q"), b)
    OBVIOUS
  <1>3. "q" \in Alphabet
    BY Marks
  <1>4. d \in Chars /\ a \in Chars
    BY <1>1, <1>2, MarkIn, CatChars
  <1>5. Ch(p) = "q" /\ InText(p) /\ p + 1 \in Places(text) /\ Rest(text, p + 1) = a
    BY <1>2, <1>3, <1>4, CharNext
  <1>6. PICK n, m, s, z : n = Len(text) /\ m = Len(t) /\ s = p + 1 /\ z = s + m
    OBVIOUS
  <1>7. s \in Places(text) /\ Rest(text, s) = Cat(t, d) /\ z = s + Len(t)
    BY <1>2, <1>5, <1>6
  <1>8. z \in Places(text) /\ s <= z /\ SubSeq(text, s, z - 1) = t /\ Rest(text, z) = d
    <2>1. s + Len(t) \in Places(text) /\ s <= s + Len(t)
      BY <1>1, <1>4, <1>7, RestCat
    <2>2. SubSeq(text, s, (s + Len(t)) - 1) = t
      BY <1>1, <1>4, <1>7, RestCat
    <2>3. Rest(text, s + Len(t)) = d
      BY <1>1, <1>4, <1>7, RestCat
    <2> QED
      BY <1>7, <2>1, <2>2, <2>3, Zenon
  <1>9. \A i \in 1 .. m : s + i - 1 \in 1 .. n /\ text[s + i - 1] = t[i]
    <2>1. \A i \in 1 .. Len(t) : s + i - 1 \in 1 .. Len(text) /\ text[s + i - 1] = t[i]
      BY <1>1, <1>4, <1>7, RestCat
    <2> QED
      BY <1>6, <2>1
  <1>10. /\ Ch(z) = "q" /\ z \in 1 .. Len(text) /\ z + 1 \in Places(text)
        /\ Rest(text, z + 1) = b
    BY <1>2, <1>3, <1>8, CharNext
  <1>11. n \in Nat /\ m \in Nat /\ p \in 1 .. n + 1 /\ z \in p + 1 .. n + 1
    BY <1>1, <1>6, <1>8, CharsAre DEF Places
  <1>12. \A k \in 1 .. m : t[k] \notin {"q", kEOF}
    BY <1>1, <1>6, CharsAre DEF Strings, PlainString
  <1>13. ASSUME NEW r \in p + 1 .. z - 1 PROVE Ch(r) \notin {"q", kEOF}
    <2>1. r - s + 1 \in 1 .. m /\ s + (r - s + 1) - 1 = r
      BY <1>6, <1>11
    <2>2. r \in 1 .. n /\ text[r] = t[r - s + 1]
      BY <1>9, <2>1
    <2>3. Ch(r) = text[r]
      BY <1>6, <2>2, Outside
    <2> QED
      BY <1>12, <2>1, <2>2, <2>3
  <1> DEFINE stops == {q \in p + 1 .. Len(text) + 1 : Ch(q) \in {"q", kEOF}}
  <1>14. stops \subseteq Int /\ z \in stops
    BY <1>6, <1>10, <1>11
  <1>15. ASSUME NEW y \in stops PROVE z <= y
    <2>1. y \in p + 1 .. n + 1 /\ Ch(y) \in {"q", kEOF}
      BY <1>6
    <2>2. y \notin p + 1 .. z - 1
      BY <1>13, <2>1
    <2> QED
      BY <1>11, <2>1, <2>2
  <1>16. StringEnd(p) = IF stops = {} THEN 0 ELSE Min(stops)
    BY DEF StringEnd
  <1> HIDE DEF stops
  <1>17. Min(stops) = z
    <2>1. \A x \in stops : (\A y \in stops : x <= y) => x = z
      BY <1>11, <1>14, <1>15
    <2> QED
      BY <1>14, <1>15, <2>1 DEF Min
  <1>18. e = z
    BY <1>14, <1>16, <1>17
  <1>19. z # 0
    BY <1>11
  <1>20. StringText(p) = t
    BY <1>6, <1>8, <1>18 DEF StringText
  <1>21. Closed(p)
    BY <1>10, <1>18, <1>19 DEF Closed
  <1> QED
    BY <1>5, <1>10, <1>18, <1>20, <1>21

-----------------------------------------------------------------------------
(* What the calls under way still expect to read.                          *)

\* The call of f is to return g, with u behind it, and is waiting for the value
\* y, with s behind that.
TopWaits(f, g, y, s, u) == f.fn = "top" /\ f.vals = <<>> /\ g = y /\ s = u

ArrayWaits(f, g, y, s, u) ==
    /\ f.fn = "array" /\ f.vals \in Seq(Readable)
    /\ \E todo \in Seq(Readable) : \E us :
          Grown(us, f.vals, y) /\ g = Arr(Cat(us, todo)) /\ s = Ending(Written, todo, "]", u)

ObjectWaits(f, g, y, s, u) ==
    /\ f.fn = "object" /\ f.vals = <<>> /\ f.props \in Seq(Keyings) /\ f.key \in Strings
    /\ \E todo \in Seq(Keyings) : \E qs :
          /\ Grown(qs, f.props, <<f.key, y>>)
          /\ g = Obj(Cat(qs, todo)) /\ s = Ending(KeyWriter, todo, "}", u)

Waits(f, g, y, s, u) ==
    TopWaits(f, g, y, s, u) \/ ArrayWaits(f, g, y, s, u) \/ ObjectWaits(f, g, y, s, u)

\* G[k] is what the call k is to return and U[k] what then comes behind it; the
\* call n waits for G[n + 1].
Chained(v0, st, n, G, U) ==
    /\ G[1] = v0 /\ U[1] = <<>>
    /\ \A k \in 1 .. n + 1 : G[k] \in Readable /\ Stops(U[k])
    /\ \A k \in 1 .. n : Waits(st[k], G[k], G[k + 1], U[k + 1], U[k])

\* The first n calls of st, of which the first is to return v0, wait for y with
\* u behind it.
Pending(v0, st, n, y, u) == \E G, U : Chained(v0, st, n, G, U) /\ G[n + 1] = y /\ U[n + 1] = u

LEMMA PendingIs ==
    ASSUME NEW v0, NEW st, NEW n \in Nat, NEW y, NEW u, Pending(v0, st, n, y, u)
    PROVE  y \in Readable /\ Stops(u)
  <1>1. n + 1 \in 1 .. n + 1
    OBVIOUS
  <1> QED
    BY <1>1 DEF Pending, Chained

LEMMA PendingNone ==
    ASSUME NEW v0 \in Readable, NEW st
    PROVE  Pending(v0, st, 0, v0, <<>>)
  <1>1. PICK G, U : G = [k \in 1 .. 1 |-> v0] /\ U = [k \in 1 .. 1 |-> <<>>]
    OBVIOUS
  <1>2. G[1] = v0 /\ U[1] = <<>>
    BY <1>1
  <1>3. \A k \in 1 .. 0 + 1 : k = 1
    OBVIOUS
  <1>4. 1 .. 0 = {}
    OBVIOUS
  <1>5. Chained(v0, st, 0, G, U)
    BY <1>2, <1>3, <1>4, StopsNone DEF Chained
  <1>6. 0 + 1 = 1
    OBVIOUS
  <1> QED
    BY <1>2, <1>5, <1>6 DEF Pending

LEMMA PendingFirst ==
    ASSUME NEW v0, NEW st, NEW y, NEW u, Pending(v0, st, 0, y, u)
    PROVE  y = v0 /\ u = <<>>
  <1>1. 0 + 1 = 1
    OBVIOUS
  <1> QED
    BY <1>1 DEF Pending, Chained

LEMMA PendingSame ==
    ASSUME NEW v0, NEW st, NEW n \in Nat, NEW y, NEW u, Pending(v0, st, n, y, u),
           NEW s, \A k \in 1 .. n : s[k] = st[k]
    PROVE  Pending(v0, s, n, y, u)
  <1>1. PICK G, U : Chained(v0, st, n, G, U) /\ G[n + 1] = y /\ U[n + 1] = u
    BY DEF Pending
  <1>2. Chained(v0, s, n, G, U)
    BY <1>1 DEF Chained
  <1> QED
    BY <1>1, <1>2 DEF Pending

LEMMA PendingPush ==
    ASSUME NEW v0, NEW st, NEW n \in Nat, NEW g, NEW u, Pending(v0, st, n, g, u),
           NEW y \in Readable, NEW s, Stops(s), Waits(st[n + 1], g, y, s, u)
    PROVE  Pending(v0, st, n + 1, y, s)
  <1>1. PICK G, U : Chained(v0, st, n, G, U) /\ G[n + 1] = g /\ U[n + 1] = u
    BY DEF Pending
  <1>2. PICK m : m = n + 1
    OBVIOUS
  <1>3. m \in Nat /\ n + 1 = m /\ 1 \in 1 .. m /\ 1 # m + 1 /\ m \in 1 .. m /\ m # m + 1
        /\ m + 1 \in 1 .. m + 1
    BY <1>2
  <1>4. PICK H, V : /\ H = [k \in 1 .. m + 1 |-> IF k = m + 1 THEN y ELSE G[k]]
                    /\ V = [k \in 1 .. m + 1 |-> IF k = m + 1 THEN s ELSE U[k]]
    OBVIOUS
  <1>5. /\ H[m + 1] = y /\ V[m + 1] = s
        /\ \A k \in 1 .. m : H[k] = G[k] /\ V[k] = U[k]
    BY <1>3, <1>4
  <1>6. ASSUME NEW k \in 1 .. m + 1 PROVE H[k] \in Readable /\ Stops(V[k])
    <2>1. k = m + 1 \/ k \in 1 .. m
      BY <1>3
    <2>2. k \in 1 .. m => G[k] \in Readable /\ Stops(U[k])
      BY <1>1, <1>2 DEF Chained
    <2> QED
      BY <1>5, <2>1, <2>2
  <1>7. ASSUME NEW k \in 1 .. m PROVE Waits(st[k], H[k], H[k + 1], V[k + 1], V[k])
    <2>1. CASE k = m
      <3>1. H[k] = g /\ V[k] = u /\ H[k + 1] = y /\ V[k + 1] = s
        BY <1>1, <1>3, <1>5, <2>1
      <3>2. st[k] = st[n + 1]
        BY <1>2, <2>1
      <3> QED
        BY <3>1, <3>2
    <2>2. CASE k # m
      <3>1. k \in 1 .. n /\ k + 1 \in 1 .. m
        BY <1>2, <1>3, <2>2
      <3>2. Waits(st[k], G[k], G[k + 1], U[k + 1], U[k])
        BY <1>1, <3>1 DEF Chained
      <3>3. H[k] = G[k] /\ V[k] = U[k] /\ H[k + 1] = G[k + 1] /\ V[k + 1] = U[k + 1]
        BY <1>5, <3>1
      <3> QED
        BY <3>2, <3>3
    <2> QED
      BY <2>1, <2>2
  <1>8. H[1] = v0 /\ V[1] = <<>>
    BY <1>1, <1>3, <1>5 DEF Chained
  <1>9. Chained(v0, st, m, H, V)
    BY <1>6, <1>7, <1>8 DEF Chained
  <1> QED
    BY <1>2, <1>5, <1>9 DEF Pending

LEMMA PendingPop ==
    ASSUME NEW v0, NEW st, NEW n \in Nat, NEW y, NEW s, Pending(v0, st, n + 1, y, s)
    PROVE  \E g, u : Pending(v0, st, n, g, u) /\ Waits(st[n + 1], g, y, s, u)
  <1>1. PICK m : m = n + 1
    OBVIOUS
  <1>2. m \in Nat /\ 1 .. n \subseteq 1 .. m /\ 1 .. m \subseteq 1 .. m + 1 /\ m \in 1 .. m
    BY <1>1
  <1>3. PICK G, U : Chained(v0, st, m, G, U) /\ G[m + 1] = y /\ U[m + 1] = s
    BY <1>1 DEF Pending
  <1>4. Chained(v0, st, n, G, U)
    BY <1>1, <1>2, <1>3 DEF Chained
  <1>5. Pending(v0, st, n, G[m], U[m])
    BY <1>1, <1>4 DEF Pending
  <1>6. Waits(st[m], G[m], y, s, U[m])
    BY <1>2, <1>3 DEF Chained
  <1> QED
    BY <1>1, <1>5, <1>6

\* The call of f stands at a, is to return g with u behind it, and has s to read.
TopStands(f, g, s, u) == f.fn = "top" /\ f.vals = <<g>> /\ s = u

ArrayStands(f, a, g, s, u) ==
    /\ f.fn = "array" /\ f.vals \in Seq(Readable)
    /\ \E todo \in Seq(Readable) :
          /\ g = Arr(Cat(f.vals, todo))
          /\ \/ a = "array" /\ s = Coming(Written, todo, "]", u)
             \/ a = "after" /\ s = Ending(Written, todo, "]", u)

ObjectComes(f, g, s, u) ==
    /\ f.fn = "object" /\ f.props \in Seq(Keyings)
    /\ \E todo \in Seq(Keyings) : g = Obj(Cat(f.props, todo)) /\ s = Coming(KeyWriter, todo, "}", u)

ObjectEnds(f, g, s, u) ==
    /\ f.fn = "object" /\ f.props \in Seq(Keyings) /\ f.key \in Strings
    /\ \E y \in Readable : \E todo \in Seq(Keyings) : \E qs :
          /\ f.vals = <<y>> /\ Grown(qs, f.props, <<f.key, y>>)
          /\ g = Obj(Cat(qs, todo)) /\ s = Ending(KeyWriter, todo, "}", u)

Stands(f, a, g, s, u) ==
    \/ a = "after" /\ TopStands(f, g, s, u)
    \/ ArrayStands(f, a, g, s, u)
    \/ a = "object" /\ ObjectComes(f, g, s, u)
    \/ a = "after" /\ ObjectEnds(f, g, s, u)

Expecting(v0, t, st, p) ==
    \E y \in Readable : \E s : Pending(v0, st, Len(st), y, s) /\ Rest(t, p) = Cat(Written[y], s)

Resting(v0, t, st, a, p) ==
    \E g, u : Pending(v0, st, Len(st) - 1, g, u) /\ Stands(st[Len(st)], a, g, Rest(t, p), u)

\* What is left of the text is what the calls under way still expect.
Journey ==
    /\ at = "parse" => Expecting(wanted, text, stack, pos)
    /\ at \in {"array", "object", "after"} => Resting(wanted, text, stack, at, pos)
    /\ at = "done" => result = wanted

Kept == UNCHANGED Input /\ UNCHANGED wanted

LEMMA ToParse ==
    ASSUME Kept, NEW st, NEW p, Expecting(wanted, text, st, p),
           stack' = st, at' = "parse", pos' = p
    PROVE  Journey'
  <1>1. Expecting(wanted, text, stack, pos)'
    BY DEF Kept, Input, Expecting
  <1> QED
    BY <1>1 DEF Journey

LEMMA ToRest ==
    ASSUME Kept, NEW st, NEW a \in {"array", "object", "after"}, NEW p, NEW g, NEW u,
           Pending(wanted, st, Len(st) - 1, g, u), Stands(st[Len(st)], a, g, Rest(text, p), u),
           stack' = st, at' = a, pos' = p
    PROVE  Journey'
  <1>1. Resting(wanted, text, st, a, p)
    BY DEF Resting
  <1>2. Resting(wanted, text, stack, at, pos)'
    BY <1>1 DEF Kept, Input
  <1> QED
    BY <1>2 DEF Journey

\* The value that was waited for arrives.
LEMMA WaitsOver ==
    ASSUME NEW f, NEW g, NEW v \in Readable, NEW s, NEW u, Waits(f, g, v, s, u),
           NEW h, h.fn = f.fn, Grown(h.vals, f.vals, v), h.props = f.props, h.key = f.key
    PROVE  Stands(h, "after", g, s, u)
  <1>1. ASSUME TopWaits(f, g, v, s, u) PROVE TopStands(h, g, s, u)
    <2>1. h.vals = Append(<<>>, v)
      BY <1>1 DEF TopWaits, Grown
    <2> QED
      BY <1>1, <2>1, AppendFirst DEF TopWaits, TopStands
  <1>2. ASSUME ArrayWaits(f, g, v, s, u) PROVE ArrayStands(h, "after", g, s, u)
    <2>1. PICK vs, hs : vs = f.vals /\ hs = h.vals
      OBVIOUS
    <2>2. vs \in Seq(Readable) /\ hs = Append(vs, v)
      BY <1>2, <2>1 DEF ArrayWaits, Grown
    <2>3. hs \in Seq(Readable)
      BY <2>2, AppendProperties
    <2>4. PICK todo \in Seq(Readable) : \E us :
             Grown(us, f.vals, v) /\ g = Arr(Cat(us, todo)) /\ s = Ending(Written, todo, "]", u)
      BY <1>2 DEF ArrayWaits
    <2>5. g = Arr(Cat(hs, todo)) /\ s = Ending(Written, todo, "]", u)
      BY <2>1, <2>2, <2>4 DEF Grown
    <2>6. h.fn = "array"
      BY <1>2 DEF ArrayWaits
    <2> QED
      BY <2>1, <2>3, <2>5, <2>6 DEF ArrayStands
  <1>3. ASSUME ObjectWaits(f, g, v, s, u) PROVE ObjectEnds(h, g, s, u)
    <2>1. h.vals = <<v>>
      <3>1. h.vals = Append(<<>>, v)
        BY <1>3 DEF ObjectWaits, Grown
      <3> QED
        BY <3>1, AppendFirst
    <2>2. h.fn = "object" /\ h.props \in Seq(Keyings) /\ h.key \in Strings
      BY <1>3 DEF ObjectWaits
    <2>3. PICK todo \in Seq(Keyings) : \E qs :
             /\ Grown(qs, h.props, <<h.key, v>>)
             /\ g = Obj(Cat(qs, todo)) /\ s = Ending(KeyWriter, todo, "}", u)
      BY <1>3 DEF ObjectWaits
    <2> QED
      BY <2>1, <2>2, <2>3 DEF ObjectEnds
  <1> QED
    BY <1>1, <1>2, <1>3 DEF Waits, Stands

LEMMA WayDeliver ==
    ASSUME Kept, NEW st, Frames(st), NEW v, NEW s, Pending(wanted, st, Len(st), v, s),
           NEW q, Rest(text, q) = s, Deliver(v, q, st)
    PROVE  Journey'
  <1>1. PICK m, n, f : m = Len(st) /\ n = m - 1 /\ f = st[m]
    OBVIOUS
  <1>2. m \in 1 .. m /\ n \in Nat /\ m = n + 1 /\ m \in Nat /\ IsSeq(st) /\ IsFrame(f)
    BY <1>1, LenNat DEF Frames
  <1>3. PICK g, u : Pending(wanted, st, n, g, u) /\ Waits(st[n + 1], g, v, s, u)
    <2>1. Pending(wanted, st, n + 1, v, s)
      BY <1>1, <1>2
    <2> QED
      BY <1>2, <2>1, PendingPop
  <1>4. v \in Readable
    BY <1>1, <1>2, PendingIs
  <1>5. PICK h : h = [f EXCEPT !.vals = Append(f.vals, v)]
    OBVIOUS
  <1>6. h.fn = f.fn /\ Grown(h.vals, f.vals, v) /\ h.props = f.props /\ h.key = f.key
    BY <1>2, <1>5 DEF IsFrame, Grown
  <1>7. Stands(h, "after", g, s, u)
    BY <1>1, <1>2, <1>3, <1>4, <1>6, WaitsOver
  <1>8. PICK z : z = [st EXCEPT ![m] = h]
    OBVIOUS
  <1>9. Len(z) = m /\ z[m] = h /\ \A k \in 1 .. n : z[k] = st[k]
    <2>1. /\ Len(z) = m /\ z[m] = h
          /\ \A k \in 1 .. m : k # m => z[k] = st[k]
      BY <1>1, <1>2, <1>8, ExceptAny
    <2>2. \A k \in 1 .. n : k \in 1 .. m /\ k # m
      BY <1>2
    <2> QED
      BY <2>1, <2>2
  <1>10. Pending(wanted, z, n, g, u)
    BY <1>2, <1>3, <1>9, PendingSame
  <1>11. Pending(wanted, z, Len(z) - 1, g, u) /\ Stands(z[Len(z)], "after", g, Rest(text, q), u)
    BY <1>1, <1>7, <1>9, <1>10
  <1>12. stack' = z /\ at' = "after" /\ pos' = q
    BY <1>1, <1>5, <1>8 DEF Deliver
  <1> QED
    BY <1>11, <1>12, ToRest

LEMMA WayClose ==
    ASSUME IInv, Kept, Len(stack) > 1, NEW v, NEW u, Pending(wanted, stack, Len(stack) - 1, v, u),
           NEW p, Rest(text, p + 1) = u, Close(v, p)
    PROVE  Journey'
  <1>1. PICK st, n : st = Front(stack) /\ n = Len(stack) - 1
    OBVIOUS
  <1>2. Frames(st)
    BY <1>1, FramesPop DEF IInv
  <1>3. Len(st) = n /\ n \in Nat /\ \A k \in 1 .. n : st[k] = stack[k]
    <2>1. IsSeq(stack)
      BY DEF IInv, Frames
    <2> QED
      BY <1>1, <2>1, FrontAny
  <1>4. Pending(wanted, st, Len(st), v, u)
    BY <1>1, <1>3, PendingSame
  <1>5. Deliver(v, p + 1, st)
    BY <1>1 DEF Close
  <1> QED
    BY <1>2, <1>4, <1>5, WayDeliver

-----------------------------------------------------------------------------
(* One lemma for each kind of value that parse() may find.                 *)

\* The first letter says which of the words it is.
LEMMA FirstLetters ==
    ASSUME NEW w \in Words
    PROVE  w[1] \in {"n", "t", "f"} /\ \A v \in Words : v[1] = w[1] => v = w
  BY DEF Words

LEMMA AgreesFirst ==
    ASSUME Here \in Int, NEW w, Agrees(w, 1)
    PROVE  Ch(Here) = w[1]
  <1>1. 1 \in 1 .. 1 /\ Here + 1 - 1 = Here
    OBVIOUS
  <1> QED
    BY <1>1 DEF Agrees

\* A text that has the word is not in error over it.
LEMMA WordStep ==
    ASSUME Here \in Int, ParseWord, NEW w \in Words, Agrees(w, Len(w))
    PROVE  Deliver(Word(w), Here + Len(w), stack)
  <1>1. PICK v \in Words :
           /\ Agrees(v, 1)
           /\ \/ Agrees(v, Len(v)) /\ Deliver(Word(v), Here + Len(v), stack)
              \/ \E k \in DOMAIN v :
                    /\ Agrees(v, k - 1) /\ Ch(Here + k - 1) # v[k]
                    /\ Error(Here + k - 1)
    BY DEF ParseWord
  <1>2. Agrees(w, 1)
    BY WordsAre DEF Agrees
  <1>3. v = w
    BY <1>1, <1>2, AgreesFirst, FirstLetters
  <1>4. \A k \in DOMAIN v : Ch(Here + k - 1) = v[k]
    BY <1>3, WordsAre DEF Agrees
  <1> QED
    BY <1>1, <1>3, <1>4

\* Which step the character at it_ decides on.
LEMMA Dispatch ==
    ASSUME EndOutside, Next, at = "parse", NEW p \in Places(text), p = Here
    PROVE  /\ UNCHANGED Input
           /\ \A w \in Words : Agrees(w, Len(w)) => Deliver(Word(w), p + Len(w), stack)
           /\ Ch(p) \in {"d", "-"}
                 => Deliver(Num(SubSeq(text, p, NumberEnd(p) - 1)), NumberEnd(p), stack)
           /\ Ch(p) = "q" /\ Closed(p) => Deliver(Quoted(StringText(p)), StringEnd(p) + 1, stack)
           /\ Ch(p) = "[" => Enter("array", p)
           /\ Ch(p) = "{" => Enter("object", p)
  <1>1. /\ UNCHANGED Input
        /\ \/ ParseWord \/ ParseNumber \/ ParseString \/ ParseComma \/ ParseOther
           \/ EnterArray \/ EnterObject
    BY DEF Next, ArrayItems, ArrayAfter, ObjectProps, ObjectAfter, Return
  <1> Here \in Int
    BY Outside DEF Places
  <1>2. Closed(p) => ~ Unclosed(p)
    BY DEF Closed, Unclosed, kEOF
  <1>3. ASSUME NEW w \in Words, Agrees(w, Len(w))
        PROVE  Deliver(Word(w), p + Len(w), stack)
    <2>1. Agrees(w, 1)
      BY <1>3, WordsAre DEF Agrees
    <2>2. Ch(p) \in {"n", "t", "f"}
      BY <2>1, AgreesFirst, FirstLetters
    <2>3. ParseWord
      BY <1>1, <2>2 DEF ParseNumber, ParseString, ParseComma, ParseOther, EnterArray, EnterObject
    <2> QED
      BY <1>3, <2>3, WordStep
  <1>4. ParseWord => Ch(p) \in {"n", "t", "f"}
    BY AgreesFirst, FirstLetters DEF ParseWord
  <1>5. ASSUME Ch(p) \in {"d", "-"}
        PROVE  Deliver(Num(SubSeq(text, p, NumberEnd(p) - 1)), NumberEnd(p), stack)
    <2>1. ParseNumber
      BY <1>1, <1>4, <1>5 DEF ParseString, ParseComma, ParseOther, EnterArray, EnterObject
    <2> QED
      BY <1>5, <2>1 DEF ParseNumber
  <1>6. ASSUME Ch(p) = "q" /\ Closed(p)
        PROVE  Deliver(Quoted(StringText(p)), StringEnd(p) + 1, stack)
    <2>1. ParseString
      BY <1>1, <1>4, <1>6 DEF ParseNumber, ParseComma, ParseOther, EnterArray, EnterObject
    <2> QED
      BY <1>6, <2>1, <1>2 DEF ParseString
  <1>7. ASSUME Ch(p) = "["
        PROVE  Enter("array", p)
    <2>1. EnterArray
      BY <1>1, <1>4, <1>7 DEF ParseNumber, ParseString, ParseComma, ParseOther, EnterObject
    <2> QED
      BY <1>7, <2>1 DEF EnterArray
  <1>8. ASSUME Ch(p) = "{"
        PROVE  Enter("object", p)
    <2>1. EnterObject
      BY <1>1, <1>4, <1>8 DEF ParseNumber, ParseString, ParseComma, ParseOther, EnterArray
    <2> QED
      BY <1>8, <2>1 DEF EnterObject
  <1> QED
    BY <1>1, <1>3, <1>5, <1>6, <1>7, <1>8

\* A value that is to come begins at once, and not with a bracket that closes.
LEMMA Opening ==
    ASSUME EndOutside, NEW p \in Places(text), NEW y \in Readable, NEW s \in Chars,
           Rest(text, p) = Cat(Written[y], s)
    PROVE  Ch(p) \in Openers /\ SkipSpace(p) = p
  <1>1. PICK c \in Openers, a \in Chars : Written[y] = Cat(Mark(c), a)
    BY WrittenOpens
  <1>2. c \in Alphabet /\ c # " "
    BY DEF Openers, Letters, Alphabet
  <1>3. PICK m : m = Mark(c)
    OBVIOUS
  <1>4. m \in Chars
    BY <1>2, <1>3, MarkChars
  <1>5. Cat(Cat(m, a), s) = Cat(m, Cat(a, s)) /\ Cat(a, s) \in Chars
    BY <1>4, CatAssoc, CatChars
  <1>6. Rest(text, p) = Cat(Mark(c), Cat(a, s))
    BY <1>1, <1>3, <1>5
  <1>7. Ch(p) = c
    BY <1>2, <1>5, <1>6, CharNext
  <1>8. Ch(p) # " "
    BY <1>2, <1>7
  <1> QED
    BY <1>7, <1>8, NothingSkipped

\* it_ and the stack, in a call that goes on.
LEMMA Underway ==
    ASSUME IInv, at # "done"
    PROVE  /\ pos \in Places(text) /\ Frames(stack) /\ IsSeq(stack) /\ Len(stack) >= 1
           /\ Len(stack) \in Nat /\ Len(stack) - 1 \in Nat /\ (Len(stack) - 1) + 1 = Len(stack)
  <1>1. Frames(stack) /\ IsSeq(stack) /\ Len(stack) >= 1 /\ InText(pos)
    BY DEF IInv, Frames
  <1>2. Len(stack) \in Nat
    BY <1>1, LenNat
  <1> QED
    BY <1>1, <1>2, InPlaces

\* A value that is read at once: it is v, and w is what was written of it.
LEMMA WayLeaf ==
    ASSUME IInv, Kept, at = "parse", NEW y, NEW s, Pending(wanted, stack, Len(stack), y, s),
           NEW q, Rest(text, q) = s, NEW v, v = y, Deliver(v, q, stack)
    PROVE  Journey'
  <1>1. Frames(stack)
    BY Underway
  <1> QED
    BY <1>1, WayDeliver

LEMMA WayWord ==
    ASSUME IInv, Kept, EndOutside, Next, at = "parse", NEW p, p = pos, p = Here,
           NEW w \in Words,
           NEW s, Stops(s), Pending(wanted, stack, Len(stack), Word(w), s),
           Rest(text, p) = Cat(Written[Word(w)], s)
    PROVE  Journey'
  <1>1. p \in Places(text) /\ s \in Chars /\ w \in Chars /\ text \in Chars
    BY Underway, Outside, WordsAre DEF Stops
  <1>2. Rest(text, p) = Cat(w, s)
    BY WrittenFlat
  <1>3. PICK q : q = p + Len(w)
    OBVIOUS
  <1>4. /\ Rest(text, q) = s
        /\ \A i \in 1 .. Len(w) : p + i - 1 \in 1 .. Len(text) /\ text[p + i - 1] = w[i]
    BY <1>1, <1>2, <1>3, RestCat
  <1>5. Agrees(w, Len(w))
    BY <1>4, Outside DEF Agrees
  <1>6. Deliver(Word(w), q, stack)
    BY <1>1, <1>3, <1>5, Dispatch
  <1> QED
    BY <1>4, <1>6, WayLeaf

LEMMA WayNumber ==
    ASSUME IInv, Kept, EndOutside, Next, at = "parse", NEW p, p = pos, p = Here,
           NEW t \in Numbers, NEW s, Stops(s), Pending(wanted, stack, Len(stack), Num(t), s),
           Rest(text, p) = Cat(Written[Num(t)], s)
    PROVE  Journey'
  <1>1. p \in Places(text) /\ t \in Chars
    BY Underway, ReadableKinds
  <1>2. Rest(text, p) = Cat(t, s)
    BY <1>1, WrittenFlat
  <1>3. PICK q : q = p + Len(t)
    OBVIOUS
  <1>4. /\ Ch(p) \in {"d", "-"} /\ NumberEnd(p) = q
        /\ SubSeq(text, p, q - 1) = t /\ Rest(text, q) = s
    BY <1>1, <1>2, <1>3, NumberBack
  <1>5. Deliver(Num(SubSeq(text, p, NumberEnd(p) - 1)), NumberEnd(p), stack)
    BY <1>1, <1>4, Dispatch
  <1>6. Deliver(Num(t), q, stack)
    BY <1>4, <1>5
  <1> QED
    BY <1>4, <1>6, WayLeaf

LEMMA WayString ==
    ASSUME IInv, Kept, EndOutside, Next, at = "parse", NEW p, p = pos, p = Here,
           NEW t \in Strings, NEW s, Stops(s), Pending(wanted, stack, Len(stack), Quoted(t), s),
           Rest(text, p) = Cat(Written[Quoted(t)], s)
    PROVE  Journey'
  <1>1. p \in Places(text) /\ t \in Chars /\ s \in Chars
    BY Underway DEF Strings, Stops
  <1>2. PICK m : m = Mark("q")
    OBVIOUS
  <1>3. m \in Chars
    BY <1>2, MarkIn
  <1>4. Cat(m, s) \in Chars
    BY <1>1, <1>3, CatChars
  <1>5. Cat(Cat(Cat(m, t), m), s) = Cat(m, Cat(t, Cat(m, s)))
    BY <1>1, <1>3, CatFour
  <1>6. Rest(text, p) = Cat(Mark("q"), Cat(t, Cat(Mark("q"), s)))
    BY <1>1, <1>2, <1>5, WrittenFlat
  <1>7. PICK e : e = StringEnd(p)
    OBVIOUS
  <1>8. Ch(p) = "q" /\ Closed(p) /\ StringText(p) = t /\ Rest(text, e + 1) = s
    BY <1>1, <1>6, <1>7, StringBack
  <1>9. Deliver(Quoted(StringText(p)), StringEnd(p) + 1, stack)
    BY <1>1, <1>8, Dispatch
  <1>10. Deliver(Quoted(t), e + 1, stack)
    BY <1>7, <1>8, <1>9
  <1> QED
    BY <1>8, <1>10, WayLeaf

\* A call begins that is to return g, with nothing gathered yet.
LEMMA WayEnter ==
    ASSUME IInv, Kept, EndOutside, at = "parse", NEW fn \in {"array", "object"}, NEW p, Enter(fn, p),
           NEW g, NEW u, Pending(wanted, stack, Len(stack), g, u),
           Stands(Frame(fn), fn, g, Rest(text, p + 1), u)
    PROVE  Journey'
  <1>1. PICK f, st, n : f = Frame(fn) /\ st = Append(stack, f) /\ n = Len(stack)
    OBVIOUS
  <1>2. IsSeq(stack) /\ n \in Nat
    BY <1>1, Underway
  <1>3. Len(st) = n + 1 /\ st[n + 1] = f /\ \A k \in 1 .. n : st[k] = stack[k]
    BY <1>1, <1>2, AppendAny
  <1>4. Pending(wanted, st, n, g, u)
    BY <1>1, <1>2, <1>3, PendingSame
  <1>5. (n + 1) - 1 = n
    BY <1>2
  <1>6. Pending(wanted, st, Len(st) - 1, g, u) /\ Stands(st[Len(st)], fn, g, Rest(text, p + 1), u)
    BY <1>1, <1>3, <1>4, <1>5
  <1>7. stack' = st /\ at' = fn /\ pos' = p + 1
    BY <1>1 DEF Enter
  <1> QED
    BY <1>6, <1>7, ToRest

LEMMA WayArray ==
    ASSUME IInv, Kept, EndOutside, Next, at = "parse", NEW p, p = pos, p = Here,
           NEW vs \in Seq(Readable), Arr(vs) \in Readable,
           NEW s, Stops(s), Pending(wanted, stack, Len(stack), Arr(vs), s),
           Rest(text, p) = Cat(Written[Arr(vs)], s)
    PROVE  Journey'
  <1>1. p \in Places(text) /\ s \in Chars /\ "[" \in Alphabet
    BY Underway, Marks DEF Stops
  <1>2. vs \in Seq(Writables) /\ Arr(vs) \in Writables
    BY ReadableKinds, SeqMonotonic
  <1>3. PICK c : c = Coming(Written, vs, "]", s)
    OBVIOUS
  <1>4. c \in Chars
    BY <1>1, <1>2, <1>3, WriterIs, ListEnds
  <1>5. Rest(text, p) = Cat(Mark("["), c)
    BY <1>1, <1>2, <1>3, WrittenArr
  <1>6. Ch(p) = "[" /\ Rest(text, p + 1) = c
    BY <1>1, <1>4, <1>5, CharNext
  <1>7. Enter("array", p)
    BY <1>1, <1>6, Dispatch
  <1>8. PICK f : f = Frame("array")
    OBVIOUS
  <1>9. f.fn = "array" /\ f.vals = <<>>
    BY <1>8 DEF Frame
  <1>10. Cat(<<>>, vs) = vs /\ <<>> \in Seq(Readable)
    BY ConcatEmptySeq DEF Cat
  <1>11. ArrayStands(f, "array", Arr(vs), c, s)
    BY <1>3, <1>9, <1>10 DEF ArrayStands
  <1>12. Stands(Frame("array"), "array", Arr(vs), Rest(text, p + 1), s)
    BY <1>6, <1>8, <1>11 DEF Stands
  <1> QED
    BY <1>7, <1>12, WayEnter

LEMMA WayObject ==
    ASSUME IInv, Kept, EndOutside, Next, at = "parse", NEW p, p = pos, p = Here,
           NEW ps \in Seq(Keyings), Obj(ps) \in Readable,
           NEW s, Stops(s), Pending(wanted, stack, Len(stack), Obj(ps), s),
           Rest(text, p) = Cat(Written[Obj(ps)], s)
    PROVE  Journey'
  <1>1. p \in Places(text) /\ s \in Chars /\ "{" \in Alphabet
    BY Underway, Marks DEF Stops
  <1>2. ps \in Seq(Pairs(Writables)) /\ Obj(ps) \in Writables
    BY ReadableKinds, SeqMonotonic
  <1>3. PICK c : c = Coming(KeyWriter, ps, "}", s)
    OBVIOUS
  <1>4. c \in Chars
    BY <1>1, <1>2, <1>3, WriterIs, ListEnds
  <1>5. Rest(text, p) = Cat(Mark("{"), c)
    BY <1>1, <1>2, <1>3, WrittenObj
  <1>6. Ch(p) = "{" /\ Rest(text, p + 1) = c
    BY <1>1, <1>4, <1>5, CharNext
  <1>7. Enter("object", p)
    BY <1>1, <1>6, Dispatch
  <1>8. PICK f : f = Frame("object")
    OBVIOUS
  <1>9. f.fn = "object" /\ f.props = <<>>
    BY <1>8 DEF Frame
  <1>10. Cat(<<>>, ps) = ps /\ <<>> \in Seq(Keyings)
    BY ConcatEmptySeq DEF Cat
  <1>11. ObjectComes(f, Obj(ps), c, s)
    BY <1>3, <1>9, <1>10 DEF ObjectComes
  <1>12. Stands(Frame("object"), "object", Obj(ps), Rest(text, p + 1), s)
    BY <1>6, <1>8, <1>11 DEF Stands
  <1> QED
    BY <1>7, <1>12, WayEnter

LEMMA WayParse ==
    ASSUME IInv, Kept, EndOutside, Journey, Next, at = "parse"
    PROVE  Journey'
  <1>1. PICK p : p = pos
    OBVIOUS
  <1>2. PICK y, s : /\ y \in Readable /\ Pending(wanted, stack, Len(stack), y, s)
                    /\ Rest(text, p) = Cat(Written[y], s)
    BY <1>1 DEF Journey, Expecting
  <1>3. p \in Places(text) /\ Len(stack) \in Nat
    BY <1>1, Underway
  <1>4. Stops(s) /\ s \in Chars
    <2>1. PICK n : n = Len(stack)
      OBVIOUS
    <2>2. n \in Nat /\ Pending(wanted, stack, n, y, s)
      BY <1>2, <1>3, <2>1
    <2>3. Stops(s)
      BY <2>2, PendingIs
    <2> QED
      BY <2>3 DEF Stops
  <1>5. p = Here
    BY <1>1, <1>2, <1>3, <1>4, Opening DEF Here
  <1>6. ASSUME NEW w \in Words, y = Word(w) PROVE Journey'
    BY <1>1, <1>2, <1>4, <1>5, <1>6, WayWord
  <1>7. ASSUME NEW t \in Numbers, y = Num(t) PROVE Journey'
    BY <1>1, <1>2, <1>4, <1>5, <1>7, WayNumber
  <1>8. ASSUME NEW t \in Strings, y = Quoted(t) PROVE Journey'
    BY <1>1, <1>2, <1>4, <1>5, <1>8, WayString
  <1>9. ASSUME NEW vs \in Seq(Readable), y = Arr(vs) PROVE Journey'
    BY <1>1, <1>2, <1>4, <1>5, <1>9, WayArray
  <1>10. ASSUME NEW ps \in Seq(Keyings), y = Obj(ps) PROVE Journey'
    BY <1>1, <1>2, <1>4, <1>5, <1>10, WayObject
  <1>11. \/ \E w \in Words : y = Word(w)
         \/ \E t \in Numbers : y = Num(t)
         \/ \E t \in Strings : y = Quoted(t)
         \/ \E vs \in Seq(Readable) : y = Arr(vs)
         \/ \E ps \in Seq(Keyings) : y = Obj(ps)
    BY <1>2, ReadableKinds
  <1> QED
    BY <1>6, <1>7, <1>8, <1>9, <1>10, <1>11, Zenon

-----------------------------------------------------------------------------
(* parseArray and parseObject, at an item and behind one.                  *)

\* Which call goes on, and how.
LEMMA DispatchRest ==
    ASSUME Next
    PROVE  /\ UNCHANGED Input
           /\ at = "array" => ArrayItems
           /\ at = "object" => ObjectProps
           /\ at = "after" /\ Top.fn = "array" => ArrayAfter
           /\ at = "after" /\ Top.fn = "object" => ObjectAfter
           /\ at = "after" /\ Top.fn = "top" => Return
           /\ at # "done"
  BY DEF Next, ParseWord, ParseNumber, ParseString, ParseComma, ParseOther, EnterArray, EnterObject,
         ArrayItems, ArrayAfter, ObjectProps, ObjectAfter, Return

\* The last bracket, or a comma: no space goes before it.
LEMMA MarkSeen ==
    ASSUME EndOutside, NEW p \in Places(text), NEW c \in {",", "]", "}"}, NEW b \in Chars,
           Rest(text, p) = Cat(Mark(c), b)
    PROVE  Ch(p) = c /\ SkipSpace(p) = p /\ Rest(text, p + 1) = b
  <1>1. c \in Alphabet
    BY Marks
  <1>2. Ch(p) = c /\ Rest(text, p + 1) = b
    BY <1>1, CharNext
  <1>3. Ch(p) # " "
    BY <1>2
  <1> QED
    BY <1>2, <1>3, NothingSkipped

LEMMA NoneAdded ==
    ASSUME NEW S, NEW vs \in Seq(S)
    PROVE  Cat(vs, <<>>) = vs
  BY ConcatEmptySeq DEF Cat

\* The innermost array, f, with todo still to come, at an item and behind one.
LEMMA WayArrayItems ==
    ASSUME IInv, Kept, EndOutside, Next, at = "array", NEW p, p = pos, NEW f, f = Top,
           f.fn = "array", f.vals \in Seq(Readable), NEW todo \in Seq(Readable),
           NEW g, g = Arr(Cat(f.vals, todo)), NEW u, Stops(u),
           NEW n, n = Len(stack) - 1, Pending(wanted, stack, n, g, u),
           Rest(text, p) = Coming(Written, todo, "]", u)
    PROVE  Journey'
  <1>1. /\ p \in Places(text) /\ n \in Nat /\ n + 1 = Len(stack) /\ u \in Chars
        /\ Len(stack) > 1 /\ ArrayItems
    BY Underway, InACall, DispatchRest DEF Stops
  <1>2. PICK w, S, vs : w = Written /\ S = Writables /\ vs = f.vals
    OBVIOUS
  <1>3. w \in [S -> Chars] /\ Readable \subseteq S /\ todo \in Seq(S) /\ vs \in Seq(Readable)
    BY <1>2, WriterIs, ReadableKinds, SeqMonotonic
  <1>4. CASE todo = <<>>
    <2>1. Cat(Mark("]"), u) \in Chars
      BY <1>1, MarkIn, CatChars
    <2>2. Rest(text, p) = Cat(Mark("]"), u)
      <3>1. Coming(w, <<>>, "]", u) = Cat(Mark("]"), u)
        BY <2>1, NoneComing
      <3> QED
        BY <1>2, <1>4, <3>1, Zenon
    <2>3. Ch(p) = "]" /\ SkipSpace(p) = p /\ Rest(text, p + 1) = u
      BY <1>1, <2>2, MarkSeen
    <2>4. g = Arr(vs)
      BY <1>2, <1>3, <1>4, NoneAdded
    <2>5. Close(g, p)
      BY <1>1, <1>2, <2>3, <2>4 DEF ArrayItems, Here
    <2> QED
      BY <1>1, <2>3, <2>5, WayClose
  <1>5. CASE todo # <<>>
    <2>1. PICK y \in Readable, r \in Seq(Readable) : Led(todo, y, r)
      BY <1>5, SeqLed
    <2>2. PICK e : e = Ending(w, r, "]", u)
      OBVIOUS
    <2>3. y \in S /\ r \in Seq(S)
      BY <1>3, <2>1, SeqMonotonic
    <2>4. Stops(e) /\ e \in Chars
      <3>1. Stops(Ending(w, r, "]", u))
        BY <1>1, <1>3, <2>3, StopsEnding
      <3> QED
        BY <2>2, <3>1 DEF Stops
    <2>5. Rest(text, p) = Cat(w[y], e)
      <3>1. Coming(w, todo, "]", u) = Cat(w[y], Ending(w, r, "]", u))
        BY <1>1, <1>3, <2>1, <2>3, ComingHead
      <3> QED
        BY <1>2, <2>2, <3>1, Zenon
    <2>6. Ch(p) # "]" /\ SkipSpace(p) = p
      <3>1. Ch(p) \in Openers /\ SkipSpace(p) = p
        BY <1>1, <1>2, <2>1, <2>4, <2>5, Opening
      <3>2. "]" \notin Openers
        BY DEF Openers, Letters
      <3> QED
        BY <3>1, <3>2
    <2>7. Goto("parse", p)
      BY <1>1, <2>6 DEF ArrayItems, Here
    <2>8. PICK us : Grown(us, vs, y)
      BY DEF Grown
    <2>9. Cat(vs, todo) = Cat(us, r)
      BY <1>3, <2>1, <2>8, LedPassed
    <2>10. ArrayWaits(f, g, y, e, u)
      BY <1>2, <1>3, <2>1, <2>2, <2>8, <2>9 DEF ArrayWaits
    <2>11. Waits(stack[n + 1], g, y, e, u)
      BY <1>1, <2>10 DEF Waits, Top
    <2>12. Pending(wanted, stack, n + 1, y, e)
      BY <1>1, <2>1, <2>4, <2>11, PendingPush
    <2>13. Expecting(wanted, text, stack, p)
      BY <1>1, <1>2, <2>1, <2>5, <2>12 DEF Expecting
    <2> QED
      BY <2>7, <2>13, ToParse DEF Goto
  <1> QED
    BY <1>4, <1>5

LEMMA WayArrayAfter ==
    ASSUME IInv, Kept, EndOutside, Next, at = "after", NEW p, p = pos, NEW f, f = Top,
           f.fn = "array", f.vals \in Seq(Readable), NEW todo \in Seq(Readable),
           NEW g, g = Arr(Cat(f.vals, todo)), NEW u, Stops(u),
           NEW n, n = Len(stack) - 1, Pending(wanted, stack, n, g, u),
           Rest(text, p) = Ending(Written, todo, "]", u)
    PROVE  Journey'
  <1>1. /\ p \in Places(text) /\ n \in Nat /\ n + 1 = Len(stack) /\ u \in Chars
        /\ Len(stack) > 1 /\ ArrayAfter
    BY Underway, InACall, DispatchRest DEF Stops
  <1>2. PICK w, S, vs : w = Written /\ S = Writables /\ vs = f.vals
    OBVIOUS
  <1>3. w \in [S -> Chars] /\ todo \in Seq(S) /\ vs \in Seq(Readable)
    BY <1>2, WriterIs, ReadableKinds, SeqMonotonic
  <1>4. Cat(Mark("]"), u) \in Chars
    BY <1>1, MarkIn, CatChars
  <1>5. CASE todo = <<>>
    <2>1. Rest(text, p) = Cat(Mark("]"), u)
      <3>1. Ending(w, <<>>, "]", u) = Cat(Mark("]"), u)
        BY <1>4, NoneComing
      <3> QED
        BY <1>2, <1>5, <3>1, Zenon
    <2>2. Ch(p) = "]" /\ Rest(text, p + 1) = u
      BY <1>1, <2>1, MarkSeen
    <2>3. g = Arr(vs)
      BY <1>2, <1>3, <1>5, NoneAdded
    <2>4. Close(g, p)
      BY <1>1, <1>2, <2>2, <2>3 DEF ArrayAfter
    <2> QED
      BY <1>1, <2>2, <2>4, WayClose
  <1>6. CASE todo # <<>>
    <2>1. PICK c : c = Coming(w, todo, "]", u)
      OBVIOUS
    <2>2. c \in Chars
      BY <1>1, <1>3, <2>1, ListEnds
    <2>3. Rest(text, p) = Cat(Mark(","), c)
      <3>1. Ending(w, todo, "]", u) = Cat(Mark(","), Coming(w, todo, "]", u))
        BY <1>3, <1>4, <1>6, SomeComing
      <3> QED
        BY <1>2, <2>1, <3>1, Zenon
    <2>4. Ch(p) = "," /\ SkipSpace(p) = p /\ Rest(text, p + 1) = c
      BY <1>1, <2>2, <2>3, MarkSeen
    <2>5. Goto("array", p + 1)
      BY <1>1, <2>4 DEF ArrayAfter, Here
    <2>6. ArrayStands(f, "array", g, c, u)
      BY <1>2, <1>3, <2>1 DEF ArrayStands
    <2>7. Stands(stack[Len(stack)], "array", g, Rest(text, p + 1), u)
      BY <2>4, <2>6 DEF Stands, Top
    <2> QED
      BY <2>5, <2>7, ToRest DEF Goto
  <1> QED
    BY <1>5, <1>6

LEMMA KeyingIs ==
    ASSUME NEW q \in Keyings
    PROVE  \E k, y : k \in Strings /\ y \in Readable /\ q = <<k, y>>
  <1>1. q \in Strings \X Readable
    BY DEF Keyings
  <1> QED
    BY <1>1

LEMMA OneIs == \A y : Len(<<y>>) = 1 /\ <<y>>[1] = y
  OBVIOUS

\* st is s with another last element.
Topped(st, s, h) == st = [s EXCEPT ![Len(s)] = h]

LEMMA LastSet ==
    ASSUME NEW s, IsSeq(s), NEW n \in Nat, Len(s) = n + 1, NEW h, NEW st, Topped(st, s, h)
    PROVE  Len(st) = n + 1 /\ st[n + 1] = h /\ \A i \in 1 .. n : st[i] = s[i]
  <1>1. PICK m : m = Len(s)
    OBVIOUS
  <1>2. m \in 1 .. Len(s) /\ m = n + 1 /\ \A i \in 1 .. n : i \in 1 .. Len(s) /\ i # m
    BY <1>1
  <1>3. Len(st) = m /\ st[m] = h /\ \A i \in 1 .. Len(s) : i # m => st[i] = s[i]
    BY <1>1, <1>2, ExceptAny DEF Topped
  <1> QED
    BY <1>2, <1>3

LEMMA TopFrame == IInv => IsFrame(Top)
  BY LenNat DEF IInv, Frames, Top

LEMMA WayObjectProps ==
    ASSUME IInv, Kept, EndOutside, Next, at = "object", NEW p, p = pos, NEW f, f = Top,
           f.fn = "object", f.props \in Seq(Keyings), NEW todo \in Seq(Keyings),
           NEW g, g = Obj(Cat(f.props, todo)), NEW u, Stops(u),
           NEW n, n = Len(stack) - 1, Pending(wanted, stack, n, g, u),
           Rest(text, p) = Coming(KeyWriter, todo, "}", u)
    PROVE  Journey'
  <1>1. /\ p \in Places(text) /\ n \in Nat /\ n + 1 = Len(stack) /\ u \in Chars
        /\ Len(stack) > 1 /\ IsSeq(stack) /\ ObjectProps
    BY Underway, InACall, DispatchRest DEF Stops
  <1>2. PICK w, S, ps : w = KeyWriter /\ S = Pairs(Writables) /\ ps = f.props
    OBVIOUS
  <1>3. w \in [S -> Chars] /\ Keyings \subseteq S /\ todo \in Seq(S) /\ ps \in Seq(Keyings)
    BY <1>2, WriterIs, ReadableKinds, SeqMonotonic
  <1>4. CASE todo = <<>>
    <2>1. Cat(Mark("}"), u) \in Chars
      BY <1>1, MarkIn, CatChars
    <2>2. Rest(text, p) = Cat(Mark("}"), u)
      <3>1. Coming(w, <<>>, "}", u) = Cat(Mark("}"), u)
        BY <2>1, NoneComing
      <3> QED
        BY <1>2, <1>4, <3>1, Zenon
    <2>3. Ch(p) = "}" /\ SkipSpace(p) = p /\ Rest(text, p + 1) = u
      BY <1>1, <2>2, MarkSeen
    <2>4. g = Obj(ps)
      BY <1>2, <1>3, <1>4, NoneAdded
    <2>5. Close(g, p)
      BY <1>1, <1>2, <2>3, <2>4 DEF ObjectProps, Here
    <2> QED
      BY <1>1, <2>3, <2>5, WayClose
  <1>5. CASE todo # <<>>
    <2>1. PICK q \in Keyings, r \in Seq(Keyings) : Led(todo, q, r)
      BY <1>5, SeqLed
    <2>2. PICK k, y : k \in Strings /\ y \in Readable /\ q = <<k, y>>
      BY KeyingIs
    <2>3. k \in Chars /\ y \in Writables /\ q \in S /\ r \in Seq(S)
      BY <1>3, <2>1, <2>2, ReadableKinds, SeqMonotonic
    <2>4. PICK e, x, b : e = Ending(w, r, "}", u) /\ x = Cat(Written[y], e) /\ b = Cat(Mark(":"), x)
      OBVIOUS
    <2>5. Stops(e) /\ e \in Chars
      <3>1. Stops(Ending(w, r, "}", u))
        BY <1>1, <1>3, <2>3, StopsEnding
      <3> QED
        BY <2>4, <3>1 DEF Stops
    <2>6. x \in Chars /\ b \in Chars
      <3>1. Written[y] \in Chars
        BY <2>3, WriterIs
      <3> QED
        BY <2>4, <2>5, <3>1, MarkIn, CatChars
    <2>7. Rest(text, p) = Cat(Mark("q"), Cat(k, Cat(Mark("q"), b)))
      <3>1. Coming(w, todo, "}", u) = Cat(w[q], Ending(w, r, "}", u))
        <4>1. w \in [S -> Chars] /\ q \in S /\ r \in Seq(S) /\ Led(todo, q, r) /\ u \in Chars
          BY <1>1, <1>3, <2>1, <2>3
        <4> QED
          BY ONLY <4>1, ComingHead
      <3>2. Rest(text, p) = Cat(KeyWriter[q], e)
        BY <1>2, <2>4, <3>1, Zenon
      <3>3. Cat(KeyWriter[q], e) = Cat(Mark("q"), Cat(k, Cat(Mark("q"), Cat(Mark(":"), Cat(Written[y], e)))))
        <4>1. k \in Chars /\ y \in Writables /\ q = <<k, y>> /\ e \in Chars
          BY <2>2, <2>3, <2>5
        <4> QED
          BY ONLY <4>1, WrittenKey
      <3> QED
        BY <2>4, <3>2, <3>3
    <2>8. PICK d, z : d = StringEnd(p) /\ z = d + 1
      OBVIOUS
    <2>9. Ch(p) = "q" /\ Closed(p) /\ StringText(p) = k /\ z \in Places(text) /\ Rest(text, z) = b
      <3>1. Ch(p) = "q" /\ Closed(p) /\ StringText(p) = k /\ d + 1 \in Places(text)
            /\ Rest(text, d + 1) = b
        <4>1. EndOutside /\ p \in Places(text) /\ k \in Strings /\ b \in Chars /\ d = StringEnd(p)
          BY <1>1, <2>2, <2>6, <2>8
        <4> QED
          BY ONLY <2>7, <4>1, StringBack
      <3> QED
        BY <2>8, <3>1
    <2>10. SkipSpace(p) = p
      BY <1>1, <2>9, NothingSkipped
    <2>11. Ch(z) = ":" /\ Rest(text, z + 1) = x
      <3>1. ":" \in Alphabet
        BY Marks
      <3>2. Rest(text, z) = Cat(Mark(":"), x) /\ z \in Places(text)
        BY <2>4, <2>9
      <3> QED
        BY <2>6, <3>1, <3>2, CharNext
    <2>12. SkipSpace(z) = z
      BY <2>9, <2>11, NothingSkipped
    <2>13. ObjectColon(k, z)
      <3>1. ~ Unclosed(p)
        BY <2>9 DEF Closed, Unclosed, kEOF
      <3> QED
        BY <1>1, <2>8, <2>9, <2>10, <3>1 DEF ObjectProps, Here
    <2>14. PICK h, st : h = Keyed(f, k) /\ Topped(st, stack, h)
      BY DEF Topped
    <2>15. stack' = st /\ at' = "parse" /\ pos' = z + 1
      BY <1>1, <2>11, <2>12, <2>13, <2>14 DEF ObjectColon, Keyed, Topped
    <2>16. h.fn = "object" /\ h.vals = <<>> /\ h.props = ps /\ h.key = k
      BY <1>2, <2>14 DEF Keyed
    <2>17. Len(st) = n + 1 /\ st[n + 1] = h /\ \A i \in 1 .. n : st[i] = stack[i]
      <3>1. n \in Nat /\ Len(stack) = n + 1 /\ IsSeq(stack) /\ Topped(st, stack, h)
        BY <1>1, <2>14
      <3> QED
        BY ONLY <3>1, LastSet
    <2>18. Pending(wanted, st, n, g, u)
      BY <1>1, <2>17, PendingSame
    <2>19. PICK qs : Grown(qs, ps, q)
      BY DEF Grown
    <2>20. Cat(ps, todo) = Cat(qs, r)
      <3>1. PICK T : T = Keyings
        OBVIOUS
      <3>2. ps \in Seq(T) /\ q \in T /\ r \in Seq(T)
        BY <1>3, <2>1, <3>1
      <3>3. Led(todo, q, r) /\ Grown(qs, ps, q)
        BY <2>1, <2>19
      <3> QED
        BY ONLY <3>2, <3>3, LedPassed
    <2>21. ObjectWaits(h, g, y, e, u)
      BY <1>2, <1>3, <2>1, <2>2, <2>4, <2>16, <2>19, <2>20 DEF ObjectWaits
    <2>22. Waits(st[n + 1], g, y, e, u)
      BY <2>17, <2>21 DEF Waits
    <2>23. Pending(wanted, st, n + 1, y, e)
      BY <1>1, <2>2, <2>5, <2>18, <2>22, PendingPush
    <2>24. Expecting(wanted, text, st, z + 1)
      BY <2>2, <2>4, <2>11, <2>17, <2>23 DEF Expecting
    <2> QED
      BY <2>15, <2>24, ToParse
  <1> QED
    BY <1>4, <1>5

LEMMA WayObjectAfter ==
    ASSUME IInv, Kept, EndOutside, Next, at = "after", NEW p, p = pos, NEW f, f = Top,
           f.fn = "object", f.props \in Seq(Keyings), f.key \in Strings,
           NEW y \in Readable, f.vals = <<y>>, NEW qs, Grown(qs, f.props, <<f.key, y>>),
           NEW todo \in Seq(Keyings), NEW g, g = Obj(Cat(qs, todo)), NEW u, Stops(u),
           NEW n, n = Len(stack) - 1, Pending(wanted, stack, n, g, u),
           Rest(text, p) = Ending(KeyWriter, todo, "}", u)
    PROVE  Journey'
  <1>1. /\ p \in Places(text) /\ n \in Nat /\ n + 1 = Len(stack) /\ u \in Chars
        /\ Len(stack) > 1 /\ IsSeq(stack) /\ ObjectAfter
    BY Underway, InACall, DispatchRest DEF Stops
  <1>2. PICK w, S : w = KeyWriter /\ S = Pairs(Writables)
    OBVIOUS
  <1>3. w \in [S -> Chars] /\ todo \in Seq(S)
    BY <1>2, WriterIs, ReadableKinds, SeqMonotonic
  <1>4. Len(f.vals) = 1 /\ f.vals[1] = y
    BY OneIs
  <1>5. qs = Append(f.props, <<f.key, f.vals[1]>>) /\ qs \in Seq(Keyings)
    <2>1. PICK q : q = <<f.key, y>>
      OBVIOUS
    <2>2. q \in Keyings
      BY <2>1 DEF Keyings
    <2>3. Append(f.props, q) \in Seq(Keyings)
      BY <2>2, AppendProperties
    <2> QED
      BY <1>4, <2>1, <2>3 DEF Grown
  <1>6. Cat(Mark("}"), u) \in Chars
    BY <1>1, MarkIn, CatChars
  <1>7. CASE todo = <<>>
    <2>1. Rest(text, p) = Cat(Mark("}"), u)
      <3>1. Ending(w, <<>>, "}", u) = Cat(Mark("}"), u)
        BY <1>6, NoneComing
      <3> QED
        BY <1>2, <1>7, <3>1, Zenon
    <2>2. Ch(p) = "}" /\ SkipSpace(p) = p /\ Rest(text, p + 1) = u
      BY <1>1, <2>1, MarkSeen
    <2>3. g = Obj(qs)
      BY <1>5, <1>7, NoneAdded
    <2>4. Close(g, p)
      BY <1>1, <1>4, <1>5, <2>2, <2>3 DEF ObjectAfter, Here
    <2> QED
      BY <1>1, <2>2, <2>4, WayClose
  <1>8. CASE todo # <<>>
    <2>1. PICK c : c = Coming(w, todo, "}", u)
      OBVIOUS
    <2>2. c \in Chars
      BY <1>1, <1>3, <2>1, ListEnds
    <2>3. Rest(text, p) = Cat(Mark(","), c)
      <3>1. Ending(w, todo, "}", u) = Cat(Mark(","), Coming(w, todo, "}", u))
        BY <1>3, <1>6, <1>8, SomeComing
      <3> QED
        BY <1>2, <2>1, <3>1, Zenon
    <2>4. Ch(p) = "," /\ SkipSpace(p) = p /\ Rest(text, p + 1) = c
      BY <1>1, <2>2, <2>3, MarkSeen
    <2>5. PICK h, st : h = [f EXCEPT !.props = qs] /\ Topped(st, stack, h)
      BY DEF Topped
    <2>6. stack' = st /\ at' = "object" /\ pos' = p + 1
      <3>1. stack' = [stack EXCEPT ![Len(stack)].props = qs] /\ at' = "object" /\ pos' = p + 1
        BY <1>1, <1>4, <1>5, <2>4 DEF ObjectAfter, Here
      <3> QED
        BY <1>1, <2>5, <3>1 DEF Top, Topped
    <2>7. h.fn = "object" /\ h.props = qs
      <3>1. IsFrame(f)
        BY TopFrame
      <3> QED
        BY <2>5, <3>1 DEF IsFrame
    <2>8. Len(st) = n + 1 /\ st[n + 1] = h /\ \A i \in 1 .. n : st[i] = stack[i]
      <3>1. n \in Nat /\ Len(stack) = n + 1 /\ IsSeq(stack) /\ Topped(st, stack, h)
        BY <1>1, <2>5
      <3> QED
        BY ONLY <3>1, LastSet
    <2>9. Pending(wanted, st, Len(st) - 1, g, u)
      <3>1. Pending(wanted, st, n, g, u)
        BY <1>1, <2>8, PendingSame
      <3>2. Len(st) - 1 = n
        BY <1>1, <2>8
      <3> QED
        BY <3>1, <3>2
    <2>10. ObjectComes(h, g, c, u)
      BY <1>2, <1>5, <2>1, <2>7 DEF ObjectComes
    <2>11. Stands(st[Len(st)], "object", g, Rest(text, p + 1), u)
      BY <2>4, <2>8, <2>10 DEF Stands
    <2> QED
      BY <2>6, <2>9, <2>11, ToRest
  <1> QED
    BY <1>7, <1>8

LEMMA WayReturn ==
    ASSUME IInv, Kept, Next, at = "after", NEW f, f = Top, NEW g, NEW s, NEW u, TopStands(f, g, s, u),
           NEW n, n = Len(stack) - 1, Pending(wanted, stack, n, g, u)
    PROVE  Journey'
  <1>1. Return /\ Len(stack) = 1
    BY InNoCall, DispatchRest DEF TopStands
  <1>2. n = 0
    BY <1>1
  <1>3. g = wanted
    <2>1. Pending(wanted, stack, 0, g, u)
      BY <1>2
    <2> QED
      BY <2>1, PendingFirst
  <1>4. f.vals[1] = g
    BY DEF TopStands
  <1>5. result' = g /\ at' = "done" /\ wanted' = wanted
    BY <1>1, <1>4 DEF Return, Kept
  <1> QED
    BY <1>3, <1>5 DEF Journey

LEMMA WayRest ==
    ASSUME IInv, Kept, EndOutside, Journey, Next, at \in {"array", "object", "after"}
    PROVE  Journey'
  <1>1. PICK p, f, n : p = pos /\ f = Top /\ n = Len(stack) - 1
    OBVIOUS
  <1>2. PICK g, u : Pending(wanted, stack, n, g, u) /\ Stands(f, at, g, Rest(text, p), u)
    BY <1>1 DEF Journey, Resting, Top
  <1>3. n \in Nat
    BY <1>1, Underway
  <1>4. Stops(u)
    BY <1>2, <1>3, PendingIs
  <1>5. ASSUME at = "after", TopStands(f, g, Rest(text, p), u) PROVE Journey'
    BY <1>1, <1>2, <1>5, WayReturn
  <1>6. ASSUME ArrayStands(f, at, g, Rest(text, p), u) PROVE Journey'
    <2>1. f.fn = "array" /\ f.vals \in Seq(Readable)
      BY <1>6 DEF ArrayStands
    <2>2. PICK todo \in Seq(Readable) :
             /\ g = Arr(Cat(f.vals, todo))
             /\ \/ at = "array" /\ Rest(text, p) = Coming(Written, todo, "]", u)
                \/ at = "after" /\ Rest(text, p) = Ending(Written, todo, "]", u)
      BY <1>6 DEF ArrayStands
    <2>3. CASE at = "array" /\ Rest(text, p) = Coming(Written, todo, "]", u)
      BY <1>1, <1>2, <1>4, <2>1, <2>2, <2>3, WayArrayItems
    <2>4. CASE at = "after" /\ Rest(text, p) = Ending(Written, todo, "]", u)
      BY <1>1, <1>2, <1>4, <2>1, <2>2, <2>4, WayArrayAfter
    <2> QED
      BY <2>2, <2>3, <2>4
  <1>7. ASSUME at = "object", ObjectComes(f, g, Rest(text, p), u) PROVE Journey'
    <2>1. f.fn = "object" /\ f.props \in Seq(Keyings)
      BY <1>7 DEF ObjectComes
    <2>2. PICK todo \in Seq(Keyings) :
             g = Obj(Cat(f.props, todo)) /\ Rest(text, p) = Coming(KeyWriter, todo, "}", u)
      BY <1>7 DEF ObjectComes
    <2> QED
      BY <1>1, <1>2, <1>4, <1>7, <2>1, <2>2, WayObjectProps
  <1>8. ASSUME at = "after", ObjectEnds(f, g, Rest(text, p), u) PROVE Journey'
    <2>1. f.fn = "object" /\ f.props \in Seq(Keyings) /\ f.key \in Strings
      BY <1>8 DEF ObjectEnds
    <2>2. PICK y, todo, qs :
             /\ y \in Readable /\ todo \in Seq(Keyings)
             /\ f.vals = <<y>> /\ Grown(qs, f.props, <<f.key, y>>)
             /\ g = Obj(Cat(qs, todo)) /\ Rest(text, p) = Ending(KeyWriter, todo, "}", u)
      BY <1>8 DEF ObjectEnds
    <2> QED
      BY <1>1, <1>2, <1>4, <1>8, <2>1, <2>2, WayObjectAfter
  <1> QED
    BY <1>2, <1>5, <1>6, <1>7, <1>8 DEF Stands

-----------------------------------------------------------------------------
(* The invariant behind RoundTrip.                                         *)

OnWay == wanted \in Readable /\ end \notin 1 .. Len(text) => Journey

LEMMA WayBegin == TripInit => OnWay
  <1> SUFFICES ASSUME TripInit, wanted \in Readable, end \notin 1 .. Len(text) PROVE Journey
    BY DEF OnWay
  <1>1. wanted \in Values /\ text = Written[wanted] /\ Begin
    BY NoneUnreadable DEF TripInit, Written
  <1>2. PICK y, f : y = wanted /\ f = Frame("top")
    OBVIOUS
  <1>3. text \in Chars /\ y \in Readable
    BY <1>2, TripInitIInv DEF IInv, TextOK
  <1>4. Rest(text, 1) = Cat(Written[y], <<>>)
    <2>1. Cat(text, <<>>) = text
      BY <1>3, CatEmpty
    <2> QED
      BY <1>1, <1>2, <1>3, <2>1, RestStart
  <1>5. stack = <<f>> /\ at = "parse" /\ pos = 1
    BY <1>1, <1>2 DEF Begin
  <1>6. Len(stack) = 1 /\ stack[1] = f
    BY <1>5, OneIs
  <1>7. f.fn = "top" /\ f.vals = <<>>
    BY <1>2 DEF Frame
  <1>8. Waits(f, y, y, <<>>, <<>>)
    BY <1>7 DEF Waits, TopWaits
  <1>9. Pending(y, stack, 1, y, <<>>)
    <2>1. Pending(y, stack, 0, y, <<>>)
      BY <1>3, PendingNone
    <2>2. 0 \in Nat /\ 0 + 1 = 1
      OBVIOUS
    <2>3. Waits(stack[0 + 1], y, y, <<>>, <<>>)
      BY <1>6, <1>8, <2>2
    <2>4. Pending(y, stack, 0 + 1, y, <<>>)
      BY <1>3, <2>1, <2>2, <2>3, StopsNone, PendingPush
    <2> QED
      BY <2>2, <2>4
  <1>10. Expecting(wanted, text, stack, pos)
    BY <1>2, <1>3, <1>4, <1>5, <1>6, <1>9 DEF Expecting
  <1> QED
    BY <1>5, <1>10 DEF Journey

LEMMA WayStep == IInv /\ OnWay /\ [TripNext]_<<vars, wanted>> => OnWay'
  <1> SUFFICES ASSUME IInv, OnWay, [TripNext]_<<vars, wanted>> PROVE OnWay'
    OBVIOUS
  <1>1. CASE UNCHANGED <<vars, wanted>>
    BY <1>1 DEF vars, OnWay, Journey
  <1>2. CASE TripNext
    <2>1. Next /\ Kept
      BY <1>2 DEF TripNext, Next, Kept
    <2> SUFFICES ASSUME (wanted \in Readable)', (end \notin 1 .. Len(text))' PROVE Journey'
      BY DEF OnWay
    <2>2. EndOutside /\ Journey
      BY <2>1 DEF Kept, Input, OnWay, IInv, EndOutside
    <2>3. at \in {"parse", "array", "object", "after"}
      BY <2>1, DispatchRest DEF IInv
    <2> QED
      BY <2>1, <2>2, <2>3, WayParse, WayRest
  <1> QED
    BY <1>1, <1>2

\* A value that was written is read back as it was, whatever its shape and
\* depth, where end_ does not chance to lie inside the text, its strings hold no
\* quote and each of its numbers is one that the stream prints as the digits it
\* was computed from (JSON.h:119-146, 212-248 against parse.h:67-207).
THEOREM ReadBack == TripSpec => []RoundTrip
  <1>1. OnWay => RoundTrip
    BY DEF OnWay, Journey, RoundTrip, Readable
  <1> QED
    BY <1>1, TripInvariant, WayBegin, WayStep, PTL DEF TripSpec

=============================================================================
