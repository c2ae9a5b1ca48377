----------------------------- MODULE JSONParse -----------------------------
(***************************************************************************)
(* JSON::parse (src/src/cxx/json/parse.h): a recursive-descent parser over *)
(* an iterator range, with the recursion as an explicit stack.  A text is  *)
(* a sequence of symbols: the characters the code branches on, "d" for any *)
(* digit, "x" for a character that nothing reads but a string, and "FF"    *)
(* for the byte 0xFF, which equals kEOF.  The double that parseNumber      *)
(* computes (parse.h:168-194) is named by the characters it is computed    *)
(* from: Num(t) is whatever that arithmetic makes of t.                    *)
(*                                                                         *)
(* The constructor sets it_ and leaves end_ as it finds it (parse.h:31-34, *)
(* seq.end() is called and dropped), so end_ is any position or none.      *)
(***************************************************************************)
EXTENDS Integers, Sequences, SequencesExt

CONSTANT Texts  \* the input texts

Letters  == {"n", "u", "l", "t", "r", "e", "f", "a", "s"}
Alphabet == {"d", "-", ".", "q", " ", "[", "]", "{", "}", ",", ":", "x", "FF"} \cup Letters
Chars    == Seq(Alphabet)

\* What parseNull and parseBool expect: null, true and false.
Words == {<<"n", "u", "l", "l">>, <<"t", "r", "u", "e">>, <<"f", "a", "l", "s", "e">>}

ASSUME TextsAssumption == \A t \in Texts : t \in Chars

VARIABLES
    text,       \* the characters of seq
    end,        \* end_: a position of text, one past it, or Nowhere
    pos,        \* it_
    stack,      \* the calls of parseArray and parseObject under way
    at,         \* where the innermost call stands
    result      \* what JSON::parse returns, once at = "done"

vars == <<text, end, pos, stack, at, result>>

None    == <<"none">>
Nowhere == -1
NUL     == "NUL"
kEOF    == "FF"

Word(w)   == <<"word", w>>
Num(t)    == <<"num", t>>
Quoted(t) == <<"str", t>>
Arr(vs)   == <<"arr", vs>>
Obj(ps)   == <<"obj", ps>>

\* A frame gathers what parse() appends to its vector; an object's also has
\* the properties so far and the key whose value comes next.
Frame(fn)  == [fn |-> fn, vals |-> <<>>, props |-> <<>>, key |-> <<>>]
Top        == stack[Len(stack)]
Depth      == Len(stack) - 1

\* ParseState::ch() at position p.  A String has a NUL after its last
\* character; what lies beyond that is anybody's.
Ch(p) ==
    CASE p = end -> kEOF
      [] p # end /\ p <= Len(text) -> text[p]
      [] p # end /\ p = Len(text) + 1 -> NUL
      [] OTHER -> "beyond"

\* The first position from p on that has no character of S.
Past(S, p) ==
    CHOOSE q \in p .. Len(text) + 1 :
        Ch(q) \notin S /\ \A r \in p .. q - 1 : Ch(r) \in S

SkipSpace(p) == Past({" "}, p)

\* ParseState(), on text.
Begin ==
    /\ end \in 1 .. Len(text) + 1 \cup {Nowhere}
    /\ pos = 1
    /\ stack = <<Frame("top")>>
    /\ at = "parse"
    /\ result = None

Init == text \in Texts /\ Begin

-----------------------------------------------------------------------------

Input == <<text, end>>

\* Wrong: error() returns to its caller.
ErrorReturns(p) ==
    /\ result' = <<"error">>
    /\ pos' = p
    /\ UNCHANGED <<at, stack>>

\* A ParseException reaches JSON::parse, which returns it.
Error(p) ==
    /\ result' = <<"error">>
    /\ at' = "done"
    /\ pos' = p
    /\ UNCHANGED stack

\* it_ has run past everything the text's memory is known to hold.
Overrun ==
    /\ result' = <<"undefined">>
    /\ at' = "done"
    /\ pos' = Len(text) + 2
    /\ UNCHANGED stack

\* parse() returns to the innermost call, with v pushed to its vector.
Deliver(v, p, below) ==
    /\ stack' = [below EXCEPT ![Len(below)].vals = Append(@, v)]
    /\ at' = "after"
    /\ pos' = p
    /\ UNCHANGED result

\* The innermost call returns v, having read its closing bracket at p.
Close(v, p) == Deliver(v, p + 1, Front(stack))

Enter(fn, p) ==
    /\ stack' = Append(stack, Frame(fn))
    /\ at' = fn
    /\ pos' = p + 1
    /\ UNCHANGED result

Goto(label, p) ==
    /\ at' = label
    /\ pos' = p
    /\ UNCHANGED <<stack, result>>

\* Wrong: a character is read before a quote is looked for.
StringEndLate(p) ==
    LET stops == {q \in p + 2 .. Len(text) + 1 : Ch(q) \in {"q", kEOF}}
    IN IF stops = {} THEN 0 ELSE Min(stops)

\* parseString() with it_ on the opening quote at p reads up to the next quote
\* or to the end of the text; 0 when it meets neither.
StringEnd(p) ==
    LET stops == {q \in p + 1 .. Len(text) + 1 : Ch(q) \in {"q", kEOF}}
    IN IF stops = {} THEN 0 ELSE Min(stops)

StringText(p) == SubSeq(text, p + 1, StringEnd(p) - 1)

\* The string at p has no closing quote.
Unclosed(p) ==
    \/ StringEnd(p) = 0 /\ Overrun
    \/ StringEnd(p) # 0 /\ Ch(StringEnd(p)) = kEOF /\ Error(StringEnd(p))

Closed(p) == StringEnd(p) # 0 /\ Ch(StringEnd(p)) = "q"

\* Wrong: integers only.
NumberEndInteger(p) == Past({"d"}, IF Ch(p) = "-" THEN p + 1 ELSE p)

\* parseNumber() from p: an optional sign, digits, an optional fraction.
NumberEnd(p) ==
    LET s == IF Ch(p) = "-" THEN p + 1 ELSE p
        i == Past({"d"}, s)
    IN IF Ch(i) = "." THEN Past({"d"}, i + 1) ELSE i

-----------------------------------------------------------------------------
(* ParseState::parse(): skip space, then what the next character says.     *)

Here == SkipSpace(pos)

\* The first k letters of w are there to be read.
Agrees(w, k) == \A i \in 1 .. k : Ch(Here + i - 1) = w[i]

\* The first letter decides which word; the letters are read one by one, up to
\* the first that is not the expected one.
ParseWord ==
    /\ at = "parse"
    /\ \E w \in Words :
          /\ Agrees(w, 1)
          /\ \/ Agrees(w, Len(w)) /\ Deliver(Word(w), Here + Len(w), stack)
             \/ \E k \in DOMAIN w :
                   /\ Agrees(w, k - 1) /\ Ch(Here + k - 1) # w[k]
                   /\ Error(Here + k - 1)

\* Wrong: the sign is lost.
ParseNumberUnsigned ==
    /\ at = "parse" /\ Ch(Here) \in {"d", "-"}
    /\ LET s == IF Ch(Here) = "-" THEN Here + 1 ELSE Here IN
       Deliver(Num(SubSeq(text, s, NumberEnd(Here) - 1)), NumberEnd(Here), stack)

ParseNumber ==
    /\ at = "parse" /\ Ch(Here) \in {"d", "-"}
    /\ Deliver(Num(SubSeq(text, Here, NumberEnd(Here) - 1)), NumberEnd(Here), stack)

ParseString ==
    /\ at = "parse" /\ Ch(Here) = "q"
    /\ \/ Closed(Here) /\ Deliver(Quoted(StringText(Here)), StringEnd(Here) + 1, stack)
       \/ Unclosed(Here)

EnterArray  == at = "parse" /\ Ch(Here) = "[" /\ Enter("array", Here)
EnterObject == at = "parse" /\ Ch(Here) = "{" /\ Enter("object", Here)

\* Wrong: at any depth.
ParseCommaAnywhere == at = "parse" /\ Ch(Here) = "," /\ Goto("after", Here + 1)

\* A comma is eaten and nothing is pushed.
ParseComma ==
    /\ at = "parse" /\ Ch(Here) = ","
    /\ IF Depth = 0 THEN Error(Here) ELSE Goto("after", Here + 1)

ParseOther ==
    /\ at = "parse"
    /\ Ch(Here) \notin {"n", "t", "f", "d", "-", "q", "[", "{", ","}
    /\ Error(Here)

-----------------------------------------------------------------------------
(* parseArray().                                                           *)

ArrayItems ==
    /\ at = "array"
    /\ IF Ch(Here) = "]" THEN Close(Arr(Top.vals), Here) ELSE Goto("parse", Here)

\* Wrong: the comma is not read.
ArrayAfterStuck ==
    /\ at = "after" /\ Top.fn = "array"
    /\ \/ Ch(pos) = "]" /\ Close(Arr(Top.vals), pos)
       \/ Ch(pos) # "]" /\ Ch(Here) = "," /\ Goto("after", Here)
       \/ Ch(pos) # "]" /\ Ch(Here) # "," /\ Error(Here)

\* The closing bracket is looked for before space is skipped, not after.
ArrayAfter ==
    /\ at = "after" /\ Top.fn = "array"
    /\ \/ Ch(pos) = "]" /\ Close(Arr(Top.vals), pos)
       \/ Ch(pos) # "]" /\ Ch(Here) = "," /\ Goto("array", Here + 1)
       \/ Ch(pos) # "]" /\ Ch(Here) # "," /\ Error(Here)

-----------------------------------------------------------------------------
(* parseObject().                                                          *)

\* The key is in; then a colon, then the value.
ObjectColon(t, p) ==
    LET c == SkipSpace(p) IN
    IF Ch(c) = ":"
    THEN /\ stack' = [stack EXCEPT ![Len(stack)] =
                         [fn |-> Top.fn, vals |-> <<>>, props |-> Top.props, key |-> t]]
         /\ at' = "parse"
         /\ pos' = c + 1
         /\ UNCHANGED result
    ELSE Error(c)

ObjectProps ==
    /\ at = "object"
    /\ \/ Ch(Here) = "}" /\ Close(Obj(Top.props), Here)
       \/ Ch(Here) = "q" /\ Closed(Here) /\ ObjectColon(StringText(Here), StringEnd(Here) + 1)
       \/ Ch(Here) = "q" /\ Unclosed(Here)
       \/ Ch(Here) \notin {"}", "q"} /\ Error(Here)

ObjectAfter ==
    /\ at = "after" /\ Top.fn = "object"
    /\ IF Len(Top.vals) # 1 THEN Error(pos)
       ELSE LET props == Append(Top.props, <<Top.key, Top.vals[1]>>) IN
            \/ Ch(Here) = "}" /\ Close(Obj(props), Here)
            \/ /\ Ch(Here) = ","
               /\ stack' = [stack EXCEPT ![Len(stack)].props = props]
               /\ at' = "object"
               /\ pos' = Here + 1
               /\ UNCHANGED result
            \/ Ch(Here) \notin {"}", ","} /\ Error(Here)

\* JSON::parse(): what follows the first value is not looked at.
Return ==
    /\ at = "after" /\ Top.fn = "top"
    /\ result' = Top.vals[1]
    /\ at' = "done"
    /\ UNCHANGED <<pos, stack>>

Next ==
    /\ \/ ParseWord \/ ParseNumber \/ ParseString \/ ParseComma \/ ParseOther
       \/ EnterArray \/ EnterObject
       \/ ArrayItems \/ ArrayAfter
       \/ ObjectProps \/ ObjectAfter
       \/ Return
    /\ UNCHANGED Input

\* The parser is one sequential call: it keeps running until it returns.
Spec == Init /\ [][Next]_vars /\ WF_vars(Next)

-----------------------------------------------------------------------------
(* What should be true.                                                    *)

TypeOK ==
    /\ end \in 1 .. Len(text) + 1 \cup {Nowhere}
    /\ pos \in 1 .. Len(text) + 2
    /\ stack # <<>> /\ \A k \in DOMAIN stack : stack[k].fn = "top" <=> k = 1
    /\ at \in {"parse", "array", "object", "after", "done"}
    /\ result = None <=> at # "done"

\* The vector of the outermost parse() has exactly one value when it returns,
\* as JSON::parse asserts (parse.h:94).
OneResult == at = "after" /\ Top.fn = "top" => Len(Top.vals) = 1

\* Whether place k of t is inside a string, with the quotes paired off from the
\* left.
InString(t) ==
    LET I[k \in 1 .. Len(t) + 1] ==
            IF k = 1 THEN FALSE ELSE IF t[k - 1] = "q" THEN ~ I[k - 1] ELSE I[k - 1]
    IN I

\* The quote at p opens a string, and neither a quote nor 0xFF comes behind it.
NeverClosed(p) ==
    /\ text[p] = "q" /\ ~ InString(text)[p]
    /\ \A q \in p + 1 .. Len(text) : text[q] \notin {"q", kEOF}

\* Only a string that is opened and never closed can carry it_ past the
\* terminator, and only when end_ is not there to stop it (parse.h:40-44,
\* 198-207): a closed one does not, whatever it holds and wherever it stands.
OverrunNeedsOpen ==
    result = <<"undefined">> => end = Nowhere /\ \E p \in DOMAIN text : NeverClosed(p)

\* Every parse returns: the goto loops and the recursion use up the text.
Terminates == <>(at = "done")

\* Reading at the end is an error: "unexpected EOF" (parse.h:44).
ReadsWithinText == pos <= Len(text) + 1

=============================================================================
