--------------------------- MODULE JSONRoundTrip ---------------------------
(***************************************************************************)
(* Writing JSON values (src/src/cxx/json/write.h, JSON.h:109-163), the     *)
(* inverse of JSONParse: texts that were written from a value are parsed   *)
(* beside any others, and what the parser returns is recited.  What is     *)
(* written of a value is a function for each depth of nesting, as each     *)
(* write() calls that of the values one level down.  A number is written   *)
(* by operator<< (JSON.h:125), which prints six significant digits of it,  *)
(* with an exponent where they do not reach: Printed is what it prints.    *)
(***************************************************************************)
EXTENDS JSONParse

CONSTANTS
    Printed,    \* what operator<< prints of the number that parseNumber makes of a text
    Values,     \* JSON values, whose written form is parsed too
    Deepest     \* how deep they nest

VARIABLE wanted     \* history: the value text was written from, or None

\* Values that nest up to n deep, whose numbers are among nums and whose strings
\* and keys are among strs.
Nested(nums, strs) ==
    LET V[n \in Nat] ==
            ({"word"} \X Words) \cup ({"num"} \X nums) \cup ({"str"} \X strs)
                \cup IF n = 0 THEN {}
                     ELSE LET S == V[n - 1] IN ({"arr"} \X Seq(S)) \cup ({"obj"} \X Seq(strs \X S))
    IN V

JSONs == Nested(Chars, Chars)

ASSUME PrintedAssumption == DOMAIN Printed \subseteq Chars /\ Printed \in [DOMAIN Printed -> Chars]

ASSUME ValuesAssumption ==
    Deepest \in Nat /\ Values \subseteq Nested(DOMAIN Printed, Chars)[Deepest]

\* A comma goes before every item but the first.
Join(ss) ==
    LET J[k \in 1 .. Len(ss) + 1] ==
            IF k = 1 THEN <<>> ELSE J[k - 1] \o (IF k = 2 THEN <<>> ELSE <<",">>) \o ss[k - 1]
    IN J[Len(ss) + 1]

InQuotes(t) == <<"q">> \o t \o <<"q">>

\* What write() puts out, where w is what it puts out for the values one level
\* down, and num what is put out for a number: the items of an array, the
\* properties of an object, and any value.
Items(w, vs)      == [k \in DOMAIN vs |-> w[vs[k]]]
Property(w, p)    == InQuotes(p[1]) \o <<":">> \o w[p[2]]
Properties(w, ps) == [k \in DOMAIN ps |-> Property(w, ps[k])]

Spell(num, w, v) ==
    CASE v[1] = "word" -> v[2]
      [] v[1] = "num"  -> num[v[2]]
      [] v[1] = "str"  -> InQuotes(v[2])
      [] v[1] = "arr"  -> <<"[">> \o Join(Items(w, v[2])) \o <<"]">>
      [] v[1] = "obj"  -> <<"{">> \o Join(Properties(w, v[2])) \o <<"}">>

Spelling(num) ==
    LET W[n \in Nat] == [v \in Nested(DOMAIN num, Chars)[n] |-> Spell(num, W[n - 1], v)] IN W

\* JSON::write() as it is, and with each number as it was read.
Write  == Spelling(Printed)
Recite == Spelling([t \in Chars |-> t])

TripInit ==
    /\ \/ text \in Texts /\ wanted = None
       \/ wanted \in Values /\ text = Write[Deepest][wanted]
    /\ Begin

TripNext == Next /\ UNCHANGED wanted

TripSpec ==
    TripInit /\ [][TripNext]_<<vars, wanted>> /\ WF_<<vars, wanted>>(TripNext)

-----------------------------------------------------------------------------
(* What should be true.                                                    *)

Failed == result \in {<<"error">>, <<"undefined">>}

\* A number whose printed digits say all of it: an integer or a fraction within
\* the six digits, and none with an exponent.
PlainNumber(t) ==
    /\ Printed[t] = t
    /\ t # <<>> /\ t[1] \in {"d", "-"}
    /\ \E i \in 2 .. Len(t) + 1 :
          /\ \A k \in 2 .. i - 1 : t[k] = "d"
          /\ i <= Len(t) => t[i] = "." /\ \A k \in i + 1 .. Len(t) : t[k] = "d"

\* Nothing in it that ends a string: the writer escapes nothing (JSON.h:137).
PlainString(t) == \A k \in DOMAIN t : t[k] \notin {"q", kEOF}

Plain == Nested({t \in DOMAIN Printed : PlainNumber(t)}, {t \in Chars : PlainString(t)})

\* A value whose numbers are within the six digits and whose strings are plain
\* is read back as it was when what was written of it is parsed, unless end_
\* chances to lie inside the text: what the tests ask of a few
\* (JSONTests.cc:25-30).
RoundTrip ==
    at = "done" /\ wanted \in Plain[Deepest] /\ end \notin 1 .. Len(text) => result = wanted

\* The characters of t but for spaces and commas.
Essence(t) ==
    LET E[k \in 1 .. Len(t) + 1] ==
            IF k = 1 THEN <<>>
            ELSE IF t[k - 1] \in {" ", ","} THEN E[k - 1] ELSE Append(E[k - 1], t[k - 1])
    IN E[Len(t) + 1]

\* What a successful parse returns is made of the characters it read: all of
\* them but spaces and commas, in their order, and no others.
NothingInvented ==
    at = "done" /\ ~Failed =>
        /\ result \in JSONs[Len(text)]
        /\ Essence(Recite[Len(text)][result]) = Essence(SubSeq(text, 1, pos - 1))

=============================================================================
