---------------------------- MODULE MCJSONParse ----------------------------
(* Instances of JSONRoundTrip: every short text, and some values written.  *)
EXTENDS JSONRoundTrip, TLC

\* Texts that begin as arrays and as objects, and texts of characters that
\* begin neither.
After(first, C, n) == UNION {{<<first>> \o t : t \in [1 .. k -> C]} : k \in 0 .. n}

\* Words, and words that break off or go on as another, alone and in an array.
WordTexts ==
    {first \o started \o rest :
        first \in {<<>>, <<" ">>, <<"[">>},
        started \in UNION {{SubSeq(w, 1, k) : k \in DOMAIN w} : w \in Words},
        rest \in {<<>>, <<"l">>, <<"e">>, <<" ">>, <<"]">>, <<"FF">>, <<",", "t">>}}

MCTexts ==
    After("[", {"[", "]", ",", " ", "d", "q"}, 5)
        \cup After("{", {"{", "}", ":", ",", "q", "d"}, 5)
        \cup UNION {[1 .. n -> {"d", "-", ".", "n", " ", ",", "x", "FF", "q"}] : n \in 0 .. 4}
        \cup WordTexts

\* What two significant digits, in place of six, print of some numbers: 7, -1.5,
\* 1.25 as 1.2 and 100 as 1e+02.
MCPrinted ==
    (<<"d">> :> <<"d">>) @@ (<<"-", "d", ".", "d">> :> <<"-", "d", ".", "d">>)
        @@ (<<"d", ".", "d", "d">> :> <<"d", ".", "d">>)
        @@ (<<"d", "d", "d">> :> <<"d", "e", "x", "d", "d">>)

\* The numbers that come back, and those that do not; strings, the last of which
\* is cut short by the quote in it.
Leaves == {Word(w) : w \in Words} \cup {Num(t) : t \in DOMAIN MCPrinted}
              \cup {Quoted(<<>>), Quoted(<<"x", " ">>), Quoted(<<"q">>)}
Lists(S, n) == UNION {[1 .. k -> S] : k \in 0 .. n}
Nests(S) == {Arr(vs) : vs \in Lists(S, 2)} \cup
            {Obj(ps) : ps \in Lists({<<"d">>} \X S, 2)}
Shallow == Leaves \cup Nests(Leaves)

MCValues == Shallow \cup Nests({Word(<<"t", "r", "u", "e">>)} \cup Nests({Quoted(<<>>)}))

=============================================================================
