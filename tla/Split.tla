------------------------------- MODULE Split -------------------------------
(***************************************************************************)
(* String::split (src/src/cxx/string/split.h), a Generator<String>: String *)
(* and a coroutine over its characters.  It keeps `this` from its call to  *)
(* its first resume, and from then on the address its characters had, in   *)
(* the string, in a shared block or in the program image; what happens to  *)
(* the string meanwhile, it does not notice.  Texts are sequences here,    *)
(* and strings are compared by their characters too (compare.h).           *)
(***************************************************************************)
EXTENDS String, Sequences, SequencesExt

CONSTANT Sep    \* the separator, a character

ASSUME SequenceAssumption == \A t \in Text : t \in Seq(ToSet(t)) /\ Length[t] = Len(t)

VARIABLES
    split,      \* the coroutine: where it stands, this, data, size and start
    parts,      \* history: the parts yielded
    whole,      \* history: the text when split() was called
    intact      \* history: nothing it relies on was taken away since

splitVars == <<split, parts, whole, intact>>

NoSplit == [at |-> "none"]

SplitInit ==
    /\ Init
    /\ split = NoSplit /\ parts = <<>> /\ whole = Empty /\ intact = TRUE

-----------------------------------------------------------------------------

\* What data() returns: an address, which is all the coroutine keeps.
Address(s) ==
    CASE Type(size[s]) = "LITERAL" -> data[s]
      [] Type(size[s]) = "SMALL"   -> [is |-> "inside", of |-> s]
      [] Type(size[s]) = "SHARED"  -> data[s]

\* The characters at an address now.
Bytes(d) ==
    CASE d.is = "pointer" -> d.to
      [] d.is = "ref" /\ refs[d.to] > 0 -> chars[d.to]
      [] d.is = "inside" /\ d.of \in exists /\ data[d.of].is = "chars" -> data[d.of].of
      [] OTHER -> Garbage

Call(s) ==
    /\ split = NoSplit /\ s \in exists
    /\ split' = [at |-> "called", this |-> s]
    /\ parts' = <<>> /\ whole' = val[s] /\ intact' = TRUE
    /\ UNCHANGED vars

\* The part of t from start to the next separator, or to the end of n.
End(t, n, start) ==
    LET found == {i \in start .. n : t[i] = Sep}
    IN IF found = {} THEN n + 1 ELSE CHOOSE i \in found : \A j \in found : i <= j

\* Wrong: the separator is left for the next part.
LoopKeepsSep(d, n, start) ==
    LET t == Bytes(d)
        e == End(t, n, start)
    IN IF start <= n /\ (t = Garbage \/ Len(t) < n)
       THEN split' = [at |-> "lost"] /\ UNCHANGED parts
       ELSE /\ split' = [at |-> IF e > n THEN "last" ELSE "yielded",
                         data |-> d, size |-> n, start |-> e]
            /\ parts' = IF intact THEN Append(parts, IF start > n THEN Empty ELSE SubSeq(t, start, e - 1))
                        ELSE <<>>

\* The loop from start, up to a co_yield.  Characters are read only if some
\* are left, and then as many as there were.
Loop(d, n, start) ==
    LET t == Bytes(d)
        e == End(t, n, start)
    IN IF start <= n /\ (t = Garbage \/ Len(t) < n)
       THEN split' = [at |-> "lost"] /\ UNCHANGED parts
       ELSE /\ split' = [at |-> IF e > n THEN "last" ELSE "yielded",
                         data |-> d, size |-> n, start |-> e + 1]
            /\ parts' = IF intact THEN Append(parts, IF start > n THEN Empty ELSE SubSeq(t, start, e - 1))
                        ELSE <<>>

Resume ==
    /\ \/ /\ split.at = "called"
          /\ IF split.this \in exists
             THEN Loop(Address(split.this), Abs(size[split.this]), 1)
             ELSE split' = [at |-> "lost"] /\ UNCHANGED parts
       \/ split.at = "yielded" /\ Loop(split.data, split.size, split.start)
       \/ split.at = "last" /\ split' = [at |-> "done"] /\ UNCHANGED parts
    /\ UNCHANGED <<vars, whole, intact>>

\* The generator goes away, finished or not.
Drop ==
    /\ split # NoSplit
    /\ split' = NoSplit /\ parts' = <<>> /\ whole' = Empty /\ intact' = TRUE
    /\ UNCHANGED vars

\* What the coroutine relies on through a step of String: until it starts,
\* that its string stays as it is; then only that its characters stay where
\* they are, for which any string that holds the block will do.
Keeps(s) == s \in exists /\ s \in exists' /\ size'[s] = size[s] /\ data'[s] = data[s]
Relies ==
    CASE split.at = "called" -> Keeps(split.this)
      [] split.at = "yielded" /\ split.data.is = "inside" -> Keeps(split.data.of)
      [] split.at = "yielded" /\ split.data.is = "ref" ->
            \E s \in exists' : data'[s] = split.data
      [] OTHER -> TRUE

\* The histories end with what they depend on.
StringStep ==
    /\ Next
    /\ intact' = (intact /\ Relies)
    /\ parts' = IF intact' THEN parts ELSE <<>>
    /\ whole' = IF intact' THEN whole ELSE Empty
    /\ UNCHANGED split

SplitNext ==
    \/ StringStep
    \/ \E s \in Str : Call(s)
    \/ Resume \/ Drop

SplitSpec == SplitInit /\ [][SplitNext]_<<vars, splitVars>>

-----------------------------------------------------------------------------
(* What should be true.                                                    *)

\* split() reads no character that has gone, and no string in its place, as
\* long as its string stays as it is until the first part; from then on a copy
\* made of a SHARED string is enough, whatever becomes of the string itself.
ReadsLive == intact => split.at # "lost"

Joined(ps) ==
    LET Upto[k \in 1 .. Len(ps)] == IF k = 1 THEN ps[1] ELSE Upto[k - 1] \o <<Sep>> \o ps[k]
    IN Upto[Len(ps)]

\* Then the parts, put together with separators, make the text that was split,
\* an empty part at either end included, and none has a separator in it.
PartsMakeText ==
    intact /\ parts # <<>> =>
        /\ \A i \in DOMAIN parts : Sep \notin ToSet(parts[i])
        /\ IF split.at \in {"last", "done"} THEN Joined(parts) = whole
           ELSE IsPrefix(Append(Joined(parts), Sep), whole)

=============================================================================
