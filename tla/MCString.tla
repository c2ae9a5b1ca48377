------------------------------ MODULE MCString ------------------------------
(* An instance of String: an empty, a short and two long texts.            *)
EXTENDS String

CONSTANTS short, long1, long2

\* One length on each side of kSmallMax matters, and the boundary itself.
MCLength == [t \in Text |-> CASE t = Empty -> 0
                              [] t = short -> kSmallMax - 1
                              [] t = long1 -> kSmallMax
                              [] t = long2 -> kSmallMax + 1]

\* Nothing but the empty text can be added to a text and leave it in Text.
MCPlus == [p \in (Text \X {Empty}) \cup ({Empty} \X Text) |->
              IF p[1] = Empty THEN p[2] ELSE p[1]]

=============================================================================
