---------------------------- MODULE MCResolver ----------------------------
(* An instance of Resolver: a program, two libraries, and their debugging  *)
(* data, in one file or two.                                               *)
EXTENDS Resolver

CONSTANTS main, lib, plain

Op(name, arg, size) == [op |-> name, arg |-> arg, size |-> size, groups |-> <<>>]
At(a) == Op("set_address", a, 11)
End   == Op("end_sequence", 0, 3)

\* A line of code from address a + 1 on; f is the file, and tells the programs
\* apart.
Begin(a, f) ==
    <<At(a), [op |-> "set_file", arg |-> f, size |-> 2, groups |-> <<f>>], Op("special", 5, 1)>>
Stop == <<Op("fixed_advance_pc", 1, 3), End>>

\* Two lines of code and one with none, from address a + 1 up to a + 4.
Code(a, f) == Begin(a, f) \o <<Op("special", 3, 1), Op("special", 3, 1)>> \o Stop
\* Two sequences, with room for such code between them and no more.
Around(a, f) == Begin(a, f) \o Stop \o Begin(a + 4, f) \o <<Op("special", 3, 1)>> \o Stop

MCPrograms ==
    {Code(a, f) : a \in 1 .. 5, f \in 0 .. 1} \cup {Around(0, f) : f \in 0 .. 1}

Segment(names, program) ==
    [is |-> "segment", sections |->
        [i \in DOMAIN names |-> [name |-> names[i],
            contents |-> IF names[i] = "debug_line" THEN program ELSE <<>>]]]
Other(n) == [is |-> "other", size |-> n]

Text == Segment(<<"text">>, <<>>)
Debug(p) == <<Text, Segment(<<"debug_line", "debug_line_str">>, p)>>

\* Load commands of every kind before, between and behind the sections.
Commands == {Other(8), Other(24), Segment(<<>>, <<>>), Text}
Layouts ==
    {b \o <<Segment(<<"debug_line">>, Code(1, 0))>> \o c \o <<Segment(<<"debug_line_str", "text">>, <<>>)>> :
        b, c \in UNION {[1 .. n -> Commands] : n \in 0 .. 2}}

\* The program's data in its .dSYM, that of lib in the library itself.
Disk(p, l, x) ==
    (<<main, "itself">> :> <<Text>>) @@ (<<main, "dSYM">> :> p)
        @@ (<<lib, "itself">> :> l)
        @@ (<<plain, "itself">> :> <<Other(8), Text>>) @@ (<<plain, "dSYM">> :> x)

\* Touching on either side, apart, overlapping, touching on both sides, and
\* missing.
Disks ==
    {Disk(Debug(Code(p, 0)), Debug(Code(l, 1)), <<Text>>) :
        <<p, l>> \in {<<1, 4>>, <<4, 1>>, <<1, 5>>, <<2, 3>>}}
      \cup {Disk(Debug(Around(0, 0)), Debug(Code(1, 1)), <<Text>>),
            Disk(Debug(Code(1, 0)), Debug(Around(0, 1)), <<Text>>),
            Disk(<<Text>>, Debug(Code(4, 1)), Debug(Code(1, 0)))}

Slides(s) == [i \in Image |-> CASE i = main -> s[1] [] i = lib -> s[2] [] i = plain -> s[3]]
Frames == {[image |-> i, at |-> a] : i \in {main, lib}, a \in 1 .. 8}
             \cup {[image |-> plain, at |-> 3], [image |-> NoImage, at |-> 0]}

Setup(files, slides, traces) ==
    [layout |-> files, slides |-> {Slides(s) : s \in slides}, traces |-> traces]

MCSetups ==
    {Setup(d, {<<0, 0, 10>>, <<5, 5, 5>>, <<8, 0, 20>>, <<2, 20, 0>>}, UNION {[1 .. n -> Frames] : n \in 1 .. 2}) :
        d \in Disks}
    \cup {Setup(d, {<<5, 5, 5>>}, [1 .. 3 -> [image : {main, lib}, at : {3, 5, 6}]]) : d \in Disks}
    \cup {Setup(Disk(d, <<Text>>, <<Text>>), {<<0, 0, 0>>}, {<<[image |-> main, at |-> 3]>>}) : d \in Layouts}

MCLineBase == -1

=============================================================================
