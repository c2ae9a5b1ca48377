---------------------------- MODULE MCLineTable ----------------------------
(* An instance of LineTable: programs of one or two sequences.             *)
EXTENDS LineTable

Op(name, arg, size) == [op |-> name, arg |-> arg, size |-> size, groups |-> <<>>]

\* An operation with a LEB128 number of n groups.
Leb(name, arg, n) ==
    [op |-> name, arg |-> arg, size |-> n + 1, groups |-> Groups(arg, n)]

\* The operations between set_address and end_sequence.  Special opcodes 1, 2
\* and 5 move (line, address) by (0, 0), (1, 0) and (1, 1).
Inner ==
    {Op("copy", 0, 1), Op("special", 1, 1), Op("special", 2, 1), Op("special", 5, 1),
     Leb("advance_pc", 1, 1), Op("fixed_advance_pc", 2, 3), Op("const_add_pc", 0, 1),
     Leb("advance_line", -1, 1), Leb("set_file", 0, 1), Leb("set_column", 1, 1),
     Op("ignored", 0, 1), Op("unknown", 0, 1), Op("set_discriminator", 0, 4)}

At(a) == Op("set_address", a, 11)
End   == Op("end_sequence", 0, 3)

\* One sequence, with up to four operations in it.
Singles == {<<At(1)>> \o ops \o <<End>> : ops \in UNION {[1 .. n -> Inner] : n \in 0 .. 4}}

\* Two sequences of one or two rows, in either order, apart or touching.
Short(a) ==
    {<<At(a), Op("special", 2, 1), o, Leb("advance_pc", 1, 1), End>> :
        o \in {Op("special", 5, 1), Op("special", 1, 1), Leb("advance_pc", 1, 1), Op("unknown", 0, 1)}}
Pairs == {s \o t : s, t \in UNION {Short(a) : a \in 0 .. 4}}

\* Every number that fits in n groups, for every n.
Numbers ==
    {<<At(1), Leb("advance_line", m, n), Leb("set_column", m % 2^(GroupBits * n), n),
       Op("special", 1, 1), Leb("advance_pc", m % 2^(GroupBits * n), n), End>> :
        <<n, m>> \in {x \in (1 .. WordBits \div GroupBits) \X (-2^(WordBits - 2) .. 2^(WordBits - 2)) :
            -2^(GroupBits * x[1] - 1) <= x[2] /\ x[2] < 2^(GroupBits * x[1] - 1)}}

\* set_isa, with an operand that as an operation is set_address or the like,
\* copy, advance_pc, ignored, const_add_pc, unknown or special.
Isa ==
    {<<At(1), Op("special", 2, 1)>> \o i \o ops \o <<End>> :
        i \in {<<Op("set_isa", 0, 1), Op("operand", b, 1)>> : b \in {0, 1, 2, 6, 7, 8, 12, 13, 249, 253}},
        ops \in UNION {[1 .. n -> Inner] : n \in 1 .. 2}}

\* Files in the table, beyond it, and such that an int32_t has no room for them.
Files ==
    {<<At(1), Leb("set_file", m, 3), Op("special", 1, 1), o, Leb("advance_pc", 1, 1), End>> :
        m \in 0 .. 2^(3 * GroupBits) - 1, o \in Inner}

\* Addresses at the end of what a uint64_t tells.
Wraps == {<<At(2^WordBits - 2)>> \o ops \o <<End>> : ops \in UNION {[1 .. n -> Inner] : n \in 1 .. 3}}

MCPrograms == Numbers \cup Singles \cup Pairs \cup Isa \cup Files \cup Wraps

\* line_base, which a .cfg cannot write.
MCLineBase == -1

=============================================================================
