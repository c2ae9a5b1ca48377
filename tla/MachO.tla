------------------------------- MODULE MachO -------------------------------
(***************************************************************************)
(* MachOBinary64 (src/src/cxx/prog/MachO64.h) finds the sections of a file *)
(* by walking its load commands with a Cursor.  A file is the function     *)
(* from the positions where something is kept to what is kept there: a     *)
(* number, a name, or the contents of a section as one thing.              *)
(***************************************************************************)
EXTENDS Cursor

kLoadSegment64     == 25
kSectionHeaderSize == 80
kMagic             == "feedfacf"

\* Where nothing is kept, some number is read.
Peek(f, c) == IF Position(c) \in DOMAIN f THEN f[Position(c)] ELSE 0

\* No size is ever compared with.
FileStart == Window(0, 0)

\* Wrong: cmdsize is taken to be what is still to come.
CommandPast(f, w) ==
    LET read     == Skip(w.cur, 8)
        nsects   == Peek(f, Skip(read, 56))
        Start(i) == Skip(read, 56 + 4 + 4 + kSectionHeaderSize * i)
    IN IF Peek(f, w.cur) = kLoadSegment64
       THEN [cur |-> Start(nsects), found |-> w.found \o [i \in 1 .. nsects |-> Copied(Start(i - 1))]]
       ELSE [cur |-> Skip(read, Peek(f, Skip(w.cur, 4))), found |-> w.found]

\* One turn of the loop in sections(), with all the turns of the loop inside:
\* the cursor goes through a load command, and the sections of a segment are
\* added to those found.
Command(f, w) ==
    LET cmd      == Peek(f, w.cur)
        cmdSize  == Peek(f, Skip(w.cur, 4))
        read     == Skip(w.cur, 8)
        nsects   == Peek(f, Skip(read, 56))
        Start(i) == Skip(read, 56 + 4 + 4 + kSectionHeaderSize * i)
    IN IF cmd = kLoadSegment64
       THEN [cur |-> Start(nsects), found |-> w.found \o [i \in 1 .. nsects |-> Copied(Start(i - 1))]]
       ELSE [cur |-> Skip(read, cmdSize - 8), found |-> w.found]

LoadCommands(f) == Peek(f, Plus(FileStart, 16))

Sections(f) ==
    LET Walk[k \in 0 .. LoadCommands(f)] ==
            IF k = 0 THEN [cur |-> Plus(FileStart, 32), found |-> <<>>] ELSE Command(f, Walk[k - 1])
    IN Walk[LoadCommands(f)].found

Name(f, section) == Peek(f, section)

Contents(f, section) == Peek(f, Plus(FileStart, Peek(f, Plus(section, 48))))

-----------------------------------------------------------------------------
(* The layout the format has (MachO64.h:47-51, 60-68, 100-107), for a list *)
(* of load commands: segments, each with its sections, and others, which   *)
(* are only of a size.                                                     *)

SectionsOf(cmd) == IF cmd.is = "segment" THEN cmd.sections ELSE <<>>
SizeOf(cmd)     == IF cmd.is = "segment" THEN 72 + 80 * Len(cmd.sections) ELSE cmd.size

\* A command is at least as long as what is read of it.
WellFormed(cmds) ==
    /\ cmds \in Seq(ToSet(cmds))
    /\ \A k \in DOMAIN cmds :
          \/ cmds[k].is = "other" /\ cmds[k].size \in Nat /\ cmds[k].size >= 8
          \/ /\ cmds[k].is = "segment"
             /\ cmds[k].sections \in Seq(ToSet(cmds[k].sections))
             /\ \A x \in ToSet(cmds[k].sections) : x = [name |-> x.name, contents |-> x.contents]

\* Where each command begins, and where the last one ends.
Begins(cmds) ==
    LET B[k \in 1 .. Len(cmds) + 1] == IF k = 1 THEN 32 ELSE B[k - 1] + SizeOf(cmds[k - 1])
    IN B

\* The sections before each command, and all the sections, in order.
Before(cmds) ==
    LET S[k \in 1 .. Len(cmds) + 1] == IF k = 1 THEN <<>> ELSE S[k - 1] \o SectionsOf(cmds[k - 1])
    IN S

AllSections(cmds) == Before(cmds)[Len(cmds) + 1]

\* Where section i of a segment begins in it.
Header(i) == 72 + 80 * (i - 1)

\* What is kept where in a load command; the contents of its section i are
\* kept at position contents + i of the file.
CommandBytes(cmd, contents) ==
    LET is    == DOMAIN SectionsOf(cmd)
        At(q) == CHOOSE i \in is : q \in {Header(i), Header(i) + 48}
    IN [q \in {0, 4} \cup (IF cmd.is = "segment" THEN {64} ELSE {})
                \cup UNION {{Header(i), Header(i) + 48} : i \in is} |->
          CASE q = 0  -> IF cmd.is = "segment" THEN 25 ELSE 2
            [] q = 4  -> SizeOf(cmd)
            [] q = 64 -> Len(cmd.sections)
            [] OTHER  -> IF q = Header(At(q)) THEN cmd.sections[At(q)].name ELSE contents + At(q)]

\* The contents of the sections come behind the load commands.
FileBytes(cmds) ==
    LET B        == Begins(cmds)
        end      == B[Len(cmds) + 1]
        all      == AllSections(cmds)
        Bytes(k) == CommandBytes(cmds[k], end + Len(Before(cmds)[k]))
        In(p)    == CHOOSE k \in DOMAIN cmds : B[k] <= p /\ p < B[k + 1]
    IN [p \in {0, 16} \cup {end + i : i \in DOMAIN all}
                \cup UNION {{B[k] + q : q \in DOMAIN Bytes(k)} : k \in DOMAIN cmds} |->
          CASE p = 0  -> kMagic
            [] p = 16 -> Len(cmds)
            [] p > end -> all[p - end].contents
            [] OTHER   -> Bytes(In(p))[p - B[In(p)]]]

=============================================================================
