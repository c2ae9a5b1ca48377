----------------------------- MODULE LineTable -----------------------------
(***************************************************************************)
(* DWARF::evalLineProg (src/src/cxx/prog/DWARF.h) interprets the line      *)
(* program of the first unit of .debug_line and fills a map from addresses *)
(* to source locations; StackResolver::findLocation (src/src/cxx/          *)
(* StackTrace.h) looks an address up in it.                                *)
(*                                                                         *)
(* A program is the sequence of its operations, each a record with the     *)
(* bytes it takes, the groups of its number if that is in LEB128, and the  *)
(* number that was written, which only the properties look at then.  The   *)
(* operand of set_isa, which the code does not read with its opcode, makes *)
(* entries of its own, one for each byte.  Addresses are those of the      *)
(* image, the slide already taken off.                                     *)
(***************************************************************************)
EXTENDS Cursor

CONSTANTS
    Programs,   \* the line programs
    Addresses,  \* the addresses looked up
    LineBase,   \* line_base of the header, an int
    LineRange,  \* line_range, a divisor
    OpcodeBase, \* opcode_base, the first special opcode
    FileCount,  \* the length of the file table
    RegMod      \* file, line and column are kept modulo this: 2^32 in the code

ASSUME HeaderAssumption ==
    /\ LineBase \in Int /\ LineRange \in Nat \ {0}
    /\ OpcodeBase \in 13 .. 255 /\ Addresses \subseteq Nat
    /\ RegMod \in Nat /\ RegMod >= 4 /\ RegMod % 2 = 0 /\ Pow2[WordBits] % RegMod = 0
    /\ FileCount \in 0 .. RegMod \div 2

\* The highest special opcode is 255.
AdjMax == 255 - OpcodeBase

\* The operations whose number is in LEB128, without a sign and with one.
Unsigned == {"advance_pc", "set_file", "set_column"}
Signed   == {"advance_line"}

\* A longer number would be read with an undefined shift.
ASSUME NumbersAssumption ==
    \A p \in Programs : \A k \in DOMAIN p :
        /\ p[k].op \in Unsigned => WrittenUnsigned(p[k].arg, p[k].groups)
        /\ p[k].op \in Signed => WrittenSigned(p[k].arg, p[k].groups)

\* What a compiler writes: a program ends where its last sequence does, and a
\* special opcode is one that there is.
ASSUME ProgramsAssumption ==
    \A p \in Programs :
        /\ p \in Seq(ToSet(p)) /\ p # <<>>
        /\ p[Len(p)].op = "end_sequence" /\ p[Len(p)].size = 3
        /\ \A k \in DOMAIN p :
              /\ p[k].size \in Nat \ {0} /\ p[k].op # "astray"
              /\ p[k].op = "fixed_advance_pc" => p[k].arg \in Nat
              /\ p[k].op = "set_address" => p[k].arg \in 0 .. Pow2[WordBits] - 1
              /\ p[k].op = "special" => p[k].arg \in 0 .. AdjMax
              /\ p[k].op = "set_isa" => p[k + 1].op = "operand"
              /\ p[k].op = "operand" =>
                    p[k].arg \in 0 .. 255 /\ k > 1 /\ p[k - 1].op \in {"set_isa", "operand"}

VARIABLES
    prog,       \* the line program
    next,       \* the index in it of the operation to be read
    reg,        \* the registers addr, file, line and col
    out,        \* the map, a function from addresses to rows
    status      \* "running", "done", "failed" once it has thrown, or "astray"
                \* once the bytes of one operation are read as another's

vars == <<prog, next, reg, out, status>>

\* What reset() leaves in the registers.
Reset == [addr |-> 0, file |-> 1, line |-> 1, col |-> 0]

\* The empty map.
NoRows == [a \in {} |-> Reset]

Init ==
    /\ prog \in Programs
    /\ next = 1
    /\ reg = Reset
    /\ out = NoRows
    /\ status = "running"

-----------------------------------------------------------------------------
(* Interpreting.                                                           *)

\* A row's file: an index of the table, none, or what lies beyond the table.
NoFile == -1
Unread == -2

\* append(): files[file] is read unless file is negative, and the row takes
\* the place of any other at its address.
Row(r) ==
    [addr |-> r.addr,
     file |-> IF r.file < 0 THEN NoFile ELSE IF r.file < FileCount THEN r.file ELSE Unread,
     line |-> r.line,
     col  |-> r.col]

\* Wrong: as insert() does, which keeps the row that is there.
StoreFirst(rows, r) ==
    [a \in DOMAIN rows \cup {r.addr} |-> IF a \in DOMAIN rows THEN rows[a] ELSE Row(r)]

Store(rows, r) ==
    [a \in DOMAIN rows \cup {r.addr} |-> IF a = r.addr THEN Row(r) ELSE rows[a]]

\* addr is a uint64_t; line and col are of 32 bits, and so is fileIndex, with
\* a sign, whatever the number that is read for them.
Address(n) == n % Pow2[WordBits]
Line(n)    == n % RegMod
Column(n)  == n % RegMod

FileIndex(n) ==
    LET m == n % RegMod IN IF m >= RegMod \div 2 THEN m - RegMod ELSE m

\* Nothing is read behind the opcode of set_isa, though opSizes says that an
\* operand is there: it is taken for operations, byte by byte.  Some of these
\* take the bytes behind them for their operands.
TakenFor(byte) ==
    CASE byte \in {0, 2, 3, 4, 5, 9} -> "astray"
      [] byte = 1                    -> "copy"
      [] byte = 8                    -> "const_add_pc"
      [] byte \in {6, 7, 10, 11, 12} -> "ignored"
      [] byte \in 13 .. OpcodeBase - 1 -> "unknown"
      [] OTHER                       -> "special"

Taken(o) ==
    IF o.op = "operand"
    THEN [op |-> TakenFor(o.arg), arg |-> o.arg - OpcodeBase]
    ELSE o

\* The bytes from operation k to the end of the unit.
Remaining(k) ==
    LET From[i \in 1 .. Len(prog) + 1] ==
            IF i = Len(prog) + 1 THEN 0 ELSE prog[i].size + From[i + 1]
    IN From[k]

\* dataLimit is unit_length bytes from where that field begins, not from where
\* it ends: the last four bytes are taken to be past the program.
Reading(op) ==
    /\ status = "running"
    /\ next <= Len(prog) /\ Remaining(next) > 4
    /\ Taken(prog[next]).op = op
    /\ next' = next + 1
    /\ UNCHANGED prog

Arg ==
    LET o == Taken(prog[next]) IN
    CASE o.op \in Unsigned -> Uleb(o.groups)
      [] o.op \in Signed -> Sleb(o.groups)
      [] OTHER -> o.arg

Sets(r) == reg' = r /\ UNCHANGED <<out, status>>

Emits(r) == out' = Store(out, r) /\ UNCHANGED status

Copy == Reading("copy") /\ Emits(reg) /\ UNCHANGED reg

AdvancePc ==
    \/ Reading("advance_pc") /\ Sets([reg EXCEPT !.addr = Address(@ + Arg)])
    \/ Reading("fixed_advance_pc") /\ Sets([reg EXCEPT !.addr = Address(@ + Arg)])
    \/ Reading("const_add_pc")
       /\ Sets([reg EXCEPT !.addr = Address(@ + (AdjMax \div LineRange))])

AdvanceLine == Reading("advance_line") /\ Sets([reg EXCEPT !.line = Line(@ + Arg)])
SetFile     == Reading("set_file") /\ Sets([reg EXCEPT !.file = FileIndex(Arg)])

\* Wrong: a column is as wide as the number that is read.
SetColumnWide == Reading("set_column") /\ Sets([reg EXCEPT !.col = Arg])

SetColumn  == Reading("set_column") /\ Sets([reg EXCEPT !.col = Column(Arg)])
SetAddress == Reading("set_address") /\ Sets([reg EXCEPT !.addr = Arg])

\* negate_stmt and the rest that change no register kept here; and the opcode
\* of set_isa.
Ignored == (Reading("ignored") \/ Reading("set_isa")) /\ Sets(reg)

\* Wrong: the row is emitted before the registers move.
SpecialEmitsFirst ==
    /\ Reading("special")
    /\ reg' = [reg EXCEPT !.addr = Address(@ + (Arg \div LineRange)),
                          !.line = Line(@ + LineBase + (Arg % LineRange))]
    /\ Emits(reg)

Special ==
    /\ Reading("special")
    /\ reg' = [reg EXCEPT !.addr = Address(@ + (Arg \div LineRange)),
                          !.line = Line(@ + LineBase + (Arg % LineRange))]
    /\ Emits(reg')

\* The registers of a row that says no more than that code ends here.
Sentinel == [addr |-> reg.addr, file |-> -1, line |-> 0, col |-> 0]

\* Wrong: no row for the end.
EndSequenceNoRow == Reading("end_sequence") /\ reg' = Reset /\ UNCHANGED <<out, status>>

EndSequence == Reading("end_sequence") /\ Emits(Sentinel) /\ reg' = Reset

\* An operation it does not know: it throws, and getLocations() carries on
\* with the rows there are.  The extended opcode of set_discriminator is 4, and
\* the code knows it as 3.
Unknown ==
    /\ Reading("unknown") \/ Reading("set_discriminator")
    /\ status' = "failed"
    /\ UNCHANGED <<reg, out>>

\* From here on the code reads operations that were never written; it is not
\* followed any further.
Astray ==
    /\ Reading("astray")
    /\ status' = "astray"
    /\ UNCHANGED <<reg, out>>

\* Wrong: no row behind the last.
FinishNoRow ==
    /\ status = "running"
    /\ Remaining(next) <= 4
    /\ reg' = Sentinel
    /\ status' = "done"
    /\ UNCHANGED <<prog, next, out>>

Finish ==
    /\ status = "running"
    /\ Remaining(next) <= 4
    /\ reg' = Sentinel
    /\ out' = Store(out, Sentinel)
    /\ status' = "done"
    /\ UNCHANGED <<prog, next>>

Next ==
    \/ Copy \/ AdvancePc \/ AdvanceLine \/ SetFile \/ SetColumn \/ SetAddress
    \/ Ignored \/ Special \/ EndSequence \/ Unknown \/ Astray \/ Finish

Spec == Init /\ [][Next]_vars

-----------------------------------------------------------------------------
(* Looking up.                                                             *)

Nothing == [addr |-> 0, file |-> NoFile, line |-> 0, col |-> 0]

\* upper_bound() and one back.  There must be one back: findLocation() does
\* not compare with begin(), and what precedes the first row is undefined.
Below(a) == {b \in DOMAIN out : b <= a}
Known(a) == Below(a) # {}
RowAt(a) == out[Max(Below(a))]

\* A location without a line counts as none.
FindLocation(a) == IF RowAt(a).line = 0 THEN Nothing ELSE RowAt(a)

-----------------------------------------------------------------------------
(* What the program means: the rows of the matrix of the DWARF standard,   *)
(* in order, each with whether it ends a sequence.  Addresses wrap as the  *)
(* machine's do, and lines and columns are told as SourceLoc can tell them.*)

\* A special opcode is (line increment - line_base) + line_range * advance.
Moves(adj) ==
    CHOOSE m \in (LineBase .. LineBase + LineRange - 1) \X (0 .. adj) :
        adj = (m[1] - LineBase) + LineRange * m[2]

Meant(r, o) ==
    CASE o.op \in {"advance_pc", "fixed_advance_pc"} -> [r EXCEPT !.addr = Address(@ + o.arg)]
      [] o.op = "const_add_pc" -> [r EXCEPT !.addr = Address(@ + Moves(AdjMax)[2])]
      [] o.op = "special"      -> [r EXCEPT !.addr = Address(@ + Moves(o.arg)[2]),
                                            !.line = Line(@ + Moves(o.arg)[1])]
      [] o.op = "advance_line" -> [r EXCEPT !.line = Line(@ + o.arg)]
      [] o.op = "set_file"     -> [r EXCEPT !.file = o.arg]
      [] o.op = "set_column"   -> [r EXCEPT !.col = o.arg % RegMod]
      [] o.op = "set_address"  -> [r EXCEPT !.addr = o.arg]
      [] o.op = "end_sequence" -> Reset
      [] OTHER                 -> r

\* The registers before each operation of program p, and after the last.
Registers(p) ==
    LET R[k \in 1 .. Len(p) + 1] == IF k = 1 THEN Reset ELSE Meant(R[k - 1], p[k - 1])
    IN R

\* The row that operation k emits, if it does; R is the registers.
Emitted(p, R, k) ==
    CASE p[k].op \in {"copy", "special"} -> <<[row |-> Row(R[k + 1]), end |-> FALSE]>>
      [] p[k].op = "end_sequence" -> <<[row |-> Row(R[k]), end |-> TRUE]>>
      [] OTHER -> <<>>

\* The rows that program p means, by each of its operations.
Matrix(p) ==
    LET R == Registers(p)
        M[k \in 1 .. Len(p) + 1] == IF k = 1 THEN <<>> ELSE M[k - 1] \o Emitted(p, R, k - 1)
    IN M

\* All of them.
Rows(p) == Matrix(p)[Len(p) + 1]

\* The rows of M whose code includes address a, up to the next row.
Covering(M, a) ==
    {i \in DOMAIN M \ {Len(M)} : ~M[i].end /\ M[i].row.addr <= a /\ a < M[i + 1].row.addr}

\* Line 0 is code that no source line stands for.
Located(M, a) ==
    IF Covering(M, a) = {} THEN Nothing
    ELSE LET i == CHOOSE i \in Covering(M, a) : \A j \in Covering(M, a) : j <= i IN
         IF M[i].row.line = 0 THEN Nothing ELSE M[i].row

Ascending(M) == \A i, j \in DOMAIN M : i < j => M[i].row.addr <= M[j].row.addr

\* Each sequence ascends, and no address is in two.
SameSequence(M, i, j) == i <= j /\ \A n \in i .. j - 1 : ~M[n].end
Apart(M) ==
    /\ \A i, j \in DOMAIN M : SameSequence(M, i, j) => M[i].row.addr <= M[j].row.addr
    /\ \A a \in Addresses : \A i, j \in Covering(M, a) :
          SameSequence(M, i, j) \/ SameSequence(M, j, i)

\* The operation before the last end_sequence is out of the last four bytes.
TailRead(p) == Len(p) > 1 /\ p[Len(p) - 1].size > 1

\* No operation but the end of a sequence makes the address less.
Onward(p) ==
    LET R == Registers(p) IN
    \A k \in DOMAIN p : p[k].op = "end_sequence" \/ R[k].addr <= R[k + 1].addr

\* The first n operations are taken for what they are: files are those of the
\* table, and no byte of an operand does anything as an operation.
Followed(p, n) ==
    \A k \in 1 .. n :
        /\ p[k].op = "set_file" => p[k].arg < FileCount
        /\ p[k].op = "operand" => Taken(p[k]).op = "ignored"

-----------------------------------------------------------------------------
(* What should be true.                                                    *)

TypeOK ==
    /\ next \in 1 .. Len(prog) + 1
    /\ reg.addr \in 0 .. Pow2[WordBits] - 1
    /\ reg.file \in -(RegMod \div 2) .. (RegMod \div 2) - 1
    /\ reg.line \in 0 .. RegMod - 1 /\ reg.col \in 0 .. RegMod - 1
    /\ \A a \in DOMAIN out : a \in Nat /\ out[a].addr = a
    /\ status \in {"running", "done", "failed", "astray"}

\* A number reads as what was written, in no more bytes than it needs or padded
\* to as many as fit; negative ones come modulo the word (Cursor.h:97-127).
OperandRead ==
    status = "running" /\ next <= Len(prog) =>
        Arg % Pow2[WordBits] = Taken(prog[next]).arg % Pow2[WordBits]

\* Once the program is read, an address is located in the row whose code it
\* belongs to, when the sequences come in the order of their addresses.
LocatesEvery ==
    LET M == Rows(prog) IN
    status = "done" /\ TailRead(prog) /\ Followed(prog, Len(prog)) /\ Ascending(M) =>
        \A a \in Addresses : Known(a) => FindLocation(a) = Located(M, a)

\* In whatever order the sequences come, an address is never located in a row
\* that is not its own: the end of one sequence may hide the first row of
\* another, at the same address, but then the address has no location.
NeverMisplaces ==
    LET M == Rows(prog) IN
    status = "done" /\ TailRead(prog) /\ Followed(prog, Len(prog)) /\ Apart(M) =>
        \A a \in Addresses : Known(a) => FindLocation(a) \in {Nothing, Located(M, a)}

\* An operation of one byte before the last end_sequence is not executed, for
\* dataLimit is four bytes short (DWARF.h:68-69, 198).  The code behind the last
\* row that was emitted then has no location, rather than that of the row.
TailUnlocated ==
    LET M == Rows(prog) IN
    status = "done" /\ ~TailRead(prog) /\ Followed(prog, Len(prog)) /\ Onward(prog) /\ Apart(M) =>
        \A a \in Addresses : Known(a) => FindLocation(a) \in {Nothing, Located(M, a)}

\* As far as a program is read, and so when it is broken off by an operation
\* that is not known, it has located the code up to the last row it emitted.
PartLocates ==
    LET M == Matrix(prog)[next] IN
    status # "done" /\ Followed(prog, next - 1) /\ Ascending(M) =>
        \A a \in Addresses :
            Known(a) /\ a < Max(DOMAIN out) => FindLocation(a) = Located(M, a)

\* A program of operations that the code lists is read to its end, and what it
\* lists as changing nothing (DWARF.h:144-149, 169-171) changes no location.
ListedIsRead ==
    LET M == Rows(prog) IN
    /\ status # "running" /\ TailRead(prog) /\ Ascending(M)
    /\ \A k \in DOMAIN prog :
          prog[k].op # "unknown" /\ (prog[k].op = "set_file" => prog[k].arg < FileCount)
    => status = "done" /\ \A a \in Addresses : Known(a) => FindLocation(a) = Located(M, a)

=============================================================================
